----------------------- MODULE PluginLifecycle_proofs -----------------------
(* Proofs about the install, upgrade and uninstall of plugins: the order of their steps, what
   the steps so far have left in the instance, and what was reported of it. *)
EXTENDS PluginLifecycle, SequenceTheorems, TLAPS

Writes == {"copy", "module", "wire", "migrate", "seed", "lock", "relock", "register",
           "unregister", "delete"}
GitSteps == {"add", "commit", "addDashboard", "commitDashboard"}
PluginSteps == Writes \cup GitSteps

-----------------------------------------------------------------------------
(* Which step follows which *)

\* After s comes one of `nexts'.
Then(s, nexts) == {<<s, n>> : n \in nexts}
When(cond, pairs) == IF cond THEN pairs ELSE {}

CreateOrder == {<<"copy", "lock">>, <<"lock", "add">>, <<"add", "commit">>}
InstallOrder(m) ==
  Then("copy", {"migrate", "seed", "lock"})
  \cup When(m.terraform, {<<"copy", "module">>, <<"module", "wire">>})
  \cup Then("wire", {"migrate", "seed", "lock"})
  \cup Then("migrate", {"seed", "lock"}) \cup {<<"seed", "lock">>, <<"add", "commit">>}
  \cup {<<"lock", IF m.frontend THEN "register" ELSE "add">>}
  \cup {<<"register", IF split THEN "addDashboard" ELSE "add">>}
  \cup When(split, {<<"addDashboard", "commitDashboard">>, <<"commitDashboard", "add">>})
UpgradeOrder ==
  {<<"copy", "module">>} \cup Then("module", {"migrate", "seed", "relock"})
  \cup Then("migrate", {"seed", "relock"})
  \cup {<<"seed", "relock">>, <<"relock", "add">>, <<"add", "commit">>}
UninstallOrder(frontend) ==
  {<<"delete", "wire">>}
  \cup {<<x, IF frontend /\ ~split THEN "unregister" ELSE "lock">> : x \in {"delete", "wire"}}
  \cup {<<"lock", "add">>, <<"add", "commit">>}
  \cup When(frontend /\ ~split, {<<"unregister", "lock">>})
  \cup When(frontend /\ split, {<<"commit", "unregister">>, <<"unregister", "addDashboard">>,
                                <<"addDashboard", "commitDashboard">>})
SyncOrder == {<<"migrate", "lock">>, <<"lock", "add">>, <<"add", "commit">>}

InOrder(order, s) == s \in Seq(PluginSteps) /\ \A i \in 1..Len(s) - 1 : <<s[i], s[i + 1]>> \in order
Complete(order, final, s) == InOrder(order, s) /\ Len(s) > 0 /\ s[Len(s)] = final

WorkedThrough(j) ==
  LET m == Ships[j.name][j.version] IN
  CASE j.cmd = "create" -> Complete(CreateOrder, "commit", j.todo)
    [] j.cmd = "install" -> Complete(InstallOrder(m), "commit", j.todo)
    [] j.cmd \in {"upgrade", "refresh"} -> Complete(UpgradeOrder, "commit", j.todo)
    [] j.cmd = "uninstall" ->
         \/ j.name \in excused /\ Complete(UninstallOrder(FALSE), "commit", j.todo)
         \/ Complete(UninstallOrder(TRUE), IF split THEN "commitDashboard" ELSE "commit", j.todo)
    [] j.cmd = "sync" -> Complete(SyncOrder, "commit", j.todo)

-----------------------------------------------------------------------------
(* The invariant *)

IsTree(t) ==
  /\ t = [source |-> t.source, module |-> t.module, seed |-> t.seed,
          migrations |-> t.migrations, wiring |-> t.wiring, lock |-> t.lock,
          registry |-> t.registry]
  /\ t.source \in [Plugins -> Int] /\ t.module \in [Plugins -> Int]
  /\ t.seed \in [Plugins -> Int] /\ t.lock \in [Plugins -> Int]
  /\ t.wiring \subseteq Plugins /\ t.registry \subseteq Plugins

Commands == {"create", "install", "upgrade", "refresh", "uninstall", "sync"}
Copying == {"create", "install", "upgrade", "refresh"}
IsJob(j) ==
  /\ j = [cmd |-> j.cmd, name |-> j.name, version |-> j.version, todo |-> j.todo,
          paths |-> j.paths, written |-> j.written, stage |-> j.stage, before |-> j.before]
  /\ j.cmd \in Commands /\ j.name \in Plugins /\ j.version \in Nat \ {0}
  /\ j.stage \in [Repos -> {"none", "staged", "committed"}]
  /\ j.before = [checkout |-> j.before.checkout, committed |-> j.before.committed]
  /\ IsTree(j.before.checkout) /\ IsTree(j.before.committed)
  /\ WorkedThrough(j)

PluginTypes ==
  /\ split \in BOOLEAN /\ IsTree(checkout) /\ IsTree(committed) /\ handWired \subseteq Plugins
  /\ plugin # Resting => IsJob(plugin) /\ told = Silence

\* What a command stages of plugins is its own plugin's, and an uninstall stages
\* no module that a hand-written file needs.
PathsInv(j) ==
  /\ \A q \in Plugins : Source(q) \in j.paths <=> q = j.name /\ j.cmd # "sync"
  /\ \A q \in Plugins : Module(q) \in j.paths =>
       /\ q = j.name /\ (q \in handWired => checkout.module[q] # Gone)
       /\ Head(j.todo) \notin {"copy", "module"}
  /\ j.cmd \in Copying /\ Head(j.todo) # "copy" => checkout.source[j.name] = j.version

\* A module that is about to go is one nothing refers to, or is not there.
ModuleInv(j) ==
  /\ Head(j.todo) = "delete" /\ checkout.module[j.name] # Gone =>
       j.name \notin handWired /\ Head(Tail(j.todo)) = "wire"
  /\ Head(j.todo) \in {"copy", "module"} /\ j.cmd \in {"upgrade", "refresh"}
     /\ ~Ships[j.name][j.version].terraform =>
       checkout.module[j.name] = Gone \/ j.name \notin handWired \cup checkout.wiring

HandWiredStays ==
  \A q \in handWired :
    committed.module[q] # Gone /\ (checkout.module[q] # Gone \/ Module(q) \in unfinished)
WiredStays ==
  \A q \in checkout.wiring :
    \/ checkout.module[q] # Gone \/ {Module(q), Wiring} \cap unfinished # {}
    \/ plugin # Resting /\ plugin.name = q /\ Head(plugin.todo) = "wire"

\* Somebody knows of the registration, or will be told if the command stops.
InstallAnswers(j) ==
  j.cmd = "install" /\
    \/ split /\ Head(j.todo) = "addDashboard"
    \/ split /\ j.stage["dashboard"] # "none"
    \/ ~split /\ Registry \in j.written \cap j.paths /\ Head(j.todo) \in GitSteps
UninstallAnswers(j) ==
  /\ j.cmd = "uninstall" /\ split /\ j.stage["core"] = "committed"
  /\ Head(j.todo) \in {"unregister", "addDashboard", "commitDashboard"}
Accounted(q) ==
  \/ committed.source[q] # Gone \/ q \in excused
  \/ plugin # Resting /\ plugin.name = q /\ (InstallAnswers(plugin) \/ UninstallAnswers(plugin))
RegistryInv ==
  /\ \A q \in checkout.registry \cup committed.registry : Accounted(q)
  /\ plugin # Resting /\ plugin.cmd = "uninstall" /\ plugin.name \notin excused =>
       /\ split /\ Head(plugin.todo) \in {"unregister", "addDashboard", "commitDashboard"} =>
            plugin.stage["core"] = "committed"
       /\ split /\ Head(plugin.todo) \in {"addDashboard", "commitDashboard"} =>
            plugin.name \notin checkout.registry
       /\ ~split /\ Head(plugin.todo) \in {"lock", "add", "commit"} =>
            plugin.name \notin checkout.registry /\ Registry \in plugin.paths

\* An install knows what it has written, and what it has committed.
InstallInv(j) ==
  /\ \A item \in Differing(j.before.checkout, checkout) :
       \/ item \in j.written
       \/ item = Registry /\ split /\ (Head(j.todo) = "addDashboard" \/ j.stage["dashboard"] # "none")
  /\ j.written \subseteq j.paths
  /\ j.stage["core"] # "committed" /\ (j.stage["dashboard"] # "none" => split)
  /\ Head(j.todo) = "commit" => j.stage["core"] = "staged"
  /\ Head(j.todo) = "commitDashboard" => j.stage["dashboard"] = "staged"
  /\ j.stage["dashboard"] = "committed" => Head(j.todo) \in {"add", "commit"}
  /\ IF j.stage["dashboard"] = "committed"
     THEN Differing(j.before.committed, committed) = {Registry}
     ELSE committed = j.before.committed

PluginInv ==
  /\ PluginTypes /\ HandWiredStays /\ WiredStays /\ RegistryInv /\ InstallReportsWhatItLeft
  /\ plugin # Resting => PathsInv(plugin) /\ ModuleInv(plugin)
  /\ plugin # Resting /\ plugin.cmd = "install" => InstallInv(plugin)

-----------------------------------------------------------------------------
(* Items *)

LEMMA ItemsDiffer ==
  ASSUME NEW p, NEW q, NEW m
  PROVE  /\ Source(p) = Source(q) => p = q
         /\ Module(p) = Module(q) => p = q
         /\ SeedOf(p) = SeedOf(q) => p = q
         /\ Source(p) \notin {Module(q), SeedOf(q), Migrated(m), Wiring, Lock, Registry}
         /\ Module(p) \notin {SeedOf(q), Migrated(m), Wiring, Lock, Registry}
         /\ SeedOf(p) \notin {Migrated(m), Wiring, Lock, Registry}
         /\ Migrated(m) \notin {Wiring, Lock, Registry}
         /\ Wiring # Lock /\ Wiring # Registry /\ Lock # Registry
BY DEF Source, Module, SeedOf, Migrated, Wiring, Lock, Registry

-----------------------------------------------------------------------------
(* Sequences of steps *)

LEMMA TailIsComplete ==
  ASSUME NEW order, NEW final, NEW s, Complete(order, final, s), Head(s) # final \/ Tail(s) # <<>>
  PROVE  /\ Complete(order, final, Tail(s)) /\ <<Head(s), Head(Tail(s))>> \in order
         /\ Head(s) \in PluginSteps /\ Head(Tail(s)) \in PluginSteps /\ Tail(s) # <<>>
<1>0. s \in Seq(PluginSteps) /\ Len(s) \in Nat /\ Len(s) > 0 /\ s[Len(s)] = final /\ Head(s) = s[1]
  BY DEF Complete, InOrder
<1>1. Len(s) # 1
  <2> SUFFICES ASSUME Len(s) = 1 PROVE FALSE
    OBVIOUS
  <2>0. s # <<>>
    BY <1>0
  <2>1. Tail(s) \in Seq(PluginSteps) /\ Len(Tail(s)) = 0
    BY <1>0, <2>0, HeadTailProperties
  <2>2. Tail(s) = <<>>
    BY <2>1, EmptySeq
  <2> QED
    BY <1>0, <2>2
<1>2. /\ Len(s) > 1 /\ Tail(s) \in Seq(PluginSteps) /\ Len(Tail(s)) = Len(s) - 1
      /\ \A i \in 1..Len(s) - 1 : Tail(s)[i] = s[i + 1]
  BY <1>0, <1>1
<1>3. \A i \in 1..Len(Tail(s)) - 1 : <<Tail(s)[i], Tail(s)[i + 1]>> \in order
  <2> SUFFICES ASSUME NEW i \in 1..Len(Tail(s)) - 1
               PROVE  <<Tail(s)[i], Tail(s)[i + 1]>> \in order
    OBVIOUS
  <2>1. i + 1 \in 1..Len(s) - 1 /\ Tail(s)[i] = s[i + 1] /\ Tail(s)[i + 1] = s[(i + 1) + 1]
    BY <1>0, <1>2
  <2> QED
    BY <2>1 DEF Complete, InOrder
<1>4. Tail(s)[Len(Tail(s))] = s[Len(s)]
  BY <1>0, <1>2
<1>5. Head(Tail(s)) = s[2] /\ s[2] \in PluginSteps /\ s[1] \in PluginSteps /\ <<s[1], s[2]>> \in order
  BY <1>0, <1>2 DEF Complete, InOrder
<1>6. Len(Tail(s)) > 0 /\ Tail(s) # <<>>
  <2>1. Len(Tail(s)) > 0
    BY <1>0, <1>2
  <2> QED
    BY <2>1
<1>7. Complete(order, final, Tail(s))
  BY <1>0, <1>2, <1>3, <1>4, <1>6 DEF Complete, InOrder
<1> QED
  BY <1>0, <1>5, <1>6, <1>7

\* s may be followed by t.
LEMMA Concatenated ==
  ASSUME NEW order, NEW s, NEW t, InOrder(order, s), InOrder(order, t), Len(s) > 0, Len(t) > 0,
         <<s[Len(s)], t[1]>> \in order
  PROVE  /\ InOrder(order, s \o t) /\ Len(s \o t) > 0
         /\ (s \o t)[1] = s[1] /\ (s \o t)[Len(s \o t)] = t[Len(t)]
<1>1. /\ s \in Seq(PluginSteps) /\ t \in Seq(PluginSteps) /\ s \o t \in Seq(PluginSteps)
      /\ Len(s) \in Nat /\ Len(t) \in Nat /\ Len(s \o t) = Len(s) + Len(t)
      /\ \A i \in 1..Len(s) : (s \o t)[i] = s[i]
      /\ \A i \in 1..Len(t) : (s \o t)[Len(s) + i] = t[i]
  BY DEF InOrder
<1>2. \A i \in 1..Len(s \o t) - 1 : <<(s \o t)[i], (s \o t)[i + 1]>> \in order
  <2> SUFFICES ASSUME NEW i \in 1..Len(s \o t) - 1
               PROVE  <<(s \o t)[i], (s \o t)[i + 1]>> \in order
    OBVIOUS
  <2>0. i \in Nat /\ i <= Len(s) + Len(t) - 1
    BY <1>1
  <2>1. CASE i < Len(s)
    <3>1. i \in 1..Len(s) - 1 /\ i \in 1..Len(s) /\ i + 1 \in 1..Len(s)
      BY <1>1, <2>1
    <3> QED
      BY <1>1, <3>1 DEF InOrder
  <2>2. CASE i = Len(s)
    <3>1. 1 \in 1..Len(t) /\ i \in 1..Len(s)
      BY <1>1, <2>2
    <3> QED
      BY <1>1, <2>2, <3>1
  <2>3. CASE i > Len(s)
    <3>0. i - Len(s) \in 1..Len(t) - 1 /\ i = Len(s) + (i - Len(s))
      BY <1>1, <2>0, <2>3
    <3>1. PICK k \in 1..Len(t) - 1 : i = Len(s) + k
      BY <3>0
    <3>2. k \in 1..Len(t) /\ k + 1 \in 1..Len(t) /\ i + 1 = Len(s) + (k + 1)
      BY <1>1, <3>1
    <3> QED
      BY <1>1, <3>1, <3>2 DEF InOrder
  <2>4. i < Len(s) \/ i = Len(s) \/ i > Len(s)
    BY <1>1, <2>0
  <2> QED
    BY <2>1, <2>2, <2>3, <2>4
<1>3. 1 \in 1..Len(s) /\ Len(t) \in 1..Len(t)
  BY <1>1
<1> QED
  BY <1>1, <1>2, <1>3 DEF InOrder

\* A script begins with `first' and ends with one of `lasts'.
Script(order, s, first, lasts) ==
  InOrder(order, s) /\ Len(s) > 0 /\ s[1] = first /\ s[Len(s)] \in lasts

LEMMA OneStep ==
  ASSUME NEW order, NEW x \in PluginSteps
  PROVE  Script(order, <<x>>, x, {x})
<1>1. <<x>> \in Seq(PluginSteps) /\ Len(<<x>>) = 1 /\ <<x>>[1] = x
  OBVIOUS
<1>2. \A i \in 1..Len(<<x>>) - 1 : <<<<x>>[i], <<x>>[i + 1]>> \in order
  BY <1>1
<1> QED
  BY <1>1, <1>2 DEF Script, InOrder

LEMMA TwoSteps ==
  ASSUME NEW order, NEW x \in PluginSteps, NEW y \in PluginSteps, <<x, y>> \in order
  PROVE  Script(order, <<x, y>>, x, {y})
<1>1. <<x, y>> \in Seq(PluginSteps) /\ Len(<<x, y>>) = 2 /\ <<x, y>>[1] = x /\ <<x, y>>[2] = y
  OBVIOUS
<1>2. \A i \in 1..Len(<<x, y>>) - 1 : <<<<x, y>>[i], <<x, y>>[i + 1]>> \in order
  <2> SUFFICES ASSUME NEW i \in 1..Len(<<x, y>>) - 1
               PROVE  <<<<x, y>>[i], <<x, y>>[i + 1]>> \in order
    OBVIOUS
  <2>1. i = 1
    BY <1>1
  <2> QED
    BY <1>1, <2>1
<1> QED
  BY <1>1, <1>2 DEF Script, InOrder

LEMMA ThreeSteps ==
  ASSUME NEW order, NEW x \in PluginSteps, NEW y \in PluginSteps, NEW z \in PluginSteps,
         <<x, y>> \in order, <<y, z>> \in order
  PROVE  Script(order, <<x, y, z>>, x, {z})
<1> DEFINE s == <<x, y, z>>
<1>1. s \in Seq(PluginSteps) /\ Len(s) = 3 /\ s[1] = x /\ s[2] = y /\ s[3] = z
  OBVIOUS
<1>2. \A i \in 1..Len(s) - 1 : <<s[i], s[i + 1]>> \in order
  <2> SUFFICES ASSUME NEW i \in 1..Len(s) - 1
               PROVE  <<s[i], s[i + 1]>> \in order
    OBVIOUS
  <2>1. i = 1 \/ i = 2
    BY <1>1
  <2> HIDE DEF s
  <2> QED
    BY <1>1, <2>1
<1> HIDE DEF s
<1>3. Script(order, s, x, {z})
  BY <1>1, <1>2 DEF Script, InOrder
<1> QED
  BY <1>3 DEF s

LEMMA ScriptEnds ==
  ASSUME NEW order, NEW s, NEW f, NEW lasts, NEW t, NEW g, NEW z,
         Script(order, s, f, lasts), Script(order, t, g, {z}),
         \A x \in lasts : <<x, g>> \in order
  PROVE  Script(order, s \o t, f, {z})
<1>1. InOrder(order, s) /\ InOrder(order, t) /\ Len(s) > 0 /\ Len(t) > 0
  BY DEF Script
<1>2. s[Len(s)] \in lasts /\ t[1] = g /\ t[Len(t)] = z /\ s[1] = f
  BY DEF Script
<1>3. <<s[Len(s)], t[1]>> \in order
  BY <1>2
<1> QED
  BY <1>1, <1>2, <1>3, Concatenated DEF Script


LEMMA ScriptGoesOn ==
  ASSUME NEW order, NEW s, NEW f, NEW lasts, NEW t, NEW g, NEW z, NEW cond, NEW ends,
         Script(order, s, f, lasts), Script(order, t, g, {z}),
         cond => z \in ends /\ \A x \in lasts : <<x, g>> \in order,
         ~cond => lasts \subseteq ends
  PROVE  Script(order, s \o If(cond, t), f, ends)
<1>1. CASE cond
  <2>1. Script(order, s \o t, f, {z})
    BY <1>1, ScriptEnds
  <2> QED
    BY <1>1, <2>1 DEF If, Script
<1>2. CASE ~cond
  <2>1. s \in Seq(PluginSteps)
    BY DEF Script, InOrder
  <2>2. s \o <<>> = s
    BY <2>1
  <2>3. If(cond, t) = <<>>
    BY <1>2 DEF If
  <2> QED
    BY <1>2, <2>2, <2>3 DEF Script
<1> QED
  BY <1>1, <1>2

-----------------------------------------------------------------------------
(* What each command sets out to do *)

LEMMA CreateScript == Complete(CreateOrder, "commit", CreateSteps)
BY DEF Complete, InOrder, CreateOrder, CreateSteps, PluginSteps, Writes, GitSteps

LEMMA SyncScript == Complete(SyncOrder, "commit", SyncSteps)
BY DEF Complete, InOrder, SyncOrder, SyncSteps, PluginSteps, Writes, GitSteps

LEMMA ScriptIsComplete ==
  ASSUME NEW order, NEW s, NEW f, NEW z, Script(order, s, f, {z})
  PROVE  Complete(order, z, s) /\ Head(s) = f
BY DEF Script, Complete, InOrder

LEMMA InstallScript ==
  ASSUME NEW m
  PROVE  Complete(InstallOrder(m), "commit", InstallSteps(m)) /\ Head(InstallSteps(m)) = "copy"
<1> DEFINE o == InstallOrder(m)
           s1 == <<"copy">>
           s2 == s1 \o If(m.terraform, <<"module", "wire">>)
           s3 == s2 \o If(m.columns # {}, <<"migrate">>)
           s4 == s3 \o If(m.seed, <<"seed">>)
           s5 == s4 \o <<"lock">>
           s6 == s5 \o If(m.frontend, <<"register">>)
           s7 == s6 \o If(m.frontend /\ split, <<"addDashboard", "commitDashboard">>)
           s8 == s7 \o <<"add", "commit">>
           e6 == IF m.frontend THEN {"register"} ELSE {"lock"}
           e7 == IF m.frontend /\ split THEN {"commitDashboard"} ELSE e6
<1>0. InstallSteps(m) = s8
  BY DEF InstallSteps
<1>a. PluginSteps = Writes \cup GitSteps
  BY DEF PluginSteps
<1> USE DEF InstallOrder, Then, When, Writes, GitSteps
<1>1. Script(o, s1, "copy", {"copy"})
  BY <1>a, OneStep
<1>2. Script(o, s2, "copy", {"copy", "wire"})
  <2>1. CASE m.terraform
    <3>1. Script(o, <<"module", "wire">>, "module", {"wire"})
      BY <1>a, <2>1, TwoSteps
    <3>2. <<"copy", "module">> \in o
      BY <2>1
    <3> HIDE DEF o, s1
    <3> QED
      BY <1>1, <2>1, <3>1, <3>2, ScriptGoesOn
  <2>2. CASE ~m.terraform
    <3>1. s2 = s1 \o If(m.terraform, <<"migrate">>)
      BY <2>2 DEF If
    <3>2. Script(o, <<"migrate">>, "migrate", {"migrate"})
      BY <1>a, OneStep
    <3> HIDE DEF o, s1, s2
    <3> QED
      BY <1>1, <2>2, <3>1, <3>2, ScriptGoesOn
  <2> QED
    BY <2>1, <2>2
<1>3. Script(o, s3, "copy", {"copy", "wire", "migrate"})
  <2>1. Script(o, <<"migrate">>, "migrate", {"migrate"})
    BY <1>a, OneStep
  <2>2. \A x \in {"copy", "wire"} : <<x, "migrate">> \in o
    OBVIOUS
  <2> HIDE DEF o, s2
  <2> QED
    BY <1>2, <2>1, <2>2, ScriptGoesOn
<1>4. Script(o, s4, "copy", {"copy", "wire", "migrate", "seed"})
  <2>1. Script(o, <<"seed">>, "seed", {"seed"})
    BY <1>a, OneStep
  <2>2. \A x \in {"copy", "wire", "migrate"} : <<x, "seed">> \in o
    OBVIOUS
  <2> HIDE DEF o, s3
  <2> QED
    BY <1>3, <2>1, <2>2, ScriptGoesOn
<1>5. Script(o, s5, "copy", {"lock"})
  <2> DEFINE e4 == {"copy", "wire", "migrate", "seed"}
             last == <<"lock">>
  <2>1. Script(o, last, "lock", {"lock"})
    BY <1>a, OneStep
  <2>2. \A x \in e4 : <<x, "lock">> \in o
    OBVIOUS
  <2>3. Script(o, s4, "copy", e4)
    BY <1>4
  <2> HIDE DEF o, s4, e4, last
  <2>4. Script(o, s4 \o last, "copy", {"lock"})
    BY <2>1, <2>2, <2>3, ScriptEnds
  <2> QED
    BY <2>4 DEF last
<1>6. Script(o, s6, "copy", e6)
  <2>1. Script(o, <<"register">>, "register", {"register"})
    BY <1>a, OneStep
  <2>2. m.frontend => <<"lock", "register">> \in o
    OBVIOUS
  <2> HIDE DEF o, s5
  <2> QED
    BY <1>5, <2>1, <2>2, ScriptGoesOn
<1>7. Script(o, s7, "copy", e7)
  <2>1. CASE m.frontend /\ split
    <3>1. Script(o, <<"addDashboard", "commitDashboard">>, "addDashboard", {"commitDashboard"})
      BY <1>a, <2>1, TwoSteps
    <3>2. e6 = {"register"} /\ e7 = {"commitDashboard"} /\ <<"register", "addDashboard">> \in o
      BY <2>1
    <3> HIDE DEF o, s6, e6, e7
    <3> QED
      BY <1>6, <2>1, <3>1, <3>2, ScriptGoesOn
  <2>2. CASE ~(m.frontend /\ split)
    <3>1. s7 = s6 \o If(m.frontend /\ split, <<"lock">>) /\ e6 = e7
      BY <2>2 DEF If
    <3>2. Script(o, <<"lock">>, "lock", {"lock"})
      BY <1>a, OneStep
    <3> HIDE DEF o, s6, s7, e6, e7
    <3> QED
      BY <1>6, <2>2, <3>1, <3>2, ScriptGoesOn
  <2> QED
    BY <2>1, <2>2
<1>8. Script(o, s8, "copy", {"commit"})
  <2>1. Script(o, <<"add", "commit">>, "add", {"commit"})
    BY <1>a, TwoSteps
  <2>2. \A x \in e7 : <<x, "add">> \in o
    OBVIOUS
  <2> HIDE DEF o, s7, e7
  <2> QED
    BY <1>7, <2>1, <2>2, ScriptEnds
<1> HIDE DEF o, s8
<1>9. Complete(o, "commit", s8) /\ Head(s8) = "copy"
  BY <1>8, ScriptIsComplete
<1> QED
  BY <1>0, <1>9 DEF o

LEMMA UpgradeScript ==
  ASSUME NEW m
  PROVE  Complete(UpgradeOrder, "commit", UpgradeSteps(m)) /\ Head(UpgradeSteps(m)) = "copy"
<1> DEFINE o == UpgradeOrder
           s1 == <<"copy", "module">>
           s2 == s1 \o If(m.columns # {}, <<"migrate">>)
           s3 == s2 \o If(m.seed, <<"seed">>)
           last == <<"relock", "add", "commit">>
           s4 == s3 \o last
           e3 == {"module", "migrate", "seed"}
<1>0. UpgradeSteps(m) = s4
  BY DEF UpgradeSteps
<1>a. PluginSteps = Writes \cup GitSteps
  BY DEF PluginSteps
<1> USE DEF UpgradeOrder, Then, Writes, GitSteps
<1>1. Script(o, s1, "copy", {"module"})
  BY <1>a, TwoSteps
<1>2. Script(o, s2, "copy", {"module", "migrate"})
  <2>1. Script(o, <<"migrate">>, "migrate", {"migrate"})
    BY <1>a, OneStep
  <2>2. <<"module", "migrate">> \in o
    OBVIOUS
  <2> HIDE DEF o, s1
  <2> QED
    BY <1>1, <2>1, <2>2, ScriptGoesOn
<1>3. Script(o, s3, "copy", e3)
  <2>1. Script(o, <<"seed">>, "seed", {"seed"})
    BY <1>a, OneStep
  <2>2. \A x \in {"module", "migrate"} : <<x, "seed">> \in o
    OBVIOUS
  <2> HIDE DEF o, s2
  <2> QED
    BY <1>2, <2>1, <2>2, ScriptGoesOn
<1>4. Script(o, s4, "copy", {"commit"})
  <2>1. Script(o, last, "relock", {"commit"})
    BY <1>a, ThreeSteps
  <2>2. \A x \in e3 : <<x, "relock">> \in o
    OBVIOUS
  <2> HIDE DEF o, s3, e3, last
  <2> QED
    BY <1>3, <2>1, <2>2, ScriptEnds
<1> HIDE DEF s4
<1> QED
  BY <1>0, <1>4, ScriptIsComplete

LEMMA SecondStays ==
  ASSUME NEW s \in Seq(PluginSteps), NEW t \in Seq(PluginSteps), Len(s) > 1, NEW cond
  PROVE  /\ s \o t \in Seq(PluginSteps) /\ Len(s \o t) > 1 /\ (s \o t)[2] = s[2]
         /\ s \o If(cond, t) \in Seq(PluginSteps) /\ Len(s \o If(cond, t)) > 1
         /\ (s \o If(cond, t))[2] = s[2]
<1>1. s \o t \in Seq(PluginSteps) /\ Len(s \o t) = Len(s) + Len(t) /\ \A i \in 1..Len(s) : (s \o t)[i] = s[i]
  OBVIOUS
<1>2. Len(s) \in Nat /\ Len(t) \in Nat /\ 2 \in 1..Len(s) /\ s \o <<>> = s
  OBVIOUS
<1>3. s \o t \in Seq(PluginSteps) /\ Len(s \o t) > 1 /\ (s \o t)[2] = s[2]
  BY <1>1, <1>2
<1> QED
  BY <1>2, <1>3 DEF If

LEMMA UninstallScript ==
  ASSUME NEW m, NEW there
  PROVE  /\ Complete(UninstallOrder(m.frontend),
                     IF m.frontend /\ split THEN "commitDashboard" ELSE "commit", UninstallSteps(m, there))
         /\ Head(UninstallSteps(m, there)) = "delete"
         /\ there => Head(Tail(UninstallSteps(m, there))) = "wire"
<1> DEFINE o == UninstallOrder(m.frontend)
           s0 == <<"delete">>
           s1 == s0 \o If(there, <<"wire">>)
           s2 == s1 \o If(m.frontend /\ ~split, <<"unregister">>)
           core == <<"lock", "add", "commit">>
           s3 == s2 \o core
           dashboard == <<"unregister", "addDashboard", "commitDashboard">>
           s4 == s3 \o If(m.frontend /\ split, dashboard)
           final == IF m.frontend /\ split THEN "commitDashboard" ELSE "commit"
           e1 == IF there THEN {"wire"} ELSE {"delete"}
           e2 == IF m.frontend /\ ~split THEN {"unregister"} ELSE e1
<1>0. UninstallSteps(m, there) = s4
  BY DEF UninstallSteps
<1>a. PluginSteps = Writes \cup GitSteps
  BY DEF PluginSteps
<1> USE DEF UninstallOrder, When, Writes, GitSteps
<1>1. Script(o, s1, "delete", e1)
  <2>1. Script(o, s0, "delete", {"delete"}) /\ Script(o, <<"wire">>, "wire", {"wire"})
    BY <1>a, OneStep
  <2>2. there => "wire" \in e1 /\ \A x \in {"delete"} : <<x, "wire">> \in o
    OBVIOUS
  <2>3. ~there => {"delete"} \subseteq e1
    OBVIOUS
  <2> HIDE DEF o, s0, e1
  <2> QED
    BY <2>1, <2>2, <2>3, ScriptGoesOn
<1>2. Script(o, s2, "delete", e2)
  <2>1. Script(o, <<"unregister">>, "unregister", {"unregister"})
    BY <1>a, OneStep
  <2>2. m.frontend /\ ~split => "unregister" \in e2 /\ \A x \in e1 : <<x, "unregister">> \in o
    OBVIOUS
  <2>3. ~(m.frontend /\ ~split) => e1 \subseteq e2
    OBVIOUS
  <2> HIDE DEF o, s1, e1, e2
  <2> QED
    BY <1>1, <2>1, <2>2, <2>3, ScriptGoesOn
<1>b. there => s4[2] = "wire" /\ Len(s4) > 1
  <2> SUFFICES ASSUME there PROVE s4[2] = "wire" /\ Len(s4) > 1
    OBVIOUS
  <2> DEFINE w == <<"wire">>
             u == <<"unregister">>
  <2>1. s1 = s0 \o w
    BY DEF If
  <2>2. /\ s0 \in Seq(PluginSteps) /\ Len(s0) = 1
        /\ w \in Seq(PluginSteps) /\ Len(w) = 1 /\ w[1] = "wire"
        /\ u \in Seq(PluginSteps) /\ core \in Seq(PluginSteps) /\ dashboard \in Seq(PluginSteps)
    BY <1>a
  <2>3. s1 \in Seq(PluginSteps) /\ Len(s1) > 1 /\ s1[2] = "wire"
    <3> HIDE DEF s0, s1, w
    <3>1. /\ s1 \in Seq(PluginSteps) /\ Len(s1) = 1 + 1
          /\ \A i \in 1..Len(s0) + Len(w) : s1[i] = IF i <= Len(s0) THEN s0[i] ELSE w[i - Len(s0)]
      BY <2>1, <2>2, ConcatProperties
    <3>2. s1[2] = w[1]
      BY <2>2, <3>1
    <3> QED
      BY <2>2, <3>1, <3>2
  <2>a. s2 = s1 \o If(m.frontend /\ ~split, u)
    OBVIOUS
  <2> HIDE DEF s1, s2, u, core, dashboard
  <2>4. s2 \in Seq(PluginSteps) /\ Len(s2) > 1 /\ s2[2] = "wire"
    BY <2>2, <2>3, <2>a, SecondStays
  <2>5. s3 \in Seq(PluginSteps) /\ Len(s3) > 1 /\ s3[2] = "wire"
    BY <2>2, <2>4, SecondStays
  <2> HIDE DEF s3
  <2> QED
    BY <2>2, <2>5, SecondStays
<1>3. Script(o, s3, "delete", {"commit"})
  <2>1. Script(o, core, "lock", {"commit"})
    BY <1>a, ThreeSteps
  <2>2. \A x \in e2 : <<x, "lock">> \in o
    OBVIOUS
  <2> HIDE DEF o, s2, e2, core
  <2> QED
    BY <1>2, <2>1, <2>2, ScriptEnds
<1>4. Script(o, s4, "delete", {final})
  <2>1. CASE m.frontend /\ split
    <3>1. Script(o, dashboard, "unregister", {"commitDashboard"})
      BY <1>a, <2>1, ThreeSteps
    <3>2. <<"commit", "unregister">> \in o /\ final = "commitDashboard"
      BY <2>1
    <3> HIDE DEF o, s3, final, dashboard
    <3> QED
      BY <1>3, <2>1, <3>1, <3>2, ScriptGoesOn
  <2>2. CASE ~(m.frontend /\ split)
    <3>1. s4 = s3 \o If(m.frontend /\ split, <<"lock">>) /\ final = "commit"
      BY <2>2 DEF If
    <3>2. Script(o, <<"lock">>, "lock", {"lock"})
      BY <1>a, OneStep
    <3> HIDE DEF o, s3, s4, final
    <3> QED
      BY <1>3, <2>2, <3>1, <3>2, ScriptGoesOn
  <2> QED
    BY <2>1, <2>2
<1> HIDE DEF o, s4, final
<1>5. Complete(o, final, s4) /\ Head(s4) = "delete"
  BY <1>4, ScriptIsComplete
<1>6. there => Head(Tail(s4)) = "wire"
  <2>1. s4 \in Seq(PluginSteps)
    BY <1>5 DEF Complete, InOrder
  <2> QED
    BY <1>b, <2>1
<1> QED
  BY <1>0, <1>5, <1>6 DEF o, final

-----------------------------------------------------------------------------
(* Trees *)

LEMMA DifferingIs ==
  ASSUME NEW a, NEW b
  PROVE  /\ \A q \in Plugins : a.source[q] # b.source[q] => Source(q) \in Differing(a, b)
         /\ \A q \in Plugins : a.module[q] # b.module[q] => Module(q) \in Differing(a, b)
         /\ a.wiring # b.wiring => Wiring \in Differing(a, b)
         /\ a.registry # b.registry => Registry \in Differing(a, b)
BY DEF Differing

LEMMA DifferingFromItself == ASSUME NEW a PROVE Differing(a, a) = {}
BY DEF Differing

LEMMA DifferingAdds ==
  ASSUME NEW a, NEW b, NEW c
  PROVE  Differing(a, c) \subseteq Differing(a, b) \cup Differing(b, c)
BY DEF Differing

LEMMA OverlayIsTree ==
  ASSUME NEW a, NEW b, IsTree(a), IsTree(b), NEW items
  PROVE  /\ IsTree(Overlay(a, b, items))
         /\ \A q \in Plugins : Overlay(a, b, items).source[q] =
              IF Source(q) \in items THEN b.source[q] ELSE a.source[q]
         /\ \A q \in Plugins : Overlay(a, b, items).module[q] =
              IF Module(q) \in items THEN b.module[q] ELSE a.module[q]
         /\ Overlay(a, b, items).registry = IF Registry \in items THEN b.registry ELSE a.registry
         /\ Overlay(a, b, items).wiring = IF Wiring \in items THEN b.wiring ELSE a.wiring
BY DEF Overlay, IsTree

\* Only the registry is put in from the other checkout.
LEMMA OverlayOfRegistry ==
  ASSUME NEW a, NEW b, IsTree(a), IsTree(b), Overlay(a, b, {Registry}) # a
  PROVE  Differing(a, Overlay(a, b, {Registry})) = {Registry}
<1> DEFINE t == Overlay(a, b, {Registry})
<1>1. \A q, m : {Source(q), Module(q), SeedOf(q), Migrated(m), Wiring, Lock} \cap {Registry} = {}
  BY ItemsDiffer
<1>2. /\ t = [source |-> t.source, module |-> t.module, seed |-> t.seed,
              migrations |-> t.migrations, wiring |-> t.wiring, lock |-> t.lock,
              registry |-> t.registry]
      /\ t.source = a.source /\ t.module = a.module /\ t.seed = a.seed
      /\ t.migrations = a.migrations /\ t.wiring = a.wiring /\ t.lock = a.lock
  BY <1>1 DEF Overlay, IsTree
<1> HIDE DEF t
<1>3. t.registry # a.registry
  BY <1>2 DEF t, IsTree
<1> QED
  BY <1>2, <1>3 DEF Differing, t

\* What a step of a command writes.
LEMMA EffectOf ==
  ASSUME IsTree(checkout), plugin.name \in Plugins, plugin.version \in Nat, Step \in Writes
  PROVE  /\ IsTree(Effect)
         /\ Differing(checkout, Effect) \subseteq Touched
         /\ Effect.source = CASE Step = "copy" -> [checkout.source EXCEPT ![plugin.name] = plugin.version]
                              [] Step = "delete" -> [checkout.source EXCEPT ![plugin.name] = Gone]
                              [] OTHER -> checkout.source
         /\ Effect.module = CASE Step = "module" -> [checkout.module EXCEPT ![plugin.name] =
                                                       IF Manifest.terraform THEN plugin.version ELSE Gone]
                              [] Step = "delete" -> [checkout.module EXCEPT ![plugin.name] = Gone]
                              [] OTHER -> checkout.module
         /\ Effect.wiring = IF Step = "wire" THEN Wired(checkout) ELSE checkout.wiring
         /\ Effect.registry = CASE Step = "register" -> checkout.registry \cup {plugin.name}
                                [] Step = "unregister" -> checkout.registry \ {plugin.name}
                                [] OTHER -> checkout.registry
<1> USE DEF IsTree, Gone
<1>1. CASE Step = "copy"
  BY <1>1 DEF Effect, Touched, Differing
<1>2. CASE Step = "module"
  BY <1>2 DEF Effect, Touched, Differing
<1>3. CASE Step = "wire"
  BY <1>3 DEF Effect, Touched, Tracked, Differing, Wired
<1>4. CASE Step = "migrate"
  BY <1>4 DEF Effect, Touched, Tracked, Differing
<1>5. CASE Step = "seed"
  BY <1>5 DEF Effect, Touched, Tracked, Differing
<1>6. CASE Step \in {"lock", "relock"}
  BY <1>6 DEF Effect, Touched, Tracked, Differing
<1>7. CASE Step \in {"register", "unregister"}
  BY <1>7 DEF Effect, Touched, Differing
<1>8. CASE Step = "delete"
  <2>1. Effect = [checkout EXCEPT !.source[plugin.name] = Gone, !.module[plugin.name] = Gone]
    BY <1>8 DEF Effect
  <2>2. /\ Effect = [source |-> Effect.source, module |-> Effect.module, seed |-> Effect.seed,
                     migrations |-> Effect.migrations, wiring |-> Effect.wiring,
                     lock |-> Effect.lock, registry |-> Effect.registry]
        /\ Effect.source = [checkout.source EXCEPT ![plugin.name] = Gone]
        /\ Effect.module = [checkout.module EXCEPT ![plugin.name] = Gone]
        /\ Effect.seed = checkout.seed /\ Effect.migrations = checkout.migrations
        /\ Effect.wiring = checkout.wiring /\ Effect.lock = checkout.lock
        /\ Effect.registry = checkout.registry
    BY <2>1
  <2>3. IsTree(Effect)
    BY <2>2
  <2>4. Differing(checkout, Effect) \subseteq {Source(plugin.name), Module(plugin.name)}
    BY <2>2 DEF Differing
  <2> QED
    BY <1>8, <2>2, <2>3, <2>4 DEF Touched
<1> QED
  BY <1>1, <1>2, <1>3, <1>4, <1>5, <1>6, <1>7, <1>8 DEF Writes

\* What a step may leave behind when it stops.
LEMMA TornIsNear ==
  ASSUME IsTree(checkout), plugin.name \in Plugins, plugin.version \in Nat, Step \in Writes,
         NEW t \in TornTrees
  PROVE  /\ IsTree(t) /\ Differing(checkout, t) \subseteq Touched
         /\ t.registry \subseteq checkout.registry \cup {plugin.name}
<1> DEFINE p == plugin.name
<1>0. ASSUME t \in {checkout, Effect}
      PROVE  /\ IsTree(t) /\ Differing(checkout, t) \subseteq Touched
             /\ t.registry \subseteq checkout.registry \cup {plugin.name}
  BY <1>0, EffectOf, DifferingFromItself
<1>1. CASE Step = "copy"
  BY <1>1 DEF TornTrees, Touched, Differing, IsTree, Torn
<1>2. CASE Step = "module"
  BY <1>2 DEF TornTrees, Touched, Differing, IsTree, Torn, Gone
<1>3. CASE Step = "delete"
  <2>1. /\ t.seed = checkout.seed /\ t.migrations = checkout.migrations /\ t.lock = checkout.lock
        /\ t.wiring = checkout.wiring /\ t.registry = checkout.registry
        /\ t = [source |-> t.source, module |-> t.module, seed |-> t.seed,
                migrations |-> t.migrations, wiring |-> t.wiring, lock |-> t.lock,
                registry |-> t.registry]
        /\ \E x \in {Gone, Torn} : t.source = [checkout.source EXCEPT ![p] = x]
        /\ \/ t.module = checkout.module
           \/ \E x \in {Gone, Torn} : t.module = [checkout.module EXCEPT ![p] = x]
    BY <1>3 DEF TornTrees, IsTree
  <2>2. t.source \in [Plugins -> Int] /\ t.module \in [Plugins -> Int]
    BY <2>1 DEF IsTree, Gone, Torn
  <2>3. IsTree(t)
    BY <2>1, <2>2 DEF IsTree
  <2>4. \A q \in Plugins \ {p} : t.source[q] = checkout.source[q] /\ t.module[q] = checkout.module[q]
    BY <2>1 DEF IsTree
  <2>5. Differing(checkout, t) \subseteq {Source(p), Module(p)}
    BY <2>1, <2>4 DEF Differing
  <2> QED
    BY <1>3, <2>1, <2>3, <2>5 DEF Touched
<1>4. CASE Step \notin {"copy", "module", "delete"}
  BY <1>0, <1>4 DEF TornTrees
<1> QED
  BY <1>1, <1>2, <1>3, <1>4

-----------------------------------------------------------------------------
(* From one step to the next *)

LEMMA LastIsFinal ==
  ASSUME NEW order, NEW final, NEW s, Complete(order, final, s), Tail(s) = <<>>
  PROVE  Head(s) = final
BY TailIsComplete

\* The facts about neighbouring steps that the invariant needs.
NextStep(cmd, m, known, x, n) ==
  /\ x \in PluginSteps /\ n \in PluginSteps \ {"copy", "delete"}
  /\ n = "module" => x = "copy"
  /\ x = "delete" => cmd = "uninstall"
  /\ n = "wire" => x \in {"module", "delete"}
  /\ cmd = "install" =>
       /\ x \notin {"delete", "unregister", "relock", "commit"}
       /\ n \notin {"unregister", "relock"}
       /\ "module" \in {x, n} => m.terraform
       /\ x = "register" => n = IF split THEN "addDashboard" ELSE "add"
       /\ n = "register" => x = "lock"
       /\ x \in {"addDashboard", "commitDashboard"} => split
       /\ x = "addDashboard" <=> n = "commitDashboard"
       /\ n = "addDashboard" => x = "register"
       /\ x = "commitDashboard" => n = "add"
       /\ x = "add" <=> n = "commit"
  /\ x \in {"register", "addDashboard", "commitDashboard"} => cmd \in {"install", "uninstall"}
  /\ x = "unregister" => cmd = "uninstall"
  /\ x = "commit" => cmd = "uninstall" /\ split
  /\ cmd = "uninstall" =>
       /\ x \notin {"copy", "module", "register", "commitDashboard"} /\ n \notin {"module", "register"}
       /\ "addDashboard" \in {x, n} => split
       /\ n = "add" => x = "lock"
       /\ n = "commit" => x = "add"
       /\ n = "addDashboard" => x = "unregister"
       /\ n = "commitDashboard" => x = "addDashboard"
       /\ ~known /\ ~split /\ n = "lock" => x = "unregister"
       /\ split /\ n = "unregister" => x = "commit"
       /\ x = "commit" => n = "unregister"
       /\ split /\ x = "unregister" => n = "addDashboard"
       /\ x = "addDashboard" => n = "commitDashboard"
  /\ cmd = "sync" => x \in {"migrate", "lock", "add"} /\ n # "module"
  /\ cmd = "create" => x # "module" /\ n # "module"
  /\ cmd \in {"upgrade", "refresh"} => x # "wire" /\ n # "wire"

LEMMA CreateNext ==
  ASSUME NEW m, NEW known, NEW x, NEW n, <<x, n>> \in CreateOrder
  PROVE  NextStep("create", m, known, x, n)
<1>1. \/ x = "copy" /\ n = "lock"
      \/ x = "lock" /\ n = "add"
      \/ x = "add" /\ n = "commit"
  BY DEF CreateOrder
<1> QED
  BY <1>1 DEF NextStep, PluginSteps, Writes, GitSteps

LEMMA InstallNext ==
  ASSUME split \in BOOLEAN, NEW m, NEW known, NEW x, NEW n, <<x, n>> \in InstallOrder(m)
  PROVE  NextStep("install", m, known, x, n)
<1>1. \/ x = "copy" /\ n \in {"migrate", "seed", "lock"}
      \/ m.terraform /\ x = "copy" /\ n = "module"
      \/ m.terraform /\ x = "module" /\ n = "wire"
      \/ x = "wire" /\ n \in {"migrate", "seed", "lock"}
      \/ x = "migrate" /\ n \in {"seed", "lock"}
      \/ x = "seed" /\ n = "lock"
      \/ x = "add" /\ n = "commit"
      \/ x = "lock" /\ n \in {"register", "add"}
      \/ x = "register" /\ n = IF split THEN "addDashboard" ELSE "add"
      \/ split /\ x = "addDashboard" /\ n = "commitDashboard"
      \/ split /\ x = "commitDashboard" /\ n = "add"
  BY DEF InstallOrder, Then, When
<1> QED
  BY <1>1 DEF NextStep, PluginSteps, Writes, GitSteps

LEMMA UpgradeNext ==
  ASSUME NEW cmd \in {"upgrade", "refresh"}, NEW m, NEW known, NEW x, NEW n, <<x, n>> \in UpgradeOrder
  PROVE  NextStep(cmd, m, known, x, n)
<1>1. \/ x = "copy" /\ n = "module"
      \/ x = "module" /\ n \in {"migrate", "seed", "relock"}
      \/ x = "migrate" /\ n \in {"seed", "relock"}
      \/ x = "seed" /\ n = "relock"
      \/ x = "relock" /\ n = "add"
      \/ x = "add" /\ n = "commit"
  BY DEF UpgradeOrder, Then
<1> QED
  BY <1>1 DEF NextStep, PluginSteps, Writes, GitSteps

LEMMA UninstallNext ==
  ASSUME split \in BOOLEAN, NEW m, NEW known \in BOOLEAN, NEW x, NEW n,
         (known /\ <<x, n>> \in UninstallOrder(FALSE)) \/ <<x, n>> \in UninstallOrder(TRUE)
  PROVE  NextStep("uninstall", m, known, x, n)
<1>1. \/ x = "delete" /\ n = "wire"
      \/ (known \/ split) /\ x \in {"delete", "wire"} /\ n = "lock"
      \/ ~split /\ x \in {"delete", "wire"} /\ n = "unregister"
      \/ ~split /\ x = "unregister" /\ n = "lock"
      \/ x = "lock" /\ n = "add"
      \/ x = "add" /\ n = "commit"
      \/ split /\ x = "commit" /\ n = "unregister"
      \/ split /\ x = "unregister" /\ n = "addDashboard"
      \/ split /\ x = "addDashboard" /\ n = "commitDashboard"
  BY DEF UninstallOrder, When
<1> QED
  BY <1>1 DEF NextStep, PluginSteps, Writes, GitSteps

LEMMA SyncNext ==
  ASSUME NEW m, NEW known, NEW x, NEW n, <<x, n>> \in SyncOrder
  PROVE  NextStep("sync", m, known, x, n)
<1>1. \/ x = "migrate" /\ n = "lock"
      \/ x = "lock" /\ n = "add"
      \/ x = "add" /\ n = "commit"
  BY DEF SyncOrder
<1> QED
  BY <1>1 DEF NextStep, PluginSteps, Writes, GitSteps

LEMMA NextStepIs ==
  ASSUME split \in BOOLEAN, IsJob(plugin), Tail(plugin.todo) # <<>> \/ Step \in Writes \cup {"add", "addDashboard"}
  PROVE  /\ Tail(plugin.todo) # <<>>
         /\ NextStep(plugin.cmd, Manifest, plugin.name \in excused, Step, Head(Tail(plugin.todo)))
<1> DEFINE n == Head(Tail(plugin.todo))
           t == plugin.todo
           Follows(order) == Tail(t) # <<>> /\ <<Step, n>> \in order
<1>0. \A order, final : Complete(order, final, t) /\ final \in {"commit", "commitDashboard"} => Follows(order)
  <2> SUFFICES ASSUME NEW order, NEW final, Complete(order, final, t), final \in {"commit", "commitDashboard"}
               PROVE  Follows(order)
    OBVIOUS
  <2>1. Head(t) # final \/ Tail(t) # <<>>
    BY DEF Step, Writes
  <2> QED
    BY <2>1, TailIsComplete DEF Step
<1>1. plugin.cmd \in Commands /\ WorkedThrough(plugin)
  BY DEF IsJob
<1> HIDE DEF n
<1>2. CASE plugin.cmd = "create"
  <2>1. Follows(CreateOrder)
    BY <1>0, <1>1, <1>2 DEF WorkedThrough
  <2> QED
    BY <1>2, <2>1, CreateNext DEF n
<1>3. CASE plugin.cmd = "install"
  <2>1. Follows(InstallOrder(Manifest))
    BY <1>0, <1>1, <1>3 DEF WorkedThrough, Manifest
  <2> QED
    BY <1>3, <2>1, InstallNext DEF n
<1>4. CASE plugin.cmd \in {"upgrade", "refresh"}
  <2>1. Follows(UpgradeOrder)
    BY <1>0, <1>1, <1>4 DEF WorkedThrough
  <2> QED
    BY <1>4, <2>1, UpgradeNext DEF n
<1>5. CASE plugin.cmd = "uninstall"
  <2>1. (plugin.name \in excused /\ Follows(UninstallOrder(FALSE))) \/ Follows(UninstallOrder(TRUE))
    BY <1>0, <1>1, <1>5 DEF WorkedThrough
  <2>2. (plugin.name \in excused) \in BOOLEAN
    OBVIOUS
  <2>3. NextStep("uninstall", Manifest, plugin.name \in excused, Step, n)
    BY <2>1, <2>2, UninstallNext
  <2> QED
    BY <1>5, <2>1, <2>3 DEF n
<1>6. CASE plugin.cmd = "sync"
  <2>1. Follows(SyncOrder)
    BY <1>0, <1>1, <1>6 DEF WorkedThrough
  <2> QED
    BY <1>6, <2>1, SyncNext DEF n
<1> QED
  BY <1>1, <1>2, <1>3, <1>4, <1>5, <1>6 DEF Commands

LEMMA LastStepIs ==
  ASSUME split \in BOOLEAN, IsJob(plugin), Tail(plugin.todo) = <<>>
  PROVE  \/ Step = "commit" /\ (plugin.cmd = "uninstall" => plugin.name \in excused \/ ~split)
         \/ Step = "commitDashboard" /\ plugin.cmd = "uninstall" /\ split
BY LastIsFinal DEF IsJob, WorkedThrough, Step, Commands

\* The command under way goes on to its next step.
Stages == [Repos -> {"none", "staged", "committed"}]
GoesOn(paths, written, stage) ==
  /\ Tail(plugin.todo) # <<>> /\ split' = split
  /\ plugin.cmd = "uninstall" => excused' = excused
  /\ plugin' = [cmd |-> plugin.cmd, name |-> plugin.name, version |-> plugin.version,
                todo |-> Tail(plugin.todo), paths |-> paths, written |-> written,
                stage |-> stage, before |-> plugin.before]

LEMMA JobGoesOn ==
  ASSUME IsJob(plugin), NEW P, NEW W, NEW S \in Stages, GoesOn(P, W, S)
  PROVE  /\ IsJob(plugin)' /\ plugin' # Resting
         /\ plugin'.cmd = plugin.cmd /\ plugin'.name = plugin.name
         /\ plugin'.version = plugin.version /\ plugin'.before = plugin.before
         /\ plugin'.paths = P /\ plugin'.written = W /\ plugin'.stage = S
         /\ Head(plugin'.todo) = Head(Tail(plugin.todo))
<1>1. /\ plugin'.cmd = plugin.cmd /\ plugin'.name = plugin.name
      /\ plugin'.version = plugin.version /\ plugin'.before = plugin.before
      /\ plugin'.paths = P /\ plugin'.written = W /\ plugin'.stage = S
      /\ plugin'.todo = Tail(plugin.todo)
      /\ plugin' = [cmd |-> plugin'.cmd, name |-> plugin'.name, version |-> plugin'.version,
                    todo |-> plugin'.todo, paths |-> plugin'.paths, written |-> plugin'.written,
                    stage |-> plugin'.stage, before |-> plugin'.before]
  BY DEF GoesOn
<1>2. plugin' # Resting
  BY <1>1 DEF IsJob, Resting, Commands
<1>3. split' = split /\ Tail(plugin.todo) # <<>>
  BY DEF GoesOn
<1>4. \A order, final : Complete(order, final, plugin.todo) => Complete(order, final, Tail(plugin.todo))
  BY <1>3, TailIsComplete
<1>5. \A m : InstallOrder(m)' = InstallOrder(m)
  BY <1>3 DEF InstallOrder
<1>6. UninstallOrder(TRUE)' = UninstallOrder(TRUE) /\ UninstallOrder(FALSE)' = UninstallOrder(FALSE)
  BY <1>3 DEF UninstallOrder
<1>7. plugin.cmd \in Commands /\ WorkedThrough(plugin)
  BY DEF IsJob
<1>8. WorkedThrough(plugin)'
  <2>1. CASE plugin.cmd = "create"
    BY <1>1, <1>4, <1>7, <2>1 DEF WorkedThrough
  <2>2. CASE plugin.cmd = "install"
    BY <1>1, <1>4, <1>5, <1>7, <2>2 DEF WorkedThrough
  <2>3. CASE plugin.cmd \in {"upgrade", "refresh"}
    BY <1>1, <1>4, <1>7, <2>3 DEF WorkedThrough
  <2>4. CASE plugin.cmd = "uninstall"
    <3>1. excused' = excused
      BY <2>4 DEF GoesOn
    <3> QED
      BY <1>1, <1>3, <1>4, <1>6, <1>7, <2>4, <3>1 DEF WorkedThrough
  <2>5. CASE plugin.cmd = "sync"
    BY <1>1, <1>4, <1>7, <2>5 DEF WorkedThrough
  <2> QED
    BY <1>7, <2>1, <2>2, <2>3, <2>4, <2>5 DEF Commands
<1>9. IsJob(plugin)'
  <2>1. /\ plugin'.cmd \in Commands /\ plugin'.name \in Plugins /\ plugin'.version \in Nat \ {0}
        /\ plugin'.stage \in [Repos -> {"none", "staged", "committed"}]
        /\ plugin'.before = [checkout |-> plugin'.before.checkout, committed |-> plugin'.before.committed]
        /\ IsTree(plugin'.before.checkout) /\ IsTree(plugin'.before.committed)
    BY <1>1 DEF IsJob, Stages
  <2> QED
    BY <1>1, <1>8, <2>1 DEF IsJob
<1> QED
  BY <1>1, <1>2, <1>9

-----------------------------------------------------------------------------
(* A step that writes *)

Known == plugin.name \in excused
Upcoming == Head(Tail(plugin.todo))

LEMMA Written ==
  ASSUME PluginInv, WriteStep
  PROVE  /\ Step \in Writes /\ IsJob(plugin) /\ plugin # Resting /\ told = Silence
         /\ NextStep(plugin.cmd, Manifest, Known, Step, Upcoming)
         /\ checkout' = Effect /\ IsTree(checkout') /\ unfinished' = unfinished \ Settled
         /\ split \in BOOLEAN /\ split' = split /\ committed' = committed /\ handWired' = handWired
         /\ told' = told /\ excused' = excused
         /\ \/ plugin' = Resting /\ plugin.cmd = "sync"
            \/ GoesOn(plugin.paths \cup Tracked, plugin.written \cup Recorded, plugin.stage)
<1>1. /\ plugin # Resting /\ IsJob(plugin) /\ split \in BOOLEAN /\ told = Silence /\ IsTree(checkout)
      /\ plugin.todo # <<>> /\ Writing
  BY DEF PluginInv, PluginTypes, WriteStep
<1>2. Step \in PluginSteps
  <2>1. plugin.todo \in Seq(PluginSteps)
    BY <1>1 DEF IsJob, WorkedThrough, Complete, InOrder, Commands
  <2> QED
    BY <1>1, <2>1 DEF Step
<1>3. Step \in Writes
  BY <1>1, <1>2 DEF Writing, PluginSteps, GitSteps
<1>4. Tail(plugin.todo) # <<>> /\ NextStep(plugin.cmd, Manifest, Known, Step, Upcoming)
  BY <1>1, <1>3, NextStepIs DEF Known, Upcoming
<1>5. checkout' = Effect /\ IsTree(Effect)
  BY <1>1, <1>3, EffectOf DEF WriteStep, IsJob
<1>6. \/ plugin' = Resting /\ plugin.cmd = "sync"
      \/ GoesOn(plugin.paths \cup Tracked, plugin.written \cup Recorded, plugin.stage)
  <2>1. \/ plugin' = Resting /\ plugin.cmd = "sync"
        \/ plugin' = [plugin EXCEPT !.todo = Tail(@), !.paths = @ \cup Tracked, !.written = @ \cup Recorded]
    BY DEF WriteStep
  <2>2. ASSUME plugin' = [plugin EXCEPT !.todo = Tail(@), !.paths = @ \cup Tracked, !.written = @ \cup Recorded]
        PROVE  plugin' = [cmd |-> plugin.cmd, name |-> plugin.name, version |-> plugin.version,
                todo |-> Tail(plugin.todo), paths |-> plugin.paths \cup Tracked,
                written |-> plugin.written \cup Recorded,
                stage |-> plugin.stage, before |-> plugin.before]
    BY <1>1, <2>2 DEF IsJob
  <2>3. split' = split /\ excused' = excused
    BY DEF WriteStep
  <2> QED
    BY <1>4, <2>1, <2>2, <2>3 DEF GoesOn
<1> QED
  BY <1>1, <1>3, <1>4, <1>5, <1>6 DEF WriteStep

\* What the step under way stages and touches, among the plugins' directories.
LEMMA TouchedIs ==
  ASSUME Step \in Writes
  PROVE  /\ \A q : Source(q) \in Touched => Step \in {"copy", "delete"} /\ q = plugin.name
         /\ \A q : Module(q) \in Touched => Step \in {"module", "delete"} /\ q = plugin.name
         /\ Wiring \in Touched => Step = "wire"
         /\ Registry \in Touched => Step \in {"register", "unregister"}
         /\ \A q : Source(q) \notin Tracked
         /\ \A q : Module(q) \in Tracked => Step = "module" /\ Manifest.terraform /\ q = plugin.name
         /\ Registry \in Tracked <=> Step \in {"register", "unregister"} /\ ~split
         /\ Settled \subseteq Touched
BY ItemsDiffer DEF Touched, Tracked, Settled, NoModule, Writes

LEMMA WritePaths ==
  ASSUME PluginInv, WriteStep
  PROVE  (plugin # Resting => PathsInv(plugin))'
<1> SUFFICES ASSUME plugin' # Resting PROVE PathsInv(plugin)'
  OBVIOUS
<1> DEFINE x == Step
           n == Upcoming
<1>1. /\ PathsInv(plugin) /\ ModuleInv(plugin)
      /\ x \in Writes /\ IsJob(plugin) /\ NextStep(plugin.cmd, Manifest, Known, x, n)
      /\ handWired' = handWired /\ IsTree(checkout)
      /\ GoesOn(plugin.paths \cup Tracked, plugin.written \cup Recorded, plugin.stage)
  BY Written DEF PluginInv, PluginTypes
<1>2. /\ plugin'.cmd = plugin.cmd /\ plugin'.name = plugin.name /\ plugin'.version = plugin.version
      /\ plugin'.paths = plugin.paths \cup Tracked
      /\ Head(plugin'.todo) = n
  BY <1>1, JobGoesOn DEF IsJob, Stages, Upcoming
<1>3. /\ plugin.name \in Plugins /\ plugin.version \in Nat \ {0}
  BY <1>1 DEF IsJob
<1>4. /\ checkout'.source = CASE x = "copy" -> [checkout.source EXCEPT ![plugin.name] = plugin.version]
                              [] x = "delete" -> [checkout.source EXCEPT ![plugin.name] = Gone]
                              [] OTHER -> checkout.source
      /\ checkout'.module = CASE x = "module" -> [checkout.module EXCEPT ![plugin.name] =
                                                    IF Manifest.terraform THEN plugin.version ELSE Gone]
                              [] x = "delete" -> [checkout.module EXCEPT ![plugin.name] = Gone]
                              [] OTHER -> checkout.module
  BY <1>1, <1>3, Written, EffectOf
<1>5. /\ \A q : Source(q) \notin Tracked
      /\ \A q : Module(q) \in Tracked => x = "module" /\ Manifest.terraform /\ q = plugin.name
  BY <1>1, TouchedIs
<1>6. /\ n \notin {"copy", "delete"} /\ (n = "module" => x = "copy")
      /\ (x = "delete" => plugin.cmd = "uninstall")
  BY <1>1 DEF NextStep
<1>7. Head(plugin.todo) = x
  BY DEF Step
<1> HIDE DEF x, n
<1>8. \A q \in Plugins : (Source(q) \in plugin.paths \cup Tracked) <=> (q = plugin.name /\ plugin.cmd # "sync")
  BY <1>1, <1>5 DEF PathsInv
<1>9. ASSUME NEW q \in Plugins, Module(q) \in plugin.paths \cup Tracked
      PROVE  /\ q = plugin.name /\ (q \in handWired => checkout'.module[q] # Gone)
             /\ n \notin {"copy", "module"}
  <2>1. CASE Module(q) \in plugin.paths
    <3>1. q = plugin.name /\ (q \in handWired => checkout.module[q] # Gone) /\ x \notin {"copy", "module"}
      BY <1>1, <1>7, <2>1 DEF PathsInv
    <3>2. x = "delete" => q \notin handWired
      BY <1>1, <1>7, <3>1 DEF ModuleInv
    <3> QED
      BY <1>4, <1>6, <3>1, <3>2
  <2>2. CASE Module(q) \in Tracked
    <3>1. x = "module" /\ Manifest.terraform /\ q = plugin.name
      BY <1>5, <2>2
    <3>2. checkout'.module[q] = plugin.version
      BY <1>1, <1>3, <1>4, <3>1 DEF IsTree
    <3> QED
      BY <1>3, <1>6, <3>1, <3>2 DEF Gone
  <2> QED
    BY <1>9, <2>1, <2>2
<1>10. plugin.cmd \in Copying /\ n # "copy" => checkout'.source[plugin.name] = plugin.version
  <2>1. CASE x = "copy"
    BY <1>1, <1>3, <1>4, <2>1 DEF IsTree
  <2>2. CASE x # "copy"
    BY <1>1, <1>4, <1>6, <1>7, <2>2 DEF PathsInv, Copying
  <2> QED
    BY <2>1, <2>2
<1> QED
  BY <1>1, <1>2, <1>8, <1>9, <1>10 DEF PathsInv

LEMMA WriteModule ==
  ASSUME PluginInv, WriteStep
  PROVE  (plugin # Resting => ModuleInv(plugin))'
<1> SUFFICES ASSUME plugin' # Resting PROVE ModuleInv(plugin)'
  OBVIOUS
<1> DEFINE x == Step
           n == Upcoming
<1>1. /\ ModuleInv(plugin) /\ x \in Writes /\ IsJob(plugin)
      /\ NextStep(plugin.cmd, Manifest, Known, x, n) /\ handWired' = handWired /\ IsTree(checkout)
      /\ GoesOn(plugin.paths \cup Tracked, plugin.written \cup Recorded, plugin.stage)
  BY Written DEF PluginInv, PluginTypes
<1>2. /\ plugin'.cmd = plugin.cmd /\ plugin'.name = plugin.name /\ plugin'.version = plugin.version
      /\ Head(plugin'.todo) = n
  BY <1>1, JobGoesOn DEF IsJob, Stages, Upcoming
<1>3. x = "copy" => checkout'.module = checkout.module /\ checkout'.wiring = checkout.wiring
  BY <1>1, Written, EffectOf DEF IsJob
<1>4. n \notin {"copy", "delete"} /\ (n = "module" => x = "copy")
  BY <1>1 DEF NextStep
<1>5. Head(plugin.todo) = x
  BY DEF Step
<1> HIDE DEF x, n
<1> QED
  BY <1>1, <1>2, <1>3, <1>4, <1>5 DEF ModuleInv

\* How a step of a command changes the modules, and what it forgets about them.
LEMMA WriteTerraform ==
  ASSUME PluginInv, WriteStep
  PROVE  /\ \A q \in Plugins : checkout'.module[q] = Gone =>
              \/ checkout.module[q] = Gone /\ (Module(q) \in unfinished => Module(q) \in unfinished')
              \/ /\ checkout.module[q] # Gone /\ q \notin handWired
                 /\ (Step = "delete" /\ q = plugin.name) \/ q \notin checkout.wiring
         /\ Wiring \in unfinished => Step = "wire" \/ Wiring \in unfinished'
<1> DEFINE x == Step
           p == plugin.name
<1>1. /\ ModuleInv(plugin) /\ x \in Writes /\ IsJob(plugin) /\ IsTree(checkout)
      /\ NextStep(plugin.cmd, Manifest, Known, x, Upcoming)
      /\ unfinished' = unfinished \ Settled
  BY Written DEF PluginInv, PluginTypes
<1>2. p \in Plugins /\ plugin.version \in Nat \ {0}
  BY <1>1 DEF IsJob
<1>3. checkout'.module = CASE x = "module" -> [checkout.module EXCEPT ![p] =
                                                    IF Manifest.terraform THEN plugin.version ELSE Gone]
                              [] x = "delete" -> [checkout.module EXCEPT ![p] = Gone]
                              [] OTHER -> checkout.module
  BY <1>1, <1>2, Written, EffectOf
<1>4. /\ \A q : Module(q) \in Settled => x \in {"module", "delete"} /\ q = p
      /\ Wiring \in Settled => x = "wire"
  BY <1>1, TouchedIs
<1>5. x = "module" => plugin.cmd \in {"install", "upgrade", "refresh"} /\ (plugin.cmd = "install" => Manifest.terraform)
  BY <1>1 DEF NextStep, IsJob, Commands
<1>6. x = "module" /\ ~Manifest.terraform => Settled = {}
  BY DEF Settled, Removing
<1>7. x = "delete" /\ checkout.module[p] = Gone => Settled = {Source(p)}
  BY DEF Settled, Removing, NoModule
<1>8. Head(plugin.todo) = x /\ Manifest = Ships[plugin.name][plugin.version]
  BY DEF Step, Manifest
<1>9. \A q : Module(q) \notin {Source(p)}
  BY ItemsDiffer
<1> HIDE DEF x
<1>10. ASSUME NEW q \in Plugins, checkout'.module[q] = Gone
       PROVE  \/ checkout.module[q] = Gone /\ (Module(q) \in unfinished => Module(q) \in unfinished')
              \/ /\ checkout.module[q] # Gone /\ q \notin handWired
                 /\ (x = "delete" /\ q = p) \/ q \notin checkout.wiring
  <2>1. CASE q = p /\ x = "module"
    <3>1. checkout'.module[q] = IF Manifest.terraform THEN plugin.version ELSE Gone
      BY <1>1, <1>2, <1>3, <2>1 DEF IsTree
    <3>2. ~Manifest.terraform
      BY <1>2, <1>10, <3>1 DEF Gone
    <3>3. checkout.module[q] = Gone \/ q \notin handWired \cup checkout.wiring
      BY <1>1, <1>5, <1>8, <2>1, <3>2 DEF ModuleInv
    <3>4. unfinished' = unfinished
      BY <1>1, <1>6, <2>1, <3>2
    <3> QED
      BY <3>3, <3>4
  <2>2. CASE q = p /\ x = "delete"
    <3>1. q \in handWired => checkout.module[q] = Gone
      BY <1>1, <1>8, <2>2 DEF ModuleInv
    <3>2. CASE checkout.module[q] = Gone
      BY <1>1, <1>7, <1>9, <2>2, <3>2
    <3> QED
      BY <2>2, <3>1, <3>2
  <2>3. CASE q # p \/ x \notin {"module", "delete"}
    <3>1. checkout'.module[q] = checkout.module[q]
      BY <1>1, <1>2, <1>3, <2>3 DEF IsTree
    <3> QED
      BY <1>1, <1>4, <1>10, <2>3, <3>1
  <2> QED
    BY <2>1, <2>2, <2>3
<1> QED
  BY <1>1, <1>4, <1>10 DEF x

LEMMA WriteHandWired ==
  ASSUME PluginInv, WriteStep
  PROVE  HandWiredStays'
<1>1. /\ HandWiredStays /\ handWired \subseteq Plugins /\ handWired' = handWired /\ committed' = committed
  BY Written DEF PluginInv, PluginTypes
<1> QED
  BY <1>1, WriteTerraform DEF HandWiredStays

LEMMA WriteWired ==
  ASSUME PluginInv, WriteStep
  PROVE  WiredStays'
<1> SUFFICES ASSUME NEW q \in checkout'.wiring
             PROVE  \/ checkout'.module[q] # Gone \/ {Module(q), Wiring} \cap unfinished' # {}
                    \/ plugin' # Resting /\ plugin'.name = q /\ Head(plugin'.todo) = "wire"
  BY DEF WiredStays
<1>1. /\ WiredStays /\ Step \in Writes /\ IsJob(plugin) /\ IsTree(checkout) /\ IsTree(checkout')
      /\ NextStep(plugin.cmd, Manifest, Known, Step, Upcoming)
      /\ plugin # Resting
      /\ \/ plugin' = Resting /\ plugin.cmd = "sync"
         \/ GoesOn(plugin.paths \cup Tracked, plugin.written \cup Recorded, plugin.stage)
  BY Written DEF PluginInv, PluginTypes
<1>2. checkout'.wiring = (IF Step = "wire" THEN Wired(checkout) ELSE checkout.wiring) /\ q \in Plugins
  BY <1>1, Written, EffectOf DEF IsJob, IsTree
<1>3. CASE Step = "wire"
  <2>1. checkout'.module = checkout.module
    BY <1>1, <1>3, Written, EffectOf DEF IsJob
  <2> QED
    BY <1>2, <1>3, <2>1 DEF Wired
<1>4. CASE Step # "wire"
  <2>1. q \in checkout.wiring
    BY <1>2, <1>4
  <2>2. checkout.module[q] # Gone \/ {Module(q), Wiring} \cap unfinished # {}
    BY <1>1, <1>4, <2>1 DEF WiredStays, Step
  <2>3. CASE checkout'.module[q] = Gone /\ checkout.module[q] = Gone
    BY <1>2, <1>4, <2>2, <2>3, WriteTerraform
  <2>4. CASE checkout'.module[q] = Gone /\ checkout.module[q] # Gone
    <3>1. Step = "delete" /\ q = plugin.name
      BY <1>2, <2>1, <2>4, WriteTerraform
    <3>2. plugin.cmd = "uninstall" /\ Upcoming = "wire"
      BY <1>1, <2>4, <3>1 DEF NextStep, PluginInv, ModuleInv, Step, Upcoming
    <3>3. GoesOn(plugin.paths \cup Tracked, plugin.written \cup Recorded, plugin.stage)
      BY <1>1, <3>2
    <3>4. plugin' # Resting /\ plugin'.name = q /\ Head(plugin'.todo) = "wire"
      BY <1>1, <3>1, <3>2, <3>3, JobGoesOn DEF IsJob, Stages, Upcoming
    <3> QED
      BY <3>4
  <2> QED
    BY <2>3, <2>4
<1> QED
  BY <1>3, <1>4

LEMMA WriteRegistry ==
  ASSUME PluginInv, WriteStep
  PROVE  RegistryInv'
<1> DEFINE x == Step
           n == Upcoming
           p == plugin.name
<1>1. /\ RegistryInv /\ x \in Writes /\ IsJob(plugin) /\ IsTree(checkout) /\ plugin # Resting
      /\ NextStep(plugin.cmd, Manifest, Known, x, n) /\ split \in BOOLEAN
      /\ split' = split /\ committed' = committed /\ excused' = excused
      /\ \/ plugin' = Resting /\ plugin.cmd = "sync"
         \/ GoesOn(plugin.paths \cup Tracked, plugin.written \cup Recorded, plugin.stage)
  BY Written DEF PluginInv, PluginTypes
<1>2. checkout'.registry = CASE x = "register" -> checkout.registry \cup {p}
                                [] x = "unregister" -> checkout.registry \ {p}
                                [] OTHER -> checkout.registry
  BY <1>1, Written, EffectOf DEF IsJob
<1>3. plugin' # Resting =>
      /\ plugin'.cmd = plugin.cmd /\ plugin'.name = p /\ plugin'.stage = plugin.stage
      /\ plugin'.paths = plugin.paths \cup Tracked /\ plugin'.written = plugin.written \cup Recorded
      /\ Head(plugin'.todo) = n
  BY <1>1, JobGoesOn DEF IsJob, Stages, Upcoming
<1>4. (Registry \in Tracked <=> x \in {"register", "unregister"} /\ ~split) /\ Tracked \subseteq Recorded
  BY <1>1, TouchedIs DEF Recorded
<1>5. /\ x = "register" => plugin.cmd = "install" /\ n = IF split THEN "addDashboard" ELSE "add"
      /\ x = "register" => plugin.cmd # "sync"
      /\ plugin.cmd = "uninstall" => x # "register"
      /\ plugin.cmd = "uninstall" /\ split =>
           /\ n = "unregister" => x = "commit"
           /\ n = "addDashboard" => x = "unregister"
           /\ n = "commitDashboard" => x = "addDashboard"
           /\ x = "unregister" => n = "addDashboard"
      /\ plugin.cmd = "uninstall" /\ ~split =>
           /\ ~Known /\ n = "lock" => x = "unregister"
           /\ n = "add" => x = "lock"
           /\ n = "commit" => x = "add"
  BY <1>1 DEF NextStep, IsJob, Commands
<1>6. Head(plugin.todo) = x /\ (Known <=> p \in excused)
  BY DEF Step, Known
<1>7. x \notin GitSteps /\ x \notin {"add", "addDashboard", "commit", "commitDashboard"}
  BY <1>1 DEF Writes, GitSteps
<1> HIDE DEF x, n
<1>8. ASSUME NEW q \in checkout'.registry \cup committed'.registry
      PROVE  Accounted(q)'
  <2>1. CASE q \in checkout.registry \cup committed.registry
    <3>1. Accounted(q)
      BY <1>1, <2>1 DEF RegistryInv
    <3>2. CASE committed.source[q] # Gone \/ q \in excused
      BY <1>1, <3>2 DEF Accounted
    <3>3. CASE p = q /\ InstallAnswers(plugin)
      <4>1. plugin.cmd = "install" /\ split /\ plugin.stage["dashboard"] # "none"
        BY <1>6, <1>7, <3>3 DEF InstallAnswers
      <4>2. plugin' # Resting
        BY <1>1, <4>1, JobGoesOn DEF IsJob, Stages
      <4> QED
        BY <1>1, <1>3, <3>3, <4>1, <4>2 DEF Accounted, InstallAnswers
    <3>4. CASE p = q /\ UninstallAnswers(plugin)
      <4>1. plugin.cmd = "uninstall" /\ split /\ plugin.stage["core"] = "committed" /\ x = "unregister"
        BY <1>6, <1>7, <3>4 DEF UninstallAnswers
      <4>2. plugin' # Resting
        BY <1>1, <4>1, JobGoesOn DEF IsJob, Stages
      <4> QED
        BY <1>1, <1>3, <1>5, <3>4, <4>1, <4>2 DEF Accounted, UninstallAnswers
    <3> QED
      BY <3>1, <3>2, <3>3, <3>4 DEF Accounted
  <2>2. CASE q \notin checkout.registry \cup committed.registry
    <3>1. x = "register" /\ q = p
      BY <1>1, <1>2, <1>8, <2>2
    <3>2. plugin' # Resting /\ plugin.cmd = "install"
      BY <1>1, <1>5, <3>1, JobGoesOn DEF IsJob, Stages
    <3>3. InstallAnswers(plugin)'
      BY <1>1, <1>3, <1>4, <1>5, <3>1, <3>2 DEF InstallAnswers, GitSteps
    <3> QED
      BY <1>3, <3>1, <3>2, <3>3 DEF Accounted
  <2> QED
    BY <2>1, <2>2
<1>9. ASSUME plugin' # Resting, plugin'.cmd = "uninstall", plugin'.name \notin excused'
      PROVE  /\ split' /\ Head(plugin'.todo) \in {"unregister", "addDashboard", "commitDashboard"} =>
                  plugin'.stage["core"] = "committed"
             /\ split' /\ Head(plugin'.todo) \in {"addDashboard", "commitDashboard"} =>
                  plugin'.name \notin checkout'.registry
             /\ ~split' /\ Head(plugin'.todo) \in {"lock", "add", "commit"} =>
                  plugin'.name \notin checkout'.registry /\ Registry \in plugin'.paths
  <2>1. plugin.cmd = "uninstall" /\ p \notin excused
    BY <1>1, <1>3, <1>9
  <2>2. CASE split
    BY <1>1, <1>2, <1>3, <1>5, <1>6, <1>7, <1>9, <2>1, <2>2 DEF RegistryInv
  <2>3. CASE ~split
    BY <1>1, <1>2, <1>3, <1>4, <1>5, <1>6, <1>7, <1>9, <2>1, <2>3 DEF RegistryInv
  <2> QED
    BY <2>2, <2>3
<1> QED
  BY <1>8, <1>9 DEF RegistryInv

LEMMA WriteInstall ==
  ASSUME PluginInv, WriteStep
  PROVE  (plugin # Resting /\ plugin.cmd = "install" => InstallInv(plugin))'
<1> SUFFICES ASSUME plugin' # Resting, plugin'.cmd = "install" PROVE InstallInv(plugin)'
  OBVIOUS
<1> DEFINE x == Step
           n == Upcoming
<1>1. /\ x \in Writes /\ IsJob(plugin) /\ IsTree(checkout) /\ plugin # Resting
      /\ NextStep(plugin.cmd, Manifest, Known, x, n)
      /\ split' = split /\ committed' = committed /\ checkout' = Effect
      /\ GoesOn(plugin.paths \cup Tracked, plugin.written \cup Recorded, plugin.stage)
  BY Written DEF PluginInv, PluginTypes
<1>2. /\ plugin'.cmd = plugin.cmd /\ plugin'.before = plugin.before /\ plugin'.stage = plugin.stage
      /\ plugin'.paths = plugin.paths \cup Tracked /\ plugin'.written = plugin.written \cup Recorded
      /\ Head(plugin'.todo) = n
  BY <1>1, JobGoesOn DEF IsJob, Stages, Upcoming
<1>3. /\ InstallInv(plugin) /\ PathsInv(plugin) /\ plugin.cmd = "install"
  BY <1>1, <1>2 DEF PluginInv
<1>4. /\ x \notin {"delete", "unregister", "relock"}
      /\ x = "module" => Manifest.terraform
      /\ x = "register" => n = IF split THEN "addDashboard" ELSE "add"
      /\ n = "commit" => x = "add"
      /\ n = "commitDashboard" => x = "addDashboard"
  BY <1>1, <1>3 DEF NextStep
<1>5. Touched \subseteq Recorded \cup (IF x = "register" /\ split THEN {Registry} ELSE {})
  BY <1>1, <1>4 DEF Touched, Recorded, Tracked, Copied, Writes
<1>6. Differing(checkout, checkout') \subseteq Touched
  BY <1>1, EffectOf DEF IsJob
<1>7. Recorded \subseteq plugin.paths \cup Tracked
  BY <1>1, <1>3 DEF Recorded, Copied, PathsInv, IsJob
<1>8. Head(plugin.todo) = x /\ x \notin {"add", "addDashboard", "commit", "commitDashboard"}
  BY <1>1 DEF Step, Writes
<1> HIDE DEF x, n
<1>9. ASSUME NEW item \in Differing(plugin.before.checkout, checkout')
      PROVE  \/ item \in plugin'.written
             \/ item = Registry /\ split /\ (n = "addDashboard" \/ plugin.stage["dashboard"] # "none")
  <2>1. item \in Differing(plugin.before.checkout, checkout) \/ item \in Touched
    BY <1>6, <1>9, DifferingAdds
  <2>2. CASE item \in Differing(plugin.before.checkout, checkout)
    BY <1>2, <1>3, <1>8, <2>2 DEF InstallInv
  <2>3. CASE item \in Touched
    BY <1>2, <1>4, <1>5, <2>3
  <2> QED
    BY <2>1, <2>2, <2>3
<1>10. plugin'.written \subseteq plugin'.paths
  BY <1>2, <1>3, <1>7 DEF InstallInv
<1>11. /\ plugin'.stage["core"] # "committed" /\ (plugin'.stage["dashboard"] # "none" => split')
       /\ Head(plugin'.todo) = "commit" => plugin'.stage["core"] = "staged"
       /\ Head(plugin'.todo) = "commitDashboard" => plugin'.stage["dashboard"] = "staged"
       /\ plugin'.stage["dashboard"] = "committed" => Head(plugin'.todo) \in {"add", "commit"}
       /\ IF plugin'.stage["dashboard"] = "committed"
          THEN Differing(plugin'.before.committed, committed') = {Registry}
          ELSE committed' = plugin'.before.committed
  BY <1>1, <1>2, <1>3, <1>4, <1>8 DEF InstallInv
<1> QED
  BY <1>1, <1>2, <1>9, <1>10, <1>11 DEF InstallInv

LEMMA Saying ==
  ASSUME told' = Silence
  PROVE  InstallReportsWhatItLeft'
BY DEF InstallReportsWhatItLeft, Silence, Resting

LEMMA WritePreserves ==
  ASSUME PluginInv, WriteStep
  PROVE  PluginInv'
<1>1. /\ split' \in BOOLEAN /\ IsTree(checkout)' /\ IsTree(committed)' /\ handWired' \subseteq Plugins
      /\ told' = Silence
  BY Written DEF PluginInv, PluginTypes, IsTree
<1>2. plugin' # Resting => IsJob(plugin)'
  BY Written, JobGoesOn DEF IsJob, Stages
<1>3. PluginTypes'
  BY <1>1, <1>2 DEF PluginTypes
<1> QED
  BY <1>1, <1>3, Saying, WritePaths, WriteModule, WriteHandWired, WriteWired, WriteRegistry, WriteInstall
     DEF PluginInv

-----------------------------------------------------------------------------
(* A step that writes no files *)

\* The step under way is followed by another, which only git or nobody saw.
LEMMA NothingWritten ==
  ASSUME PluginInv, plugin # Resting, plugin.todo # <<>>,
         Step \in {"relock", "add", "addDashboard", "commit", "commitDashboard"},
         NEW S \in Stages, GoesOn(plugin.paths, plugin.written, S),
         UNCHANGED <<checkout, handWired, told>>
  PROVE  /\ plugin' # Resting /\ IsJob(plugin)' /\ PathsInv(plugin)' /\ ModuleInv(plugin)'
         /\ told' = Silence
<1> DEFINE x == Step
           n == Upcoming
<1>1. /\ IsJob(plugin) /\ split \in BOOLEAN /\ told = Silence /\ PathsInv(plugin)
  BY DEF PluginInv, PluginTypes
<1>2. /\ plugin' # Resting /\ IsJob(plugin)'
      /\ plugin'.cmd = plugin.cmd /\ plugin'.name = plugin.name /\ plugin'.version = plugin.version
      /\ plugin'.paths = plugin.paths /\ Head(plugin'.todo) = n
  BY <1>1, JobGoesOn DEF Upcoming
<1>3. NextStep(plugin.cmd, Manifest, Known, x, n)
  BY <1>1, NextStepIs DEF GoesOn, Known, Upcoming
<1>4. n \notin {"copy", "delete", "module"}
  BY <1>3 DEF NextStep
<1>5. Head(plugin.todo) # "copy"
  BY DEF Step
<1> HIDE DEF x, n
<1>6. PathsInv(plugin)'
  BY <1>1, <1>2, <1>4, <1>5 DEF PathsInv
<1>7. ModuleInv(plugin)'
  BY <1>2, <1>4 DEF ModuleInv
<1> QED
  BY <1>1, <1>2, <1>6, <1>7

LEMMA RelockPreserves ==
  ASSUME PluginInv, RelockFails
  PROVE  PluginInv'
<1> DEFINE x == Step
           n == Upcoming
<1>1. /\ IsJob(plugin) /\ split \in BOOLEAN /\ plugin # Resting /\ plugin.todo # <<>> /\ x = "relock"
      /\ plugin.stage \in Stages
  BY DEF PluginInv, PluginTypes, RelockFails, IsJob, Stages
<1>2. Tail(plugin.todo) # <<>> /\ NextStep(plugin.cmd, Manifest, Known, x, n)
  BY <1>1, NextStepIs DEF Known, Upcoming, Writes
<1>3. GoesOn(plugin.paths, plugin.written, plugin.stage)
  BY <1>1, <1>2 DEF RelockFails, GoesOn, IsJob
<1>4. UNCHANGED <<split, checkout, committed, handWired, told, unfinished, excused>>
  BY DEF RelockFails, treeVars
<1>5. /\ plugin' # Resting /\ IsJob(plugin)' /\ PathsInv(plugin)' /\ ModuleInv(plugin)'
      /\ told' = Silence
  BY <1>1, <1>3, <1>4, NothingWritten
<1>6. /\ plugin'.cmd = plugin.cmd /\ plugin'.name = plugin.name /\ plugin'.stage = plugin.stage
      /\ plugin'.paths = plugin.paths /\ plugin'.written = plugin.written /\ Head(plugin'.todo) = n
  BY <1>1, <1>3, JobGoesOn DEF Upcoming
<1>7. PluginTypes'
  BY <1>4, <1>5 DEF PluginInv, PluginTypes, IsTree
<1>8. HandWiredStays' /\ WiredStays'
  BY <1>1, <1>4 DEF PluginInv, HandWiredStays, WiredStays, Step
<1>9. /\ plugin.cmd # "install" /\ Head(plugin.todo) = "relock"
      /\ plugin.cmd = "uninstall" =>
           /\ split => n \notin {"unregister", "addDashboard", "commitDashboard"}
           /\ ~split => n \notin {"add", "commit"} /\ (~Known => n # "lock")
  BY <1>1, <1>2 DEF NextStep, Step
<1> HIDE DEF x, n
<1>10. RegistryInv'
  <2>1. \A q \in checkout'.registry \cup committed'.registry : Accounted(q)'
    BY <1>4, <1>9 DEF PluginInv, RegistryInv, Accounted, InstallAnswers, UninstallAnswers
  <2> QED
    BY <1>4, <1>6, <1>9, <2>1 DEF RegistryInv, Known
<1> QED
  BY <1>5, <1>6, <1>7, <1>8, <1>9, <1>10, Saying DEF PluginInv

LEMMA AddPreserves ==
  ASSUME PluginInv, GitAdd
  PROVE  PluginInv'
<1> DEFINE x == Step
           n == Upcoming
           S == [plugin.stage EXCEPT ![GitRepo] = "staged"]
<1>1. /\ IsJob(plugin) /\ split \in BOOLEAN /\ plugin # Resting /\ plugin.todo # <<>>
      /\ x \in {"add", "addDashboard"} /\ plugin.stage \in Stages
  BY DEF PluginInv, PluginTypes, GitAdd, IsJob, Stages
<1>2. Tail(plugin.todo) # <<>> /\ NextStep(plugin.cmd, Manifest, Known, x, n)
  BY <1>1, NextStepIs DEF Known, Upcoming
<1>3. GitRepo = (IF x = "addDashboard" THEN "dashboard" ELSE "core") /\ GitRepo \in Repos
  BY <1>1 DEF GitRepo, Repos
<1>4. /\ S \in Stages /\ S[GitRepo] = "staged"
      /\ \A r \in Repos \ {GitRepo} : S[r] = plugin.stage[r]
  BY <1>1, <1>3 DEF Stages
<1>5. GoesOn(plugin.paths, plugin.written, S)
  <2>1. plugin' = [plugin EXCEPT !.todo = Tail(@), !.stage[GitRepo] = "staged"]
    BY DEF GitAdd
  <2>2. plugin' = [cmd |-> plugin.cmd, name |-> plugin.name, version |-> plugin.version,
                todo |-> Tail(plugin.todo), paths |-> plugin.paths, written |-> plugin.written,
                stage |-> S, before |-> plugin.before]
    BY <1>1, <2>1 DEF IsJob
  <2> QED
    BY <1>2, <2>2 DEF GitAdd, GoesOn
<1>6. UNCHANGED <<split, checkout, committed, handWired, told, unfinished, excused>>
  BY DEF GitAdd, treeVars
<1> HIDE DEF S
<1>7. /\ plugin' # Resting /\ IsJob(plugin)' /\ PathsInv(plugin)' /\ ModuleInv(plugin)'
      /\ told' = Silence
  BY <1>1, <1>4, <1>5, <1>6, NothingWritten
<1>8. /\ plugin'.cmd = plugin.cmd /\ plugin'.name = plugin.name /\ plugin'.stage = S
      /\ plugin'.before = plugin.before
      /\ plugin'.paths = plugin.paths /\ plugin'.written = plugin.written /\ Head(plugin'.todo) = n
  BY <1>1, <1>4, <1>5, JobGoesOn DEF Upcoming
<1>9. PluginTypes'
  BY <1>6, <1>7 DEF PluginInv, PluginTypes, IsTree
<1>10. HandWiredStays' /\ WiredStays'
  BY <1>1, <1>6 DEF PluginInv, HandWiredStays, WiredStays, Step
<1>11. Head(plugin.todo) = x /\ (Known <=> plugin.name \in excused)
  BY DEF Step, Known
<1>12. /\ plugin.cmd = "uninstall" =>
           /\ x = "addDashboard" => split /\ n = "commitDashboard"
           /\ n = "unregister" => x # "add" \/ ~split
           /\ n = "addDashboard" => x = "unregister"
           /\ n = "commitDashboard" => x = "addDashboard"
           /\ ~split => n # "add" /\ (~Known => n # "lock") /\ (n = "commit" => x = "add")
       /\ plugin.cmd = "install" =>
           /\ x = "addDashboard" <=> n = "commitDashboard"
           /\ x = "addDashboard" => split
           /\ x = "add" <=> n = "commit"
  BY <1>1, <1>2 DEF NextStep
<1>13. x = "addDashboard" => S["dashboard"] = "staged" /\ S["core"] = plugin.stage["core"]
  BY <1>3, <1>4 DEF Repos
<1>14. x = "add" => S["core"] = "staged" /\ S["dashboard"] = plugin.stage["dashboard"]
  BY <1>3, <1>4 DEF Repos
<1> HIDE DEF x, n
<1>15. RegistryInv'
  <2>1. ASSUME NEW q \in checkout'.registry \cup committed'.registry PROVE Accounted(q)'
    <3>1. Accounted(q)
      BY <1>6 DEF PluginInv, RegistryInv
    <3>2. CASE plugin.name = q /\ InstallAnswers(plugin)
      <4>1. plugin.cmd = "install"
        BY <3>2 DEF InstallAnswers
      <4>2. InstallAnswers(plugin)'
        BY <1>1, <1>6, <1>8, <1>11, <1>12, <1>13, <1>14, <3>2, <4>1 DEF InstallAnswers, GitSteps
      <4> QED
        BY <1>7, <1>8, <3>2, <4>2 DEF Accounted
    <3>3. CASE plugin.name = q /\ UninstallAnswers(plugin)
      <4>1. plugin.cmd = "uninstall" /\ x = "addDashboard"
        BY <1>1, <1>11, <3>3 DEF UninstallAnswers
      <4>2. UninstallAnswers(plugin)'
        BY <1>6, <1>8, <1>12, <1>13, <3>3, <4>1 DEF UninstallAnswers
      <4> QED
        BY <1>7, <1>8, <3>3, <4>2 DEF Accounted
    <3> QED
      BY <1>6, <3>1, <3>2, <3>3 DEF Accounted
  <2>2. ASSUME plugin'.cmd = "uninstall", plugin'.name \notin excused'
        PROVE  /\ split' /\ Head(plugin'.todo) \in {"unregister", "addDashboard", "commitDashboard"} =>
                    plugin'.stage["core"] = "committed"
               /\ split' /\ Head(plugin'.todo) \in {"addDashboard", "commitDashboard"} =>
                    plugin'.name \notin checkout'.registry
               /\ ~split' /\ Head(plugin'.todo) \in {"lock", "add", "commit"} =>
                    plugin'.name \notin checkout'.registry /\ Registry \in plugin'.paths
    BY <1>1, <1>6, <1>8, <1>11, <1>12, <1>13, <2>2 DEF PluginInv, RegistryInv
  <2> QED
    BY <2>1, <2>2 DEF RegistryInv
<1>16. plugin'.cmd = "install" => InstallInv(plugin)'
  BY <1>1, <1>6, <1>8, <1>11, <1>12, <1>13, <1>14 DEF PluginInv, InstallInv
<1> QED
  BY <1>7, <1>9, <1>10, <1>15, <1>16, Saying DEF PluginInv

\* What a commit commits.
LEMMA Committed ==
  ASSUME PluginInv, GitCommit
  PROVE  /\ IsJob(plugin) /\ split \in BOOLEAN /\ plugin # Resting /\ plugin.todo # <<>>
         /\ Step \in {"commit", "commitDashboard"} /\ IsTree(checkout) /\ IsTree(committed)
         /\ committed' = Overlay(committed, checkout, StagedIn(GitRepo)) /\ IsTree(committed')
         /\ UNCHANGED <<split, checkout, handWired, told, unfinished>>
         /\ \A q \in Plugins : committed'.source[q] =
              IF Step = "commit" /\ q = plugin.name /\ plugin.cmd # "sync"
              THEN checkout.source[q] ELSE committed.source[q]
         /\ \A q \in handWired : committed'.module[q] # Gone
         /\ committed'.registry = IF Step = "commitDashboard" \/ Registry \in plugin.paths
                                  THEN checkout.registry ELSE committed.registry
         /\ excused' = IF plugin.cmd = "install" /\ Step = "commit"
                       THEN excused \ {plugin.name} ELSE excused
         /\ \/ /\ Tail(plugin.todo) = <<>> /\ plugin' = Resting
               /\ \/ Step = "commit" /\ (plugin.cmd = "uninstall" => plugin.name \in excused \/ ~split)
                  \/ Step = "commitDashboard" /\ plugin.cmd = "uninstall" /\ split
            \/ /\ GoesOn(plugin.paths, plugin.written, [plugin.stage EXCEPT ![GitRepo] = "committed"])
               /\ NextStep(plugin.cmd, Manifest, Known, Step, Upcoming)
<1>1. /\ IsJob(plugin) /\ split \in BOOLEAN /\ plugin # Resting /\ plugin.todo # <<>>
      /\ Step \in {"commit", "commitDashboard"} /\ IsTree(checkout) /\ IsTree(committed)
      /\ PathsInv(plugin) /\ handWired \subseteq Plugins
      /\ \A q \in handWired : committed.module[q] # Gone
  BY DEF PluginInv, PluginTypes, HandWiredStays, GitCommit
<1>2. /\ committed' = Overlay(committed, checkout, StagedIn(GitRepo))
      /\ UNCHANGED <<split, checkout, handWired, told, unfinished>>
  BY DEF GitCommit
<1>3. StagedIn(GitRepo) = IF Step = "commitDashboard" THEN {Registry} ELSE plugin.paths
  BY <1>1 DEF StagedIn, GitRepo
<1> DEFINE items == StagedIn(GitRepo)
<1> HIDE DEF items
<1>4. /\ IsTree(committed')
      /\ \A q \in Plugins : committed'.source[q] =
              IF Source(q) \in items THEN checkout.source[q] ELSE committed.source[q]
      /\ \A q \in Plugins : committed'.module[q] =
              IF Module(q) \in items THEN checkout.module[q] ELSE committed.module[q]
      /\ committed'.registry = IF Registry \in items THEN checkout.registry ELSE committed.registry
  <2> DEFINE t == Overlay(committed, checkout, items)
  <2>1. committed' = t
    BY <1>2 DEF items
  <2>2. /\ IsTree(t)
        /\ \A q \in Plugins : t.source[q] =
              IF Source(q) \in items THEN checkout.source[q] ELSE committed.source[q]
        /\ \A q \in Plugins : t.module[q] =
              IF Module(q) \in items THEN checkout.module[q] ELSE committed.module[q]
        /\ t.registry = IF Registry \in items THEN checkout.registry ELSE committed.registry
    BY <1>1, OverlayIsTree
  <2> HIDE DEF t
  <2> QED
    BY <2>1, <2>2
<1>5. \A q \in Plugins : Source(q) \in items <=> (Step = "commit" /\ q = plugin.name /\ plugin.cmd # "sync")
  BY <1>1, <1>3, ItemsDiffer DEF PathsInv, items
<1>6. \A q \in handWired : Module(q) \in items => checkout.module[q] # Gone
  BY <1>1, <1>3, ItemsDiffer DEF PathsInv, items
<1>7. Registry \in items <=> (Step = "commitDashboard" \/ Registry \in plugin.paths)
  BY <1>1, <1>3 DEF items
<1>8. excused' = IF plugin.cmd = "install" /\ Step = "commit" THEN excused \ {plugin.name} ELSE excused
  BY DEF GitCommit
<1>9. CASE Tail(plugin.todo) = <<>>
  <2>1. plugin' = Resting
    BY <1>9 DEF GitCommit
  <2>2. \/ Step = "commit" /\ (plugin.cmd = "uninstall" => plugin.name \in excused \/ ~split)
        \/ Step = "commitDashboard" /\ plugin.cmd = "uninstall" /\ split
    BY <1>1, <1>9, LastStepIs
  <2> QED
    BY <1>1, <1>2, <1>4, <1>5, <1>6, <1>7, <1>8, <1>9, <2>1, <2>2 DEF items
<1>10. CASE Tail(plugin.todo) # <<>>
  <2>1. NextStep(plugin.cmd, Manifest, Known, Step, Upcoming)
    BY <1>1, <1>10, NextStepIs DEF Known, Upcoming
  <2>2. plugin' = [plugin EXCEPT !.todo = Tail(@), !.stage[GitRepo] = "committed"]
    BY <1>10 DEF GitCommit
  <2>3. plugin' = [cmd |-> plugin.cmd, name |-> plugin.name, version |-> plugin.version,
                todo |-> Tail(plugin.todo), paths |-> plugin.paths, written |-> plugin.written,
                stage |-> [plugin.stage EXCEPT ![GitRepo] = "committed"], before |-> plugin.before]
    BY <1>1, <2>2 DEF IsJob
  <2>4. GoesOn(plugin.paths, plugin.written, [plugin.stage EXCEPT ![GitRepo] = "committed"])
    BY <1>2, <1>8, <1>10, <2>3 DEF GoesOn
  <2> QED
    BY <1>1, <1>2, <1>4, <1>5, <1>6, <1>7, <1>8, <2>1, <2>4 DEF items
<1> QED
  BY <1>9, <1>10

LEMMA CommitPreserves ==
  ASSUME PluginInv, GitCommit
  PROVE  PluginInv'
<1> DEFINE x == Step
           n == Upcoming
           p == plugin.name
           S == [plugin.stage EXCEPT ![GitRepo] = "committed"]
<1>1. /\ IsJob(plugin) /\ split \in BOOLEAN /\ plugin # Resting /\ plugin.todo # <<>>
      /\ x \in {"commit", "commitDashboard"} /\ IsTree(checkout) /\ IsTree(committed)
      /\ IsTree(committed')
      /\ UNCHANGED <<split, checkout, handWired, told, unfinished>>
  BY Committed
<1>2. p \in Plugins /\ plugin.cmd \in Commands /\ plugin.version \in Nat \ {0} /\ plugin.stage \in Stages
  BY <1>1 DEF IsJob, Stages
<1>3. /\ committed'.source[p] = IF x = "commit" /\ plugin.cmd # "sync"
                                THEN checkout.source[p] ELSE committed.source[p]
      /\ \A q \in Plugins \ {p} : committed'.source[q] = committed.source[q]
      /\ \A q \in handWired : committed'.module[q] # Gone
      /\ committed'.registry = IF x = "commitDashboard" \/ Registry \in plugin.paths
                               THEN checkout.registry ELSE committed.registry
      /\ excused' = IF plugin.cmd = "install" /\ x = "commit" THEN excused \ {p} ELSE excused
  BY <1>2, Committed
<1>4. GitRepo = (IF x = "commitDashboard" THEN "dashboard" ELSE "core") /\ GitRepo \in Repos
  BY <1>1 DEF GitRepo, Repos
<1>5. S \in Stages /\ S[GitRepo] = "committed" /\ \A r \in Repos \ {GitRepo} : S[r] = plugin.stage[r]
  BY <1>2, <1>4 DEF Stages
<1> HIDE DEF S
<1>6. \/ /\ Tail(plugin.todo) = <<>> /\ plugin' = Resting
         /\ \/ x = "commit" /\ (plugin.cmd = "uninstall" => p \in excused \/ ~split)
            \/ x = "commitDashboard" /\ plugin.cmd = "uninstall" /\ split
      \/ /\ GoesOn(plugin.paths, plugin.written, S)
         /\ NextStep(plugin.cmd, Manifest, Known, x, n)
  BY Committed DEF S
<1>7. plugin' # Resting =>
        /\ IsJob(plugin)' /\ PathsInv(plugin)' /\ ModuleInv(plugin)'
        /\ NextStep(plugin.cmd, Manifest, Known, x, n)
        /\ plugin'.cmd = plugin.cmd /\ plugin'.name = p /\ plugin'.stage = S
        /\ plugin'.before = plugin.before
        /\ plugin'.paths = plugin.paths /\ plugin'.written = plugin.written /\ Head(plugin'.todo) = n
  <2> SUFFICES ASSUME plugin' # Resting
               PROVE  /\ IsJob(plugin)' /\ PathsInv(plugin)' /\ ModuleInv(plugin)'
                      /\ plugin'.cmd = plugin.cmd /\ plugin'.name = p /\ plugin'.stage = S
                      /\ plugin'.before = plugin.before
                      /\ plugin'.paths = plugin.paths /\ plugin'.written = plugin.written
                      /\ Head(plugin'.todo) = n
    BY <1>6
  <2>1. GoesOn(plugin.paths, plugin.written, S)
    BY <1>6
  <2>2. IsJob(plugin)' /\ PathsInv(plugin)' /\ ModuleInv(plugin)'
    BY <1>1, <1>5, <2>1, NothingWritten
  <2> QED
    BY <1>1, <1>5, <2>1, <2>2, JobGoesOn DEF Upcoming
<1>a. plugin' = Resting =>
        \/ x = "commit" /\ (plugin.cmd = "uninstall" => p \in excused \/ ~split)
        \/ x = "commitDashboard" /\ plugin.cmd = "uninstall" /\ split
  BY <1>1, <1>5, <1>6, JobGoesOn
<1>8. told' = Silence
  BY <1>1 DEF PluginInv, PluginTypes
<1>9. PluginTypes'
  BY <1>1, <1>7, <1>8 DEF PluginInv, PluginTypes, IsTree
<1>10. HandWiredStays' /\ WiredStays'
  BY <1>1, <1>3 DEF PluginInv, HandWiredStays, WiredStays, Step
<1>11. /\ Head(plugin.todo) = x /\ (Known <=> p \in excused)
       /\ PathsInv(plugin) /\ RegistryInv
  BY <1>1 DEF Step, Known, PluginInv
<1>12. plugin' # Resting =>
         /\ plugin.cmd = "uninstall" =>
              split /\ x = "commit" /\ n = "unregister"
         /\ plugin.cmd = "install" => x = "commitDashboard" /\ n = "add" /\ split
         /\ x = "commit" => plugin.cmd = "uninstall" /\ split
  BY <1>1, <1>7 DEF NextStep
<1>13. /\ x = "commit" => S["core"] = "committed" /\ S["dashboard"] = plugin.stage["dashboard"]
       /\ x = "commitDashboard" => S["dashboard"] = "committed" /\ S["core"] = plugin.stage["core"]
  BY <1>4, <1>5 DEF Repos
<1> HIDE DEF x, n
<1>14. plugin.cmd \in Copying => checkout.source[p] # Gone
  BY <1>1, <1>2, <1>11 DEF PathsInv, Gone
<1>15. ASSUME NEW q \in checkout'.registry \cup committed'.registry PROVE Accounted(q)'
  <2>1. q \in checkout.registry \cup committed.registry /\ q \in Plugins
    BY <1>1, <1>3 DEF IsTree
  <2>2. Accounted(q)
    BY <1>11, <2>1 DEF RegistryInv
  <2>3. CASE q # p
    BY <1>3, <2>1, <2>2, <2>3 DEF Accounted
  <2>4. CASE q = p /\ plugin.cmd \in Copying
    <3>1. CASE x = "commit"
      BY <1>3, <1>14, <2>4, <3>1 DEF Accounted, Copying
    <3>2. CASE x = "commitDashboard"
      <4>1. plugin' # Resting
        BY <1>a, <2>4, <3>2 DEF Copying
      <4>2. CASE plugin.cmd = "install"
        BY <1>1, <1>7, <1>12, <1>13, <2>4, <4>1, <4>2 DEF Accounted, InstallAnswers
      <4>3. CASE plugin.cmd # "install"
        <5>1. ~InstallAnswers(plugin) /\ ~UninstallAnswers(plugin)
          BY <2>4, <4>3 DEF InstallAnswers, UninstallAnswers, Copying
        <5> QED
          BY <1>3, <2>2, <2>4, <3>2, <4>3, <5>1 DEF Accounted
      <4> QED
        BY <4>2, <4>3
    <3> QED
      BY <1>1, <3>1, <3>2
  <2>5. CASE q = p /\ plugin.cmd = "uninstall"
    <3>1. excused' = excused
      BY <1>3, <2>5
    <3>2. CASE q \in excused
      BY <3>1, <3>2 DEF Accounted
    <3>3. CASE q \notin excused /\ plugin' # Resting
      <4>1. UninstallAnswers(plugin)'
        BY <1>1, <1>7, <1>12, <1>13, <2>5, <3>3 DEF UninstallAnswers
      <4> QED
        BY <1>7, <2>5, <3>3, <4>1 DEF Accounted
    <3>4. CASE q \notin excused /\ plugin' = Resting
      <4>1. CASE x = "commit"
        <5>1. ~split
          BY <1>a, <2>5, <3>4, <4>1
        <5>2. q \notin checkout.registry /\ Registry \in plugin.paths
          BY <1>1, <1>11, <2>5, <3>4, <4>1, <5>1 DEF RegistryInv
        <5> QED
          BY <1>1, <1>3, <1>15, <5>2
      <4>2. CASE x = "commitDashboard"
        <5>1. split
          BY <1>a, <3>4, <4>2
        <5>2. q \notin checkout.registry
          BY <1>1, <1>11, <2>5, <3>4, <4>2, <5>1 DEF RegistryInv
        <5> QED
          BY <1>1, <1>3, <1>15, <4>2, <5>2
      <4> QED
        BY <1>1, <4>1, <4>2
    <3> QED
      BY <3>2, <3>3, <3>4
  <2>6. CASE q = p /\ plugin.cmd = "sync"
    <3>1. ~InstallAnswers(plugin) /\ ~UninstallAnswers(plugin)
      BY <2>6 DEF InstallAnswers, UninstallAnswers
    <3> QED
      BY <1>3, <2>2, <2>6, <3>1 DEF Accounted
  <2> QED
    BY <1>2, <2>3, <2>4, <2>5, <2>6 DEF Commands, Copying
<1>16. ASSUME plugin' # Resting, plugin'.cmd = "uninstall", plugin'.name \notin excused'
       PROVE  /\ split' /\ Head(plugin'.todo) \in {"unregister", "addDashboard", "commitDashboard"} =>
                   plugin'.stage["core"] = "committed"
              /\ split' /\ Head(plugin'.todo) \in {"addDashboard", "commitDashboard"} =>
                   plugin'.name \notin checkout'.registry
              /\ ~split' /\ Head(plugin'.todo) \in {"lock", "add", "commit"} =>
                   plugin'.name \notin checkout'.registry /\ Registry \in plugin'.paths
  BY <1>1, <1>7, <1>12, <1>13, <1>16
<1>17. RegistryInv'
  BY <1>15, <1>16 DEF RegistryInv
<1>18. ASSUME plugin' # Resting, plugin'.cmd = "install" PROVE InstallInv(plugin)'
  <2>1. plugin.cmd = "install" /\ x = "commitDashboard" /\ n = "add" /\ split
    BY <1>7, <1>12, <1>18
  <2>2. InstallInv(plugin)
    BY <1>1, <2>1 DEF PluginInv
  <2>3. committed = plugin.before.committed
    BY <1>11, <2>1, <2>2 DEF InstallInv
  <2>4. committed' = Overlay(committed, checkout, {Registry}) /\ committed' # committed
    BY <2>1 DEF GitCommit, StagedIn, GitRepo, x
  <2>5. Differing(plugin.before.committed, committed') = {Registry}
    BY <1>1, <2>3, <2>4, OverlayOfRegistry
  <2> QED
    BY <1>1, <1>7, <1>11, <1>13, <1>18, <2>1, <2>2, <2>5 DEF InstallInv
<1> QED
  BY <1>7, <1>8, <1>9, <1>10, <1>17, <1>18, Saying DEF PluginInv

-----------------------------------------------------------------------------
(* A step that stops *)

LEMMA Stopped ==
  ASSUME PluginInv, StepStops
  PROVE  /\ IsJob(plugin) /\ split \in BOOLEAN /\ plugin # Resting /\ plugin.todo # <<>>
         /\ IsTree(checkout) /\ IsTree(checkout') /\ plugin' = Resting
         /\ UNCHANGED <<split, committed, handWired>>
         /\ \/ Writing /\ Differing(checkout, checkout') \subseteq Touched
               /\ unfinished' = unfinished \cup Touched
               /\ checkout'.registry \subseteq checkout.registry \cup {plugin.name}
            \/ ~Writing /\ checkout' = checkout /\ unfinished' = unfinished
<1>1. /\ IsJob(plugin) /\ split \in BOOLEAN /\ plugin # Resting /\ plugin.todo # <<>>
      /\ IsTree(checkout) /\ plugin' = Resting /\ UNCHANGED <<split, committed, handWired>>
  BY DEF PluginInv, PluginTypes, StepStops
<1>2. CASE Writing
  <2>1. plugin.todo \in Seq(PluginSteps)
    BY <1>1 DEF IsJob, WorkedThrough, Complete, InOrder, Commands
  <2>2. Step \in PluginSteps
    BY <1>1, <2>1 DEF Step
  <2>3. Step \in Writes
    BY <1>2, <2>2 DEF Writing, PluginSteps, GitSteps
  <2>4. checkout' \in TornTrees /\ unfinished' = unfinished \cup Touched
    BY <1>2 DEF StepStops
  <2>5. plugin.name \in Plugins /\ plugin.version \in Nat
    BY <1>1 DEF IsJob
  <2>6. /\ IsTree(checkout') /\ Differing(checkout, checkout') \subseteq Touched
        /\ checkout'.registry \subseteq checkout.registry \cup {plugin.name}
    BY <1>1, <2>3, <2>4, <2>5, TornIsNear
  <2> QED
    BY <1>1, <1>2, <2>4, <2>6
<1>3. CASE ~Writing
  BY <1>1, <1>3 DEF StepStops
<1> QED
  BY <1>2, <1>3

LEMMA StopKeepsModules ==
  ASSUME PluginInv, StepStops
  PROVE  HandWiredStays' /\ WiredStays'
<1>1. /\ HandWiredStays /\ WiredStays /\ handWired \subseteq Plugins /\ plugin # Resting
      /\ IsTree(checkout) /\ IsTree(checkout')
      /\ UNCHANGED <<committed, handWired>>
  BY Stopped DEF PluginInv, PluginTypes
<1>2. unfinished \subseteq unfinished'
  BY Stopped
<1>3. \A q \in Plugins : checkout'.module[q] # checkout.module[q] => Module(q) \in unfinished'
  BY Stopped, DifferingIs
<1>4. checkout'.wiring # checkout.wiring => Wiring \in unfinished'
  BY Stopped, DifferingIs
<1>5. Step = "wire" => Wiring \in unfinished'
  <2>1. Step = "wire" => Writing /\ Touched = {Wiring}
    BY DEF Writing, Touched, Tracked
  <2> QED
    BY <2>1, Stopped
<1>6. HandWiredStays'
  BY <1>1, <1>2, <1>3 DEF HandWiredStays
<1>7. ASSUME NEW q \in checkout'.wiring
      PROVE  checkout'.module[q] # Gone \/ {Module(q), Wiring} \cap unfinished' # {}
  <2>1. CASE q \in checkout.wiring
    <3>1. q \in Plugins
      BY <1>1, <2>1 DEF IsTree
    <3>2. \/ checkout.module[q] # Gone
          \/ {Module(q), Wiring} \cap unfinished # {}
          \/ Step = "wire"
      BY <1>1, <2>1 DEF WiredStays, Step
    <3> QED
      BY <1>2, <1>3, <1>5, <3>1, <3>2
  <2>2. CASE q \notin checkout.wiring
    BY <1>4, <1>7, <2>2
  <2> QED
    BY <2>1, <2>2
<1> QED
  BY <1>6, <1>7 DEF WiredStays

LEMMA StopAnswers ==
  ASSUME PluginInv, StepStops
  PROVE  RegistryInv'
<1> DEFINE p == plugin.name
<1>1. /\ IsJob(plugin) /\ split \in BOOLEAN /\ plugin # Resting /\ RegistryInv
      /\ plugin' = Resting /\ UNCHANGED <<split, committed>>
  BY Stopped DEF PluginInv
<1>2. told' \in {Leftovers, Silence}
  BY DEF StepStops
<1>3. excused' = IF \/ told' = Silence
                   \/ Leftovers.committed # {}
                   \/ Registry \in Touched \cup Listed("core") \cup Listed("dashboard")
                 THEN excused \cup {p} ELSE excused
  BY DEF StepStops
<1>4. /\ \A r \in Repos : plugin.stage[r] = "committed" => r \in Leftovers.committed
      /\ plugin.stage \in [Repos -> {"none", "staged", "committed"}]
  BY <1>1 DEF Leftovers, IsJob
<1>5. excused \subseteq excused'
  BY <1>3
<1>6. ASSUME InstallAnswers(plugin) PROVE p \in excused'
  <2>1. CASE split
    <3>1. CASE plugin.stage["dashboard"] = "committed"
      BY <1>3, <1>4, <3>1 DEF Repos
    <3>2. CASE plugin.stage["dashboard"] = "staged"
      <4>1. Registry \in Listed("dashboard")
        BY <3>2 DEF Listed, StagedIn
      <4> QED
        BY <1>3, <4>1
    <3>3. CASE plugin.stage["dashboard"] = "none"
      <4>1. Step = "addDashboard"
        BY <1>6, <2>1, <3>3 DEF InstallAnswers, Step
      <4>2. Registry \in Listed("dashboard")
        BY <3>3, <4>1 DEF Listed
      <4> QED
        BY <1>3, <4>2
    <3> QED
      BY <1>4, <3>1, <3>2, <3>3 DEF Repos
  <2>2. CASE ~split
    <3>1. Registry \in plugin.written \cap plugin.paths
      BY <1>6, <2>2 DEF InstallAnswers
    <3>2. RepoOf(Registry) = "core"
      BY <2>2 DEF RepoOf
    <3>3. CASE plugin.stage["core"] = "committed"
      BY <1>3, <1>4, <3>3 DEF Repos
    <3>4. CASE plugin.stage["core"] # "committed"
      <4>1. Registry \in Listed("core")
        BY <3>1, <3>2, <3>4 DEF Listed, StagedIn
      <4> QED
        BY <1>3, <4>1
    <3> QED
      BY <3>3, <3>4
  <2> QED
    BY <2>1, <2>2
<1>7. ASSUME UninstallAnswers(plugin) PROVE p \in excused'
  BY <1>3, <1>4, <1>7 DEF UninstallAnswers, Repos
<1>8. ASSUME NEW q \in checkout'.registry \cup committed'.registry
      PROVE  committed'.source[q] # Gone \/ q \in excused'
  <2>1. CASE q \in checkout.registry \cup committed.registry
    <3>1. Accounted(q)
      BY <1>1, <2>1 DEF RegistryInv
    <3> QED
      BY <1>1, <1>5, <1>6, <1>7, <3>1 DEF Accounted
  <2>2. CASE q \notin checkout.registry \cup committed.registry
    <3>1. q \in checkout'.registry /\ checkout'.registry # checkout.registry
      BY <1>1, <1>8, <2>2
    <3>2. Registry \in Touched /\ q = p
      BY <2>2, <3>1, Stopped, DifferingIs
    <3> QED
      BY <1>3, <3>2
  <2> QED
    BY <2>1, <2>2
<1> QED
  BY <1>1, <1>8 DEF RegistryInv, Accounted

LEMMA StopReports ==
  ASSUME PluginInv, StepStops
  PROVE  InstallReportsWhatItLeft'
<1>1. CASE told' = Silence
  BY <1>1, Saying
<1>2. CASE told' # Silence /\ plugin.cmd # "install"
  <2>1. told' = Leftovers
    BY <1>2 DEF StepStops
  <2>2. told'.cmd = plugin.cmd
    BY <2>1 DEF Leftovers
  <2> QED
    BY <1>2, <2>2 DEF InstallReportsWhatItLeft
<1>3. CASE told' # Silence /\ plugin.cmd = "install"
  <2> DEFINE listed == [r \in Repos |-> Listed(r)]
             done == {r \in Repos : plugin.stage[r] = "committed"}
  <2>1. told' = Leftovers
    BY <1>3 DEF StepStops
  <2>2. /\ told'.cmd = "install" /\ told'.touched = Touched /\ told'.listed = listed
        /\ told'.committed = done /\ told'.before = plugin.before
    BY <1>3, <2>1 DEF Leftovers
  <2>3. /\ IsJob(plugin) /\ split \in BOOLEAN /\ plugin # Resting /\ InstallInv(plugin)
        /\ UNCHANGED <<split, committed>>
    BY <1>3, Stopped DEF PluginInv
  <2>4. plugin.stage \in [Repos -> {"none", "staged", "committed"}]
    BY <2>3 DEF IsJob
  <2>5. Differing(checkout, checkout') \subseteq Touched
    BY Stopped, DifferingFromItself
  <2>6. ASSUME NEW item \in Differing(plugin.before.checkout, checkout') \ Touched
        PROVE  item \in listed[RepoOf(item)] \/ RepoOf(item) \in done
    <3>0. RepoOf(item) \in Repos
      BY DEF RepoOf, Repos
    <3>1. item \in Differing(plugin.before.checkout, checkout)
      BY <2>5, <2>6, DifferingAdds
    <3>2. \/ item \in plugin.written /\ item \in plugin.paths
          \/ item = Registry /\ split /\ (Step = "addDashboard" \/ plugin.stage["dashboard"] # "none")
      BY <2>3, <3>1 DEF InstallInv, Step
    <3>3. CASE plugin.stage[RepoOf(item)] = "committed"
      BY <3>0, <3>3
    <3>4. CASE plugin.stage[RepoOf(item)] # "committed"
      <4>1. item \in Listed(RepoOf(item))
        BY <2>4, <3>0, <3>2, <3>4 DEF Listed, StagedIn, RepoOf, Repos
      <4> QED
        BY <3>0, <4>1
    <3> QED
      BY <3>3, <3>4
  <2>7. done = {RepoOf(item) : item \in Differing(plugin.before.committed, committed)}
    <3>1. CASE plugin.stage["dashboard"] = "committed"
      <4>1. done = {"dashboard"}
        BY <2>3, <3>1 DEF InstallInv, Repos
      <4>2. Differing(plugin.before.committed, committed) = {Registry} /\ split
        BY <2>3, <3>1 DEF InstallInv
      <4>3. RepoOf(Registry) = "dashboard"
        BY <4>2 DEF RepoOf
      <4> HIDE DEF done
      <4> QED
        BY <4>1, <4>2, <4>3
    <3>2. CASE plugin.stage["dashboard"] # "committed"
      <4>1. done = {}
        BY <2>3, <3>2 DEF InstallInv, Repos
      <4>2. Differing(plugin.before.committed, committed) = {}
        BY <2>3, <3>2, DifferingFromItself DEF InstallInv
      <4> HIDE DEF done
      <4> QED
        BY <4>1, <4>2
    <3> QED
      BY <3>1, <3>2
  <2> HIDE DEF listed, done
  <2>8. \A item : RepoOf(item)' = RepoOf(item)
    BY <2>3 DEF RepoOf
  <2>9. {RepoOf(item)' : item \in Differing(plugin.before.committed, committed)}
          = {RepoOf(item) : item \in Differing(plugin.before.committed, committed)}
    BY <2>8
  <2> QED
    BY <2>2, <2>3, <2>6, <2>7, <2>8, <2>9 DEF InstallReportsWhatItLeft
<1> QED
  BY <1>1, <1>2, <1>3

LEMMA StopPreserves ==
  ASSUME PluginInv, StepStops
  PROVE  PluginInv'
<1>1. PluginTypes'
  BY Stopped DEF PluginInv, PluginTypes, IsTree
<1> QED
  BY <1>1, Stopped, StopKeepsModules, StopAnswers, StopReports DEF PluginInv

-----------------------------------------------------------------------------
(* A command starts *)

LEMMA StartFields ==
  ASSUME NEW cmd, NEW p, NEW version, NEW steps, NEW paths, Start(cmd, p, version, steps, paths)
  PROVE  /\ plugin'.cmd = cmd /\ plugin'.name = p /\ plugin'.version = version /\ plugin'.todo = steps
         /\ plugin'.paths = paths /\ plugin'.written = {} /\ plugin'.stage = [r \in Repos |-> "none"]
         /\ plugin'.before = [checkout |-> checkout, committed |-> committed]
         /\ plugin' = [cmd |-> plugin'.cmd, name |-> plugin'.name, version |-> plugin'.version,
                       todo |-> plugin'.todo, paths |-> plugin'.paths, written |-> plugin'.written,
                       stage |-> plugin'.stage, before |-> plugin'.before]
         /\ told' = Silence
         /\ UNCHANGED <<split, checkout, committed, handWired, unfinished>>
BY DEF Start, treeVars

LEMMA StartPreserves ==
  ASSUME PluginInv, plugin = Resting,
         NEW cmd \in Commands, NEW p \in Plugins, NEW version \in Nat \ {0}, NEW steps, NEW paths,
         Start(cmd, p, version, steps, paths), excused \subseteq excused',
         Head(steps) \in {"copy", "migrate", "delete"}, cmd = "install" => Head(steps) = "copy",
         WorkedThrough(plugin)', PathsInv(plugin)', ModuleInv(plugin)'
  PROVE  PluginInv'
<1>1. /\ plugin'.cmd = cmd /\ plugin'.name = p /\ plugin'.version = version /\ plugin'.todo = steps
      /\ plugin'.paths = paths /\ plugin'.written = {} /\ plugin'.stage = [r \in Repos |-> "none"]
      /\ plugin'.before = [checkout |-> checkout, committed |-> committed]
      /\ plugin' = [cmd |-> plugin'.cmd, name |-> plugin'.name, version |-> plugin'.version,
                    todo |-> plugin'.todo, paths |-> plugin'.paths, written |-> plugin'.written,
                    stage |-> plugin'.stage, before |-> plugin'.before]
      /\ told' = Silence
      /\ UNCHANGED <<split, checkout, committed, handWired, unfinished>>
  BY StartFields
<1>2. /\ split \in BOOLEAN /\ IsTree(checkout) /\ IsTree(committed) /\ handWired \subseteq Plugins
      /\ HandWiredStays /\ WiredStays /\ RegistryInv
  BY DEF PluginInv, PluginTypes
<1>3. /\ plugin'.stage \in [Repos -> {"none", "staged", "committed"}]
      /\ plugin'.before.checkout = checkout /\ plugin'.before.committed = committed
      /\ plugin'.stage["core"] = "none" /\ plugin'.stage["dashboard"] = "none"
  BY <1>1 DEF Repos
<1>4. IsJob(plugin)'
  BY <1>1, <1>2, <1>3 DEF IsJob
<1>5. PluginTypes'
  BY <1>1, <1>2, <1>4 DEF PluginTypes, IsTree
<1>6. HandWiredStays' /\ WiredStays'
  BY <1>1, <1>2 DEF HandWiredStays, WiredStays
<1>7. RegistryInv'
  <2>1. \A q \in checkout.registry \cup committed.registry : committed.source[q] # Gone \/ q \in excused
    BY <1>2 DEF RegistryInv, Accounted
  <2> QED
    BY <1>1, <2>1 DEF RegistryInv, Accounted
<1>8. plugin'.cmd = "install" => InstallInv(plugin)'
  <2>1. Differing(plugin'.before.checkout, checkout') = {}
    BY <1>1, <1>3, DifferingFromItself
  <2> QED
    BY <1>1, <1>3, <2>1 DEF InstallInv
<1> QED
  BY <1>1, <1>5, <1>6, <1>7, <1>8, Saying DEF PluginInv

LEMMA CreatePreserves ==
  ASSUME PluginInv, CreatePlugin
  PROVE  PluginInv'
<1>1. PICK p \in Plugins : Start("create", p, 1, CreateSteps, {Source(p)})
  BY DEF CreatePlugin
<1>2. /\ plugin'.cmd = "create" /\ plugin'.name = p /\ plugin'.version = 1
      /\ plugin'.todo = CreateSteps /\ plugin'.paths = {Source(p)}
      /\ plugin = Resting /\ excused' = excused
  BY <1>1, StartFields DEF CreatePlugin, MayStart
<1>3. Head(CreateSteps) = "copy"
  BY DEF CreateSteps
<1>4. WorkedThrough(plugin)'
  BY <1>2, CreateScript DEF WorkedThrough
<1>5. PathsInv(plugin)' /\ ModuleInv(plugin)'
  BY <1>2, <1>3, ItemsDiffer DEF PathsInv, ModuleInv
<1>6. "create" \in Commands /\ 1 \in Nat \ {0}
  BY DEF Commands
<1> QED
  BY <1>1, <1>2, <1>3, <1>4, <1>5, <1>6, StartPreserves

LEMMA InstallPreserves ==
  ASSUME PluginInv, InstallPlugin
  PROVE  PluginInv'
<1>1. PICK p \in Plugins : \E v \in DOMAIN Ships[p] :
        Start("install", p, v, InstallSteps(Ships[p][v]), {Source(p)})
  BY DEF InstallPlugin
<1>2. PICK v \in DOMAIN Ships[p] : Start("install", p, v, InstallSteps(Ships[p][v]), {Source(p)})
  BY <1>1
<1> DEFINE m == Ships[p][v]
           steps == InstallSteps(m)
<1>3. /\ plugin'.cmd = "install" /\ plugin'.name = p /\ plugin'.version = v
      /\ plugin'.todo = steps /\ plugin'.paths = {Source(p)}
      /\ plugin = Resting /\ excused' = excused /\ split' = split
  BY <1>2, StartFields DEF InstallPlugin, MayStart
<1>4. Complete(InstallOrder(m), "commit", steps) /\ Head(steps) = "copy"
  BY InstallScript
<1>5. Start("install", p, v, steps, {Source(p)})
  BY <1>2
<1>6. "install" \in Commands /\ v \in Nat \ {0}
  BY ShipsAssumption DEF Commands, Plugins
<1>7. InstallOrder(m)' = InstallOrder(m)
  BY <1>3 DEF InstallOrder
<1> HIDE DEF steps
<1>8. WorkedThrough(plugin)'
  BY <1>3, <1>4, <1>7 DEF WorkedThrough
<1>9. PathsInv(plugin)' /\ ModuleInv(plugin)'
  BY <1>3, <1>4, ItemsDiffer DEF PathsInv, ModuleInv
<1> QED
  BY <1>3, <1>4, <1>5, <1>6, <1>8, <1>9, StartPreserves

LEMMA UpgradePreserves ==
  ASSUME PluginInv, UpgradePlugin
  PROVE  PluginInv'
<1>1. PICK cmd \in {"upgrade", "refresh"}, p \in Plugins : \E v \in DOMAIN Ships[p] :
        MayUpgrade(cmd, p, v) /\ Start(cmd, p, v, UpgradeSteps(Ships[p][v]), {Source(p)})
  BY DEF UpgradePlugin
<1>2. PICK v \in DOMAIN Ships[p] :
        MayUpgrade(cmd, p, v) /\ Start(cmd, p, v, UpgradeSteps(Ships[p][v]), {Source(p)})
  BY <1>1
<1> DEFINE m == Ships[p][v]
           steps == UpgradeSteps(m)
<1>3. /\ plugin'.cmd = cmd /\ plugin'.name = p /\ plugin'.version = v
      /\ plugin'.todo = steps /\ plugin'.paths = {Source(p)}
      /\ plugin = Resting /\ excused' = excused
      /\ UNCHANGED <<checkout, handWired>>
  BY <1>2, StartFields DEF UpgradePlugin, MayStart
<1>4. Complete(UpgradeOrder, "commit", steps) /\ Head(steps) = "copy"
  BY UpgradeScript
<1>5. Start(cmd, p, v, steps, {Source(p)})
  BY <1>2
<1>6. cmd \in Commands /\ cmd # "install" /\ v \in Nat \ {0} /\ cmd \in Copying
  BY ShipsAssumption DEF Commands, Plugins, Copying
<1>7. ~m.terraform => checkout.module[p] = Gone \/ p \notin handWired \cup checkout.wiring
  BY <1>2 DEF MayUpgrade, RefusesUpgrade, Referenced
<1>a. plugin'.cmd \in {"upgrade", "refresh"} /\ plugin'.cmd # "sync" /\ Ships[plugin'.name][plugin'.version] = m
  BY <1>3
<1> HIDE DEF steps, m
<1>8. WorkedThrough(plugin)'
  BY <1>3, <1>4, <1>a DEF WorkedThrough
<1>9. PathsInv(plugin)'
  BY <1>3, <1>4, <1>a, ItemsDiffer DEF PathsInv
<1>10. ModuleInv(plugin)'
  BY <1>3, <1>4, <1>7, <1>a DEF ModuleInv
<1> QED
  BY <1>3, <1>4, <1>5, <1>6, <1>8, <1>9, <1>10, StartPreserves

LEMMA UninstallPreserves ==
  ASSUME PluginInv, UninstallPlugin
  PROVE  PluginInv'
<1> DEFINE read(p) == IF Readable(p) THEN Ships[p][checkout.source[p]]
                      ELSE [terraform |-> FALSE, columns |-> {}, seed |-> FALSE, frontend |-> FALSE]
           staged(p) == {Source(p)} \cup {Module(q) : q \in {p} \cap {o \in Plugins : checkout.module[o] # Gone}}
<1>1. PICK p \in Plugins :
        /\ ~(p \in handWired /\ checkout.module[p] # Gone)
        /\ Start("uninstall", p, 1, UninstallSteps(read(p), checkout.module[p] # Gone), staged(p))
        /\ excused' = IF read(p).frontend THEN excused ELSE excused \cup {p}
  BY DEF UninstallPlugin
<1> DEFINE m == read(p)
           paths == staged(p)
           steps == UninstallSteps(m, checkout.module[p] # Gone)
<1> HIDE DEF read
<1>2. /\ plugin'.cmd = "uninstall" /\ plugin'.name = p /\ plugin'.version = 1
      /\ plugin'.todo = steps /\ plugin'.paths = paths
      /\ plugin = Resting /\ UNCHANGED <<split, checkout, handWired>>
  BY <1>1, StartFields DEF UninstallPlugin, MayStart
<1>3. /\ Complete(UninstallOrder(m.frontend),
                  IF m.frontend /\ split THEN "commitDashboard" ELSE "commit", steps)
      /\ Head(steps) = "delete" /\ (checkout.module[p] # Gone => Head(Tail(steps)) = "wire")
  BY UninstallScript
<1>4. Start("uninstall", p, 1, steps, paths) /\ excused \subseteq excused'
  BY <1>1
<1>5. "uninstall" \in Commands /\ 1 \in Nat \ {0} /\ "uninstall" \notin Copying \cup {"install", "sync"}
  BY DEF Commands, Copying
<1>6. /\ \A q \in Plugins : Source(q) \in paths <=> q = p
      /\ \A q \in Plugins : Module(q) \in paths => q = p
  BY ItemsDiffer
<1>7. WorkedThrough(plugin)'
  <2>0. UninstallOrder(TRUE)' = UninstallOrder(TRUE) /\ UninstallOrder(FALSE)' = UninstallOrder(FALSE)
    BY <1>2 DEF UninstallOrder
  <2>1. CASE m.frontend
    <3>1. UninstallOrder(m.frontend) = UninstallOrder(TRUE)
      BY <2>1 DEF UninstallOrder, When
    <3> HIDE DEF steps
    <3>2. Complete(UninstallOrder(TRUE), IF split THEN "commitDashboard" ELSE "commit", steps)
      BY <1>3, <2>1, <3>1
    <3> QED
      BY <1>2, <2>0, <3>2 DEF WorkedThrough
  <2>2. CASE ~m.frontend
    <3>1. UninstallOrder(m.frontend) = UninstallOrder(FALSE)
      BY <2>2 DEF UninstallOrder, When
    <3>2. p \in excused'
      BY <1>1, <2>2
    <3> HIDE DEF steps
    <3>3. Complete(UninstallOrder(FALSE), "commit", steps)
      BY <1>3, <2>2, <3>1
    <3> QED
      BY <1>2, <2>0, <3>2, <3>3 DEF WorkedThrough
  <2> QED
    BY <2>1, <2>2
<1> HIDE DEF steps, paths
<1>8. PathsInv(plugin)'
  <2>1. \A q \in Plugins : Module(q) \in paths => (q \in handWired => checkout.module[q] # Gone)
    BY <1>6, ItemsDiffer DEF paths
  <2> QED
    BY <1>2, <1>3, <1>5, <1>6, <2>1 DEF PathsInv
<1>9. ModuleInv(plugin)'
  BY <1>1, <1>2, <1>3 DEF ModuleInv
<1> QED
  BY <1>2, <1>3, <1>4, <1>5, <1>7, <1>8, <1>9, StartPreserves

LEMMA SyncPreserves ==
  ASSUME PluginInv, SyncMigrations
  PROVE  PluginInv'
<1>1. PICK p \in Plugins : Readable(p) /\ Start("sync", p, checkout.source[p], SyncSteps, {})
  BY DEF SyncMigrations
<1>2. /\ plugin'.cmd = "sync" /\ plugin'.name = p
      /\ plugin'.todo = SyncSteps /\ plugin'.paths = {}
      /\ plugin = Resting /\ excused' = excused
  BY <1>1, StartFields DEF SyncMigrations, MayStart
<1>3. Head(SyncSteps) = "migrate"
  BY DEF SyncSteps
<1>4. WorkedThrough(plugin)'
  BY <1>2, SyncScript DEF WorkedThrough
<1>5. PathsInv(plugin)' /\ ModuleInv(plugin)'
  BY <1>2, <1>3 DEF PathsInv, ModuleInv, Copying
<1>6. "sync" \in Commands /\ checkout.source[p] \in Nat \ {0}
  <2>1. checkout.source[p] \in Int /\ checkout.source[p] > 0
    BY <1>1 DEF PluginInv, PluginTypes, IsTree, Readable
  <2> QED
    BY <2>1 DEF Commands
<1> QED
  BY <1>1, <1>2, <1>3, <1>4, <1>5, <1>6, StartPreserves

-----------------------------------------------------------------------------
(* Between commands *)

LEMMA DiscardPreserves ==
  ASSUME PluginInv, DiscardLeftovers
  PROVE  PluginInv'
<1>1. /\ plugin = Resting /\ checkout' = committed /\ told' = Silence
      /\ UNCHANGED <<split, plugin, excused, committed, handWired>>
      /\ unfinished' = IF Wired(committed) # committed.wiring THEN {Wiring} ELSE {}
  BY DEF DiscardLeftovers, Operator, MayStart
<1>2. /\ PluginTypes /\ HandWiredStays /\ RegistryInv
  BY DEF PluginInv
<1>3. PluginTypes'
  BY <1>1, <1>2 DEF PluginTypes, IsTree
<1>4. HandWiredStays'
  BY <1>1, <1>2 DEF HandWiredStays
<1>5. WiredStays'
  BY <1>1, <1>2 DEF WiredStays, Wired, PluginTypes, IsTree
<1>6. RegistryInv'
  BY <1>1, <1>2 DEF RegistryInv, Accounted
<1> QED
  BY <1>1, <1>3, <1>4, <1>5, <1>6, Saying DEF PluginInv

LEMMA EditPreserves ==
  ASSUME PluginInv, EditMainTf
  PROVE  PluginInv'
<1>1. /\ plugin = Resting /\ told' = Silence
      /\ UNCHANGED <<split, plugin, excused, checkout, committed, unfinished>>
  BY DEF EditMainTf, Operator, MayStart, treeVars
<1>2. PICK p \in Plugins :
        \/ checkout.module[p] > 0 /\ committed.module[p] > 0 /\ handWired' = handWired \cup {p}
        \/ handWired' = handWired \ {p}
  BY DEF EditMainTf
<1>3. PluginTypes /\ HandWiredStays /\ WiredStays /\ RegistryInv
  BY DEF PluginInv
<1>4. PluginTypes'
  BY <1>1, <1>2, <1>3 DEF PluginTypes, IsTree
<1>5. HandWiredStays'
  BY <1>1, <1>2, <1>3 DEF HandWiredStays, PluginTypes, IsTree, Gone
<1>6. WiredStays' /\ RegistryInv'
  BY <1>1, <1>3 DEF WiredStays, RegistryInv, Accounted
<1> QED
  BY <1>1, <1>4, <1>5, <1>6, Saying DEF PluginInv

-----------------------------------------------------------------------------
(* What the operator can rely on *)

LEMMA PluginInitially ==
  ASSUME PluginInit
  PROVE  PluginInv
<1>1. IsTree(EmptyTree)
  BY DEF IsTree, EmptyTree, Gone
<1>2. PluginTypes
  BY <1>1 DEF PluginInit, PluginTypes
<1>3. HandWiredStays /\ WiredStays /\ RegistryInv
  BY DEF PluginInit, HandWiredStays, WiredStays, RegistryInv, EmptyTree
<1> QED
  BY <1>2, <1>3 DEF PluginInv, PluginInit, InstallReportsWhatItLeft, Silence, Resting

LEMMA PluginKeepsInv ==
  ASSUME PluginInv, [PluginNext]_pluginVars
  PROVE  PluginInv'
<1>1. CASE PluginNext
  BY <1>1, CreatePreserves, InstallPreserves, UpgradePreserves, UninstallPreserves, SyncPreserves,
     WritePreserves, RelockPreserves, AddPreserves, CommitPreserves, StopPreserves,
     DiscardPreserves, EditPreserves DEF PluginNext
<1>2. CASE UNCHANGED pluginVars
  <2>1. UNCHANGED <<split, checkout, committed, handWired, plugin, told, unfinished, excused>>
    BY <1>2 DEF pluginVars, treeVars
  <2>2. IsJob(plugin)' <=> IsJob(plugin)
    BY <2>1 DEF IsJob, IsTree, WorkedThrough, InstallOrder, UninstallOrder
  <2>3. PluginTypes'
    BY <2>1, <2>2 DEF PluginInv, PluginTypes, IsTree
  <2>4. HandWiredStays' /\ WiredStays'
    BY <2>1 DEF PluginInv, HandWiredStays, WiredStays
  <2>5. RegistryInv'
    BY <2>1 DEF PluginInv, RegistryInv, Accounted, InstallAnswers, UninstallAnswers
  <2>6. InstallReportsWhatItLeft'
    BY <2>1 DEF PluginInv, InstallReportsWhatItLeft, RepoOf
  <2>7. plugin # Resting => PathsInv(plugin)' /\ ModuleInv(plugin)'
    BY <2>1 DEF PluginInv, PathsInv, ModuleInv
  <2>8. plugin # Resting /\ plugin.cmd = "install" => InstallInv(plugin)'
    BY <2>1 DEF PluginInv, InstallInv
  <2> QED
    BY <2>1, <2>3, <2>4, <2>5, <2>6, <2>7, <2>8 DEF PluginInv
<1> QED
  BY <1>1, <1>2

LEMMA PluginInvAlways == PluginSpec => []PluginInv
<1> QED
  BY PluginInitially, PluginKeepsInv, PTL DEF PluginSpec

\* However commands failed before, no Terraform module goes away while generated or
\* hand-written wiring refers to it, but in a step that stopped.
THEOREM ModuleStaysAlways == PluginSpec => []ModuleStaysWhileReferenced
<1>1. PluginInv => ModuleStaysWhileReferenced
  BY DEF PluginInv, HandWiredStays, WiredStays, ModuleStaysWhileReferenced
<1> QED
  BY <1>1, PluginInvAlways, PTL

\* Whatever command comes after one that stopped, the dashboard registers a plugin
\* that is not installed only if somebody was told.
THEOREM RegistrationAccountedForAlways == PluginSpec => []RegistrationIsAccountedFor
<1>1. PluginInv => RegistrationIsAccountedFor
  BY DEF PluginInv, RegistryInv, Accounted, RegistrationIsAccountedFor
<1> QED
  BY <1>1, PluginInvAlways, PTL

\* An install that stops, at whichever step and for whichever plugin, names all its
\* earlier steps left and the repositories it committed in.
THEOREM InstallReportsAlways == PluginSpec => []InstallReportsWhatItLeft
<1>1. PluginInv => InstallReportsWhatItLeft
  BY DEF PluginInv
<1> QED
  BY <1>1, PluginInvAlways, PTL
=============================================================================
