-------------------------- MODULE AgentRuns_proofs --------------------------
(***************************************************************************)
(* What AgentRuns promises for every set of keys, runs and concurrent      *)
(* requests, whoever makes them.                                           *)
(***************************************************************************)
EXTENDS AgentRuns, TLAPS

\* An ended row keeps its key and its preview flag, and is a row.
LEMMA EndedRow ==
  ASSUME TypeOK, NEW r \in RunIds, NEW status \in Terminal, NEW by \in {"report", "sweep"}
  PROVE  /\ Ended(r, status, by) \in Run
         /\ Ended(r, status, by).status = status
         /\ Ended(r, status, by).key = runs[r].key
         /\ Ended(r, status, by).dryRun = runs[r].dryRun
         /\ Ended(r, status, by).endedBy = by
BY DEF Ended, TypeOK, Run

\* An announcement appends one status to the runs it is about.
LEMMA ToldTypes ==
  ASSUME TypeOK, NEW sent, NEW status \in Terminal
  PROVE  /\ Told(sent, status) \in [RunIds -> Seq(Terminal)]
         /\ \A r \in RunIds : r \notin sent => Told(sent, status)[r] = announced[r]
         /\ \A r \in RunIds : r \in sent => Told(sent, status)[r] = Append(announced[r], status)
<1>1. \A r \in RunIds : announced[r] \in Seq(Terminal)
  BY DEF TypeOK
<1>2. \A r \in RunIds : Append(announced[r], status) \in Seq(Terminal)
  BY <1>1
<1> QED
  BY <1>1, <1>2 DEF Told

\* A row that a request for a run makes is a row.
LEMMA RequestedRow ==
  ASSUME NEW k \in Keys \cup {None}, NEW dryRun \in BOOLEAN
  PROVE  [NoRun EXCEPT !.status = "pending", !.key = k, !.dryRun = dryRun] \in Run
BY DEF NoRun, Run, InFlight

\* The row of a chat turn is a row.
LEMMA ChatRow ==
  ASSUME NEW status \in Terminal
  PROVE  [NoRun EXCEPT !.status = status, !.endedBy = "report"] \in Run
BY DEF NoRun, Run

-----------------------------------------------------------------------------

\* The initial rows, reports and sweeps are of their types.
LEMMA TypeInit == Init => TypeOK
<1> SUFFICES ASSUME Init
             PROVE  TypeOK
  OBVIOUS
<1>1. NoReport \in Report
  BY DEF Report
<1>3. NoRun \in Run
  BY DEF NoRun, Run
<1>2. <<>> \in Seq(Terminal)
  OBVIOUS
<1> QED
  BY <1>1, <1>2, <1>3 DEF Init, TypeOK

\* Every request keeps rows, reports, sweeps and announcements in their types.
LEMMA TypeStep == TypeOK /\ [Next]_vars => TypeOK'
<1> SUFFICES ASSUME TypeOK, [Next]_vars
             PROVE  TypeOK'
  OBVIOUS
<1>1. ASSUME NEW r \in RunIds, NEW k \in Keys \cup {None}, NEW dryRun \in BOOLEAN,
             Created(r, k, dryRun)
      PROVE  TypeOK'
  <2> DEFINE row == [NoRun EXCEPT !.status = "pending", !.key = k, !.dryRun = dryRun]
  <2>1. row \in Run
    BY RequestedRow
  <2>2. runs' = [runs EXCEPT ![r] = row]
    BY <1>1 DEF Created
  <2> HIDE DEF row
  <2>3. runs' \in [RunIds -> Run]
    BY <2>1, <2>2 DEF TypeOK
  <2> QED
    BY <1>1, <2>3 DEF TypeOK, Created
<1>2. ASSUME NEW r \in RunIds, NEW status \in Terminal, RunChatTurn(r, status)
      PROVE  TypeOK'
  <2> DEFINE row == [NoRun EXCEPT !.status = status, !.endedBy = "report"]
  <2>1. row \in Run
    BY ChatRow
  <2>2. runs' = [runs EXCEPT ![r] = row]
    BY <1>2 DEF RunChatTurn
  <2> HIDE DEF row
  <2>3. runs' \in [RunIds -> Run]
    BY <2>1, <2>2 DEF TypeOK
  <2> QED
    BY <1>2, <2>3 DEF TypeOK, RunChatTurn
<1>3. ASSUME NEW r \in RunIds, ClaimRun(r)
      PROVE  TypeOK'
  BY <1>3 DEF TypeOK, ClaimRun, Run, InFlight
<1>4. ASSUME NEW c \in Callers, NEW r \in RunIds, NEW status \in Terminal,
             CompleteRead(c, r, status)
      PROVE  TypeOK'
  BY <1>4 DEF TypeOK, CompleteRead, Report
<1>5. ASSUME NEW c \in Callers, CompleteCommit(c)
      PROVE  TypeOK'
  <2>1. report[c] \in Report /\ report[c] # NoReport
    BY <1>5 DEF TypeOK, CompleteCommit
  <2> DEFINE r == report[c].run
             status == report[c].status
  <2>2. r \in RunIds /\ status \in Terminal
    BY <2>1 DEF Report
  <2>3. Ended(r, status, "report") \in Run
    BY <2>2, EndedRow
  <2>4. runs' = [runs EXCEPT ![r] = Ended(r, status, "report")]
    BY <1>5 DEF CompleteCommit
  <2>5. announced' \in [RunIds -> Seq(Terminal)]
    BY <1>5, <2>2, ToldTypes DEF CompleteCommit
  <2>6. report' \in [Callers -> Report]
    BY <1>5 DEF CompleteCommit, TypeOK, Report
  <2> QED
    BY <1>5, <2>3, <2>4, <2>5, <2>6 DEF TypeOK, CompleteCommit
<1>6. ASSUME NEW c \in Callers, AbortComplete(c)
      PROVE  TypeOK'
  BY <1>6 DEF TypeOK, AbortComplete, Report
<1>7. ASSUME NEW s \in Sweepers, ReapSelect(s)
      PROVE  TypeOK'
  <2>1. {<<r, runs[r].status>> : r \in Stale} \in SUBSET (RunIds \X InFlight)
    BY DEF Stale
  <2> QED
    BY <1>7, <2>1 DEF TypeOK, ReapSelect
<1>8. ASSUME NEW s \in Sweepers, ReapCommit(s)
      PROVE  TypeOK'
  <2>1. runs' \in [RunIds -> Run]
    BY <1>8, EndedRow DEF ReapCommit, TypeOK, Terminal
  <2>2. announced' \in [RunIds -> Seq(Terminal)]
    BY <1>8, ToldTypes DEF ReapCommit, Terminal
  <2> QED
    BY <1>8, <2>1, <2>2 DEF TypeOK, ReapCommit
<1>9. ASSUME NEW s \in Sweepers, AbortReap(s)
      PROVE  TypeOK'
  BY <1>9 DEF TypeOK, AbortReap
<1>10. ASSUME NEW r \in RunIds, Age(r)
       PROVE  TypeOK'
  BY <1>10 DEF TypeOK, Age, Run
<1>11. CASE UNCHANGED vars
  BY <1>11 DEF TypeOK, vars
<1> QED
  BY <1>1, <1>2, <1>3, <1>4, <1>5, <1>6, <1>7, <1>8, <1>9, <1>10, <1>11
  DEF Next, Make, RequestRun, StartDryRun, Complete, Sweep

\* The type invariant holds whoever calls, for every set of runs and requests.
THEOREM TypeCorrect == Spec => []TypeOK
BY TypeInit, TypeStep, PTL DEF Spec

-----------------------------------------------------------------------------
(* The inductive invariant *)

\* Only rows are announced and reported; only a row in flight is yet to be ended.
Bookkeeping ==
  /\ \A r \in RunIds : ~Exists(r) => announced[r] = <<>> /\ runs[r].key = None
  /\ \A c \in Callers : report[c] # NoReport => Exists(report[c].run)
  /\ \A r \in RunIds : runs[r].status \in InFlight => runs[r].endedBy = "nobody"

\* A selected row whose status is still the selected one is still old: a status
\* is never taken a second time, and a claim, which renews a row, changes it.
SnapshotsHold ==
  \A s \in Sweepers, r \in RunIds, status \in InFlight :
    <<r, status>> \in sweep[s] =>
      /\ Exists(r)
      /\ status = "running" => runs[r].status # "pending"
      /\ runs[r].status = status => runs[r].aged

IInv ==
  /\ TypeOK
  /\ Bookkeeping
  /\ SnapshotsHold
  /\ OneRunPerKey
  /\ PreviewsStaySilent

\* The store starts without a row, a report or a sweep.
LEMMA IInvInit == Init => IInv
<1> SUFFICES ASSUME Init
             PROVE  IInv
  OBVIOUS
<1>1. \A r \in RunIds : runs[r] = NoRun /\ announced[r] = <<>>
  BY DEF Init
<1>2. Bookkeeping /\ OneRunPerKey /\ PreviewsStaySilent
  BY <1>1 DEF Init, Bookkeeping, OneRunPerKey, PreviewsStaySilent, Exists, NoRun, InFlight
<1>3. SnapshotsHold
  BY DEF Init, SnapshotsHold
<1> QED
  BY <1>2, <1>3, TypeInit DEF IInv

\* A new row: nothing refers to it yet, and its key is free.
LEMMA MakeKeeps ==
  ASSUME IInv, NEW r \in RunIds, NEW row, row.status # "absent", ~Taken(row.key),
         row.status \in InFlight => row.endedBy = "nobody",
         ~Exists(r), runs' = [runs EXCEPT ![r] = row],
         UNCHANGED <<report, sweep, announced>>
  PROVE  Bookkeeping' /\ SnapshotsHold' /\ OneRunPerKey' /\ PreviewsStaySilent'
<1>1. \A q \in RunIds : runs'[q] = IF q = r THEN row ELSE runs[q]
  BY DEF IInv, TypeOK
<1>2. \A c \in Callers : report[c] # NoReport => report[c].run \in RunIds
  BY DEF IInv, TypeOK, Report
<1>3. Bookkeeping'
  BY <1>1, <1>2 DEF IInv, Bookkeeping, Exists
<1>4. SnapshotsHold'
  BY <1>1 DEF IInv, SnapshotsHold, Exists
<1>5. OneRunPerKey'
  BY <1>1 DEF IInv, OneRunPerKey, Exists, Taken
<1>6. PreviewsStaySilent'
  BY <1>1 DEF IInv, PreviewsStaySilent, Bookkeeping
<1> QED
  BY <1>3, <1>4, <1>5, <1>6

\* A claim renews a row, which no sweep has selected as a running one.
LEMMA ClaimKeeps ==
  ASSUME IInv, NEW r \in RunIds, ClaimRun(r)
  PROVE  Bookkeeping' /\ SnapshotsHold' /\ OneRunPerKey' /\ PreviewsStaySilent'
<1> DEFINE row == [runs[r] EXCEPT !.status = "running", !.aged = FALSE]
<1>1. runs[r] \in Run /\ runs[r].status = "pending"
  BY DEF IInv, TypeOK, ClaimRun
<1>2. /\ row.status = "running"
      /\ row.key = runs[r].key
      /\ row.dryRun = runs[r].dryRun
      /\ row.endedBy = runs[r].endedBy
  BY <1>1 DEF Run
<1>3. runs' = [runs EXCEPT ![r] = row]
  BY DEF ClaimRun, IInv, TypeOK
<1> HIDE DEF row
<1>4. \A q \in RunIds : runs'[q] = IF q = r THEN row ELSE runs[q]
  BY <1>3 DEF IInv, TypeOK
<1>5. \A c \in Callers : report[c] # NoReport => report[c].run \in RunIds
  BY DEF IInv, TypeOK, Report
<1>6. Bookkeeping'
  <2>1. UNCHANGED <<report, announced>>
    BY DEF ClaimRun
  <2>2. Exists(r) /\ runs[r].endedBy = "nobody"
    BY <1>1 DEF IInv, Bookkeeping, Exists, InFlight
  <2>3. \A q \in RunIds : Exists(q)' <=> Exists(q)
    BY <1>2, <1>4, <2>2 DEF Exists
  <2>4. \A q \in RunIds : ~Exists(q)' => announced'[q] = <<>> /\ runs'[q].key = None
    BY <1>4, <2>1, <2>2, <2>3 DEF IInv, Bookkeeping
  <2>5. \A c \in Callers : (report[c] # NoReport => Exists(report[c].run))'
    BY <1>5, <2>1, <2>3 DEF IInv, Bookkeeping
  <2>6. \A q \in RunIds : runs'[q].status \in InFlight => runs'[q].endedBy = "nobody"
    BY <1>2, <1>4, <2>2 DEF IInv, Bookkeeping
  <2> QED
    BY <2>4, <2>5, <2>6 DEF Bookkeeping
<1>7. SnapshotsHold'
  BY <1>1, <1>2, <1>4 DEF IInv, SnapshotsHold, Exists, ClaimRun, InFlight
<1>8. OneRunPerKey'
  BY <1>1, <1>2, <1>4 DEF IInv, OneRunPerKey, Exists
<1>9. PreviewsStaySilent'
  BY <1>2, <1>4 DEF IInv, PreviewsStaySilent, ClaimRun
<1> QED
  BY <1>6, <1>7, <1>8, <1>9

\* The clock changes the age of a row, upwards only.
LEMMA AgeKeeps ==
  ASSUME IInv, NEW r \in RunIds, Age(r)
  PROVE  Bookkeeping' /\ SnapshotsHold' /\ OneRunPerKey' /\ PreviewsStaySilent'
<1> DEFINE row == [runs[r] EXCEPT !.aged = TRUE]
<1>1. runs[r] \in Run
  BY DEF IInv, TypeOK
<1>2. /\ row.status = runs[r].status
      /\ row.key = runs[r].key
      /\ row.dryRun = runs[r].dryRun
      /\ row.endedBy = runs[r].endedBy
      /\ row.aged
  BY <1>1 DEF Run
<1>3. runs' = [runs EXCEPT ![r] = row]
  BY DEF Age, IInv, TypeOK
<1> HIDE DEF row
<1>4. \A q \in RunIds : runs'[q] = IF q = r THEN row ELSE runs[q]
  BY <1>3 DEF IInv, TypeOK
<1>5. \A c \in Callers : report[c] # NoReport => report[c].run \in RunIds
  BY DEF IInv, TypeOK, Report
<1>6. Bookkeeping'
  BY <1>2, <1>4, <1>5 DEF IInv, Bookkeeping, Exists, Age
<1>7. SnapshotsHold'
  BY <1>2, <1>4 DEF IInv, SnapshotsHold, Exists, Age
<1>8. OneRunPerKey'
  BY <1>2, <1>4 DEF IInv, OneRunPerKey, Exists
<1>9. PreviewsStaySilent'
  BY <1>2, <1>4 DEF IInv, PreviewsStaySilent, Age
<1> QED
  BY <1>6, <1>7, <1>8, <1>9

\* Rows that a report or a sweep ends, and what is said of them.
LEMMA EndKeeps ==
  ASSUME IInv, NEW ended \in SUBSET RunIds,
         \A r \in ended : /\ Exists(r)
                          /\ runs'[r].status \in Terminal
                          /\ runs'[r].key = runs[r].key
                          /\ runs'[r].dryRun = runs[r].dryRun,
         \A r \in RunIds \ ended : runs'[r] = runs[r],
         \A r \in RunIds : r \notin ended \/ runs[r].dryRun => announced'[r] = announced[r],
         \A c \in Callers : report'[c] \in {report[c], NoReport},
         \A s \in Sweepers : sweep'[s] \subseteq sweep[s]
  PROVE  Bookkeeping' /\ SnapshotsHold' /\ OneRunPerKey' /\ PreviewsStaySilent'
<1>1. \A c \in Callers : report[c] # NoReport => report[c].run \in RunIds
  BY DEF IInv, TypeOK, Report
<1>2. Terminal \cap (InFlight \cup {"absent"}) = {}
  BY DEF Terminal, InFlight
<1>3. \A r \in ended : Exists(r)' /\ runs'[r].status \notin InFlight
  BY <1>2 DEF Exists
<1>4. \A r \in RunIds : Exists(r)' <=> Exists(r)
  BY <1>3 DEF Exists
<1>5. Bookkeeping'
  BY <1>1, <1>3, <1>4 DEF IInv, Bookkeeping
<1>6. SnapshotsHold'
  BY <1>3, <1>4 DEF IInv, SnapshotsHold, InFlight
<1>7. OneRunPerKey'
  BY <1>4 DEF IInv, OneRunPerKey
<1>8. PreviewsStaySilent'
  BY DEF IInv, PreviewsStaySilent
<1> QED
  BY <1>5, <1>6, <1>7, <1>8

\* The invariant is inductive.
LEMMA IInvStep == IInv /\ [Next]_vars => IInv'
<1> SUFFICES ASSUME IInv, [Next]_vars
             PROVE  Bookkeeping' /\ SnapshotsHold' /\ OneRunPerKey' /\ PreviewsStaySilent'
  BY TypeStep DEF IInv
<1> DEFINE Kept == Bookkeeping' /\ SnapshotsHold' /\ OneRunPerKey' /\ PreviewsStaySilent'
<1>1. ASSUME NEW r \in RunIds, NEW k \in Keys \cup {None}, NEW dryRun \in BOOLEAN,
             Created(r, k, dryRun)
      PROVE  Kept
  <2> DEFINE row == [NoRun EXCEPT !.status = "pending", !.key = k, !.dryRun = dryRun]
  <2>1. row.status = "pending" /\ row.key = k /\ row.endedBy = "nobody"
    BY DEF NoRun
  <2>2. runs' = [runs EXCEPT ![r] = row] /\ ~Taken(k) /\ ~Exists(r)
    BY <1>1 DEF Created
  <2>3. UNCHANGED <<report, sweep, announced>>
    BY <1>1 DEF Created
  <2> HIDE DEF row
  <2> QED
    BY <2>1, <2>2, <2>3, MakeKeeps
<1>2. ASSUME NEW r \in RunIds, NEW status \in Terminal, RunChatTurn(r, status)
      PROVE  Kept
  <2> DEFINE row == [NoRun EXCEPT !.status = status, !.endedBy = "report"]
  <2>1. row.status = status /\ row.key = None
    BY DEF NoRun
  <2>2. runs' = [runs EXCEPT ![r] = row] /\ ~Exists(r)
    BY <1>2 DEF RunChatTurn
  <2>3. UNCHANGED <<report, sweep, announced>>
    BY <1>2 DEF RunChatTurn
  <2> HIDE DEF row
  <2>4. row.status \notin InFlight \cup {"absent"}
    BY <2>1 DEF Terminal, InFlight
  <2>5. ~Taken(row.key)
    BY <2>1 DEF Taken
  <2> QED
    BY <2>2, <2>3, <2>4, <2>5, MakeKeeps
<1>3. ASSUME NEW r \in RunIds, ClaimRun(r) \/ Age(r)
      PROVE  Kept
  BY <1>3, ClaimKeeps, AgeKeeps
<1>4. ASSUME NEW c \in Callers, NEW r \in RunIds, NEW status \in Terminal,
             CompleteRead(c, r, status)
      PROVE  Kept
  <2>1. Exists(r)
    BY <1>4 DEF CompleteRead, Exists, InFlight
  <2>2. \A d \in Callers : report'[d] # NoReport
                           => report'[d].run = r \/ report[d] = report'[d]
    BY <1>4 DEF CompleteRead, IInv, TypeOK
  <2> QED
    BY <1>4, <2>1, <2>2
    DEF CompleteRead, IInv, Bookkeeping, SnapshotsHold, OneRunPerKey, PreviewsStaySilent, Exists
<1>5. ASSUME NEW c \in Callers, CompleteCommit(c)
      PROVE  Kept
  <2> DEFINE r == report[c].run
             status == report[c].status
  <2>1. r \in RunIds /\ status \in Terminal
    BY <1>5 DEF CompleteCommit, IInv, TypeOK, Report
  <2>2. Exists(r)
    BY <1>5 DEF CompleteCommit, IInv, Bookkeeping
  <2>3. \A q \in RunIds : runs'[q] = IF q = r THEN Ended(r, status, "report") ELSE runs[q]
    BY <1>5 DEF CompleteCommit, IInv, TypeOK
  <2>4. PICK sent \in SUBSET ({r} \ Previews) : announced' = Told(sent, status)
    BY <1>5 DEF CompleteCommit
  <2>5. \A q \in RunIds : q # r \/ runs[q].dryRun => announced'[q] = announced[q]
    BY <2>1, <2>4, ToldTypes DEF IInv, Previews
  <2>6. \A d \in Callers : report'[d] \in {report[d], NoReport}
    BY <1>5 DEF CompleteCommit, IInv, TypeOK
  <2>7. \A s \in Sweepers : sweep'[s] \subseteq sweep[s]
    BY <1>5 DEF CompleteCommit
  <2>8. \A q \in {r} : /\ Exists(q)
                       /\ runs'[q].status \in Terminal
                       /\ runs'[q].key = runs[q].key
                       /\ runs'[q].dryRun = runs[q].dryRun
    BY <2>1, <2>2, <2>3, EndedRow DEF IInv
  <2>9. \A q \in RunIds \ {r} : runs'[q] = runs[q]
    BY <2>3
  <2>10. \A q \in RunIds : q \notin {r} \/ runs[q].dryRun => announced'[q] = announced[q]
    BY <2>5
  <2>11. {r} \in SUBSET RunIds
    BY <2>1
  <2> HIDE DEF r, status
  <2> QED
    BY <2>6, <2>7, <2>8, <2>9, <2>10, <2>11, EndKeeps
<1>6. ASSUME NEW s \in Sweepers, ReapCommit(s)
      PROVE  Kept
  <2>1. \A r \in Reapable(s) : r \in RunIds /\ runs[r].status \in InFlight
    BY <1>6 DEF Reapable, IInv, TypeOK
  <2>2. \A q \in RunIds : runs'[q] = IF q \in Reapable(s) THEN Ended(q, "failed", "sweep")
                                     ELSE runs[q]
    BY <1>6 DEF ReapCommit
  <2>3. PICK sent \in SUBSET ReapAnnounced(s) : announced' = Told(sent, "failed")
    BY <1>6 DEF ReapCommit
  <2>4. \A q \in RunIds : q \notin Reapable(s) \/ runs[q].dryRun
                          => announced'[q] = announced[q]
    BY <2>3, ToldTypes DEF IInv, ReapAnnounced, Previews, Terminal
  <2>5. \A t \in Sweepers : sweep'[t] \subseteq sweep[t]
    BY <1>6 DEF ReapCommit, IInv, TypeOK
  <2>6. \A q \in Reapable(s) : /\ Exists(q)
                               /\ runs'[q].status \in Terminal
                               /\ runs'[q].key = runs[q].key
                               /\ runs'[q].dryRun = runs[q].dryRun
    BY <2>1, <2>2, EndedRow DEF IInv, Exists, InFlight, Terminal
  <2>7. \A c \in Callers : report'[c] \in {report[c], NoReport}
    BY <1>6 DEF ReapCommit
  <2> QED
    BY <2>1, <2>2, <2>4, <2>5, <2>6, <2>7, EndKeeps
<1>7. ASSUME NEW s \in Sweepers, ReapSelect(s)
      PROVE  Kept
  <2>1. \A t \in Sweepers, r \in RunIds, status \in InFlight :
          <<r, status>> \in sweep'[t]
          => <<r, status>> \in sweep[t] \/ (runs[r].status = status /\ runs[r].aged)
    BY <1>7 DEF ReapSelect, Stale, IInv, TypeOK
  <2>2. SnapshotsHold'
    BY <1>7, <2>1 DEF ReapSelect, IInv, SnapshotsHold, Exists, InFlight
  <2> QED
    BY <1>7, <2>2 DEF ReapSelect, IInv, Bookkeeping, OneRunPerKey, PreviewsStaySilent, Exists
<1>8. CASE UNCHANGED <<runs, announced>> /\ (\E c \in Callers : AbortComplete(c))
  <2>1. /\ \A c \in Callers : report'[c] \in {report[c], NoReport}
        /\ sweep' = sweep
    BY <1>8 DEF AbortComplete, IInv, TypeOK
  <2> QED
    BY <1>8, <2>1
    DEF IInv, Bookkeeping, SnapshotsHold, OneRunPerKey, PreviewsStaySilent, Exists
<1>9. ASSUME NEW s \in Sweepers, AbortReap(s)
      PROVE  Kept
  <2>1. \A t \in Sweepers : sweep'[t] \subseteq sweep[t]
    BY <1>9 DEF AbortReap, IInv, TypeOK
  <2> QED
    BY <1>9, <2>1
    DEF AbortReap, IInv, Bookkeeping, SnapshotsHold, OneRunPerKey, PreviewsStaySilent, Exists
<1>10. CASE UNCHANGED vars
  BY <1>10
  DEF vars, IInv, Bookkeeping, SnapshotsHold, OneRunPerKey, PreviewsStaySilent, Exists
<1> QED
  BY <1>1, <1>2, <1>3, <1>4, <1>5, <1>6, <1>7, <1>8, <1>9, <1>10
  DEF Next, Make, RequestRun, StartDryRun, Complete, Sweep, AbortComplete

\* Everything the theorems below rest on holds in every reachable state.
THEOREM Invariant == Spec => []IInv
BY IInvInit, IInvStep, PTL DEF Spec

-----------------------------------------------------------------------------

\* A request that makes a run with a key finds no other run with that key, ended
\* or not, and no later request changes a key: no key ever names two runs.
THEOREM KeysUnique == Spec => []OneRunPerKey
BY Invariant, PTL DEF IInv

\* Neither a report nor a sweep ever announces the end of a preview.
THEOREM PreviewsSilent == Spec => []PreviewsStaySilent
BY Invariant, PTL DEF IInv

\* A sweep fails only what is still as it selected it, hence old and not reported.
LEMMA SweepStep ==
  ASSUME IInv, [Next]_vars, NEW r \in RunIds,
         runs'[r].endedBy = "sweep", runs[r].endedBy # "sweep"
  PROVE  runs[r].endedBy = "nobody" /\ runs[r].aged
<1> DEFINE Goal == runs[r].endedBy = "nobody" /\ runs[r].aged
<1>1. ASSUME NEW s \in Sweepers, ReapCommit(s)
      PROVE  Goal
  <2>1. r \in Reapable(s)
    BY <1>1 DEF ReapCommit
  <2>2. <<r, runs[r].status>> \in sweep[s] /\ runs[r].status \in InFlight
    BY <2>1 DEF Reapable, IInv, TypeOK
  <2> QED
    BY <2>2 DEF IInv, Bookkeeping, SnapshotsHold
<1>2. ASSUME NEW q \in RunIds, NEW k \in Keys \cup {None}, NEW dryRun \in BOOLEAN,
             Created(q, k, dryRun)
      PROVE  FALSE
  <2> DEFINE row == [NoRun EXCEPT !.status = "pending", !.key = k, !.dryRun = dryRun]
  <2>1. row.endedBy = "nobody" /\ runs' = [runs EXCEPT ![q] = row]
    BY <1>2 DEF Created, NoRun
  <2> HIDE DEF row
  <2> QED
    BY <2>1 DEF IInv, TypeOK
<1>3. ASSUME NEW q \in RunIds, NEW status \in Terminal, RunChatTurn(q, status)
      PROVE  FALSE
  <2> DEFINE row == [NoRun EXCEPT !.status = status, !.endedBy = "report"]
  <2>1. row.endedBy = "report" /\ runs' = [runs EXCEPT ![q] = row]
    BY <1>3 DEF RunChatTurn, NoRun
  <2> HIDE DEF row
  <2> QED
    BY <2>1 DEF IInv, TypeOK
<1>4. ASSUME NEW q \in RunIds, ClaimRun(q) \/ Age(q)
      PROVE  FALSE
  <2>1. runs'[r].endedBy = runs[r].endedBy
    BY <1>4 DEF ClaimRun, Age, IInv, TypeOK, Run
  <2> QED
    BY <2>1
<1>5. ASSUME NEW c \in Callers, CompleteCommit(c)
      PROVE  FALSE
  <2> DEFINE q == report[c].run
             row == Ended(q, report[c].status, "report")
  <2>1. q \in RunIds /\ report[c].status \in Terminal
    BY <1>5 DEF CompleteCommit, IInv, TypeOK, Report
  <2>2. row.endedBy = "report"
    BY <2>1, EndedRow DEF IInv
  <2>3. runs' = [runs EXCEPT ![q] = row]
    BY <1>5 DEF CompleteCommit
  <2> HIDE DEF q, row
  <2> QED
    BY <2>2, <2>3 DEF IInv, TypeOK
<1>6. UNCHANGED runs => FALSE
  OBVIOUS
<1> QED
  BY <1>1, <1>2, <1>3, <1>4, <1>5, <1>6
  DEF Next, Make, RequestRun, StartDryRun, Complete, Sweep, CompleteRead, AbortComplete,
      ReapSelect, AbortReap, vars

\* However its snapshot has aged, a sweep never fails a run that a report has
\* ended or that a claim has renewed since.
THEOREM SweepsSpare == Spec => SweepSparesReports
<1>1. IInv /\ [Next]_vars
      => [\A r \in RunIds :
            runs'[r].endedBy = "sweep" /\ runs[r].endedBy # "sweep"
            => runs[r].endedBy = "nobody" /\ runs[r].aged]_vars
  BY SweepStep
<1> QED
  BY <1>1, Invariant, PTL DEF Spec, SweepSparesReports
=============================================================================
