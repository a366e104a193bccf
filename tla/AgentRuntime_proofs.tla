------------------------ MODULE AgentRuntime_proofs ------------------------
(***************************************************************************)
(* For every set of runs, invocations and sweeps: a run is executed once   *)
(* at most, not after it has ended, and its end stays (the specification   *)
(* OnceOnlyWork), and no subscriber is told of an end twice or of another  *)
(* end than the row's.  What AgentRuns_proofs shows of Core's store holds  *)
(* here, since every step below is a step of AgentRuns.                    *)
(***************************************************************************)
EXTENDS AgentRuntime, TLAPS

CoreProofs == INSTANCE AgentRuns_proofs

-----------------------------------------------------------------------------
(* What is known of Core's store *)

\* The invocations and the counts are of their types.
Typed ==
  /\ inv \in [Callers -> Invocation]
  /\ executions \in [RunIds -> Nat]

\* A step of an invocation, a request or the clock is a step of the store.
LEMMA CoreStep == Typed /\ [Next]_vars => [CoreProofs!Next]_CoreProofs!vars
<1> SUFFICES ASSUME Typed, [Next]_vars
             PROVE  [CoreProofs!Next]_CoreProofs!vars
  OBVIOUS
<1>1. ASSUME NEW r \in RunIds, Make(r)
      PROVE  CoreProofs!Next
  <2>1. Core!Make(r)
    BY <1>1 DEF Make
  <2>2. CoreProofs!Make(r)
    BY <2>1
    DEF Core!Make, Core!RequestRun, Core!StartDryRun, Core!Created, Core!RunChatTurn,
        Core!Exists, Core!Taken, Core!NoRun, Core!Terminal,
        CoreProofs!Make, CoreProofs!RequestRun, CoreProofs!StartDryRun,
        CoreProofs!Created, CoreProofs!RunChatTurn, CoreProofs!Exists,
        CoreProofs!Taken, CoreProofs!NoRun, CoreProofs!Terminal
  <2> QED
    BY <2>2 DEF CoreProofs!Next
<1>2. ASSUME NEW r, r \in RunIds, Core!ClaimRun(r)
      PROVE  CoreProofs!Next
  BY <1>2 DEF Core!ClaimRun, CoreProofs!ClaimRun, CoreProofs!Next
<1>3. ASSUME NEW i \in Callers, NEW r, r \in RunIds, NEW status \in Core!Terminal,
             Core!CompleteRead(i, r, status)
      PROVE  CoreProofs!Next
  <2>1. CoreProofs!CompleteRead(i, r, status)
    BY <1>3 DEF Core!CompleteRead, CoreProofs!CompleteRead, Core!NoReport,
                CoreProofs!NoReport, Core!InFlight, CoreProofs!InFlight
  <2> QED
    BY <1>3, <2>1 DEF CoreProofs!Complete, CoreProofs!Next, Core!Terminal, CoreProofs!Terminal
<1>4. ASSUME NEW i \in Callers, CompleteCommit(i) \/ AbortComplete(i)
      PROVE  CoreProofs!Next
  <2>1. Core!CompleteCommit(i) => CoreProofs!CompleteCommit(i)
    BY DEF Core!CompleteCommit, CoreProofs!CompleteCommit, Core!NoReport,
           CoreProofs!NoReport, Core!Ended, CoreProofs!Ended, Core!Told, CoreProofs!Told,
           Core!Previews, CoreProofs!Previews
  <2>2. Core!AbortComplete(i) => CoreProofs!AbortComplete(i)
    BY DEF Core!AbortComplete, CoreProofs!AbortComplete, Core!NoReport,
           CoreProofs!NoReport
  <2> QED
    BY <1>4, <2>1, <2>2
    DEF CompleteCommit, AbortComplete, CoreProofs!Complete, CoreProofs!Next
<1>5. ASSUME NEW s \in Sweepers, ReapSelect(s) \/ ReapCommit(s) \/ AbortReap(s)
      PROVE  CoreProofs!Next
  <2>1. Core!ReapSelect(s) => CoreProofs!ReapSelect(s)
    BY DEF Core!ReapSelect, CoreProofs!ReapSelect, Core!Stale, CoreProofs!Stale,
           Core!InFlight, CoreProofs!InFlight
  <2>2. Core!ReapCommit(s) => CoreProofs!ReapCommit(s)
    BY DEF Core!ReapCommit, CoreProofs!ReapCommit, Core!Reapable, CoreProofs!Reapable,
           Core!ReapAnnounced, CoreProofs!ReapAnnounced, Core!Previews,
           CoreProofs!Previews, Core!Ended, CoreProofs!Ended, Core!Told, CoreProofs!Told
  <2>3. Core!AbortReap(s) => CoreProofs!AbortReap(s)
    BY DEF Core!AbortReap, CoreProofs!AbortReap
  <2> QED
    BY <1>5, <2>1, <2>2, <2>3
    DEF ReapSelect, ReapCommit, AbortReap, CoreProofs!Sweep, CoreProofs!Next
<1>6. ASSUME NEW r \in RunIds, Age(r)
      PROVE  CoreProofs!Next
  <2>1. CoreProofs!Age(r)
    BY <1>6 DEF Age, Core!Age, CoreProofs!Age, Core!InFlight, CoreProofs!InFlight
  <2> QED
    BY <2>1 DEF CoreProofs!Next
<1>7. ASSUME NEW i \in Callers, Step(i)
      PROVE  [CoreProofs!Next]_CoreProofs!vars
  <2>1. inv[i].pc # "idle" => inv[i].run \in RunIds
    BY DEF Typed, Invocation, Idle
  <2>2. CASE WinClaim(i) \/ LoseAnswer(i)
    BY <1>2, <2>1, <2>2 DEF WinClaim, LoseAnswer
  <2>3. CASE \E status \in Core!Terminal : Report(i, status)
    BY <1>3, <2>1, <2>3 DEF Report
  <2>4. CASE LoseClaim(i) \/ ReportAnswered(i) \/ Crash(i)
    BY <2>4 DEF LoseClaim, ReportAnswered, Crash, coreVars, CoreProofs!vars
  <2> QED
    BY <1>7, <2>2, <2>3, <2>4 DEF Step
<1>8. ASSUME NEW i \in Callers, NEW r \in RunIds, ReceiveRequested(i, r)
      PROVE  UNCHANGED CoreProofs!vars
  BY <1>8 DEF ReceiveRequested, coreVars, CoreProofs!vars
<1>9. UNCHANGED vars => UNCHANGED CoreProofs!vars
  BY DEF vars, coreVars, CoreProofs!vars
<1> QED
  BY <1>1, <1>4, <1>5, <1>6, <1>7, <1>8, <1>9 DEF Next

\* The store's invariant, and what the proofs below use of it.
StoreOK == CoreProofs!IInv

\* The store starts as AgentRuns says.
LEMMA StoreInit == Init => StoreOK
<1>1. Core!Init => CoreProofs!Init
  BY DEF Core!Init, CoreProofs!Init, Core!NoRun, CoreProofs!NoRun, Core!NoReport,
         CoreProofs!NoReport
<1> QED
  BY <1>1, NoneAssumption, CoreProofs!IInvInit DEF Init, StoreOK

\* So the invariant of AgentRuns_proofs holds of the composition.
LEMMA StoreStep == StoreOK /\ Typed /\ [Next]_vars => StoreOK'
BY CoreStep, NoneAssumption, CoreProofs!IInvStep DEF StoreOK

\* The part of it that is used: types, and that no running run is unclaimed again.
LEMMA StoreFacts ==
  ASSUME StoreOK
  PROVE  /\ Core!TypeOK
         /\ \A s \in Sweepers, r \in RunIds :
              <<r, "running">> \in sweep[s] => runs[r].status \notin {"absent", "pending"}
<1>1. CoreProofs!TypeOK
  BY DEF StoreOK, CoreProofs!IInv
<1>2. Core!TypeOK
  BY <1>1
  DEF CoreProofs!TypeOK, CoreProofs!Run, CoreProofs!Report, CoreProofs!NoReport,
      CoreProofs!InFlight, CoreProofs!Terminal,
      Core!TypeOK, Core!Run, Core!Report, Core!NoReport, Core!InFlight, Core!Terminal
<1> QED
  BY <1>2 DEF StoreOK, CoreProofs!IInv, CoreProofs!SnapshotsHold, CoreProofs!Exists,
              CoreProofs!InFlight

-----------------------------------------------------------------------------
(* The inductive invariant *)

\* Invocation i executes r, or Core has i's report of r and has not written it.
Holds(i, r) == (inv[i].pc = "executing" /\ inv[i].run = r) \/ report[i].run = r

\* One invocation at most holds a run, as an executor or as a reporter.
HeldOnce ==
  \A r \in RunIds : \A i, j \in Callers :
    /\ Holds(i, r) /\ Holds(j, r) => i = j
    /\ ~(inv[i].pc = "executing" /\ inv[i].run = r /\ report[i].run = r)

\* What the lease and the claim are for: a held run is running, and no sweep has
\* selected it as such.
HeldRunning ==
  \A i \in Callers, r \in RunIds :
    Holds(i, r) => /\ runs[r].status = "running"
                   /\ ~runs[r].aged
                   /\ \A s \in Sweepers : <<r, "running">> \notin sweep[s]

\* Nothing is executed before it is claimed.
ClaimedFirst ==
  \A r \in RunIds : runs[r].status \in {"absent", "pending"} => executions[r] = 0

IInv ==
  /\ StoreOK
  /\ Typed
  /\ HeldOnce
  /\ HeldRunning
  /\ ClaimedFirst
  /\ AnnouncedOutcomeIsTheOutcome
  /\ \A r \in RunIds : runs[r].status \notin Core!Terminal => announced[r] = <<>>

\* Nothing is held, executed or announced at the start.
LEMMA IInvInit == Init => IInv
<1> SUFFICES ASSUME Init
             PROVE  IInv
  OBVIOUS
<1>1. /\ \A i \in Callers : inv[i] = Idle /\ report[i].run = None
      /\ \A r \in RunIds : executions[r] = 0 /\ announced[r] = <<>>
  BY DEF Init, Core!Init, Core!NoReport
<1>2. Typed
  BY DEF Init, Typed, Invocation
<1>3. \A i \in Callers, r \in RunIds : ~Holds(i, r)
  BY <1>1, NoneAssumption DEF Holds, Idle
<1> QED
  BY <1>1, <1>2, <1>3, StoreInit
  DEF IInv, HeldOnce, HeldRunning, ClaimedFirst, AnnouncedOutcomeIsTheOutcome, Holds

-----------------------------------------------------------------------------
(* The invocations' types *)

\* Every step keeps the invocations and the counts in their types.
LEMMA TypedStep == StoreOK /\ Typed /\ [Next]_vars => Typed'
<1> SUFFICES ASSUME StoreOK, Typed, [Next]_vars
             PROVE  Typed'
  OBVIOUS
<1>1. ASSUME NEW i \in Callers, NEW r \in RunIds, ReceiveRequested(i, r)
      PROVE  Typed'
  BY <1>1 DEF Typed, ReceiveRequested, Invocation, At
<1>2. ASSUME NEW i \in Callers, Step(i)
      PROVE  Typed'
  <2>1. inv[i].pc # "idle" => /\ inv[i].run \in RunIds
                              /\ inv[i] \in [pc: {"checked", "executing", "reporting"},
                                             run: RunIds]
    BY DEF Typed, Invocation, Idle
  <2>2. CASE WinClaim(i)
    <3>1. [inv[i] EXCEPT !.pc = "executing"] \in Invocation
      BY <2>1, <2>2 DEF WinClaim, Invocation
    <3>2. inv' \in [Callers -> Invocation]
      BY <2>2, <3>1 DEF WinClaim, Typed
    <3>3. executions' \in [RunIds -> Nat]
      BY <2>1, <2>2 DEF WinClaim, Typed
    <3> QED
      BY <3>2, <3>3 DEF Typed
  <2>3. ASSUME NEW status \in Core!Terminal, Report(i, status)
        PROVE  Typed'
    <3>1. [inv[i] EXCEPT !.pc = "reporting"] \in Invocation
      BY <2>1, <2>3 DEF Report, Invocation
    <3> QED
      BY <2>3, <3>1 DEF Report, Typed
  <2>4. CASE LoseAnswer(i) \/ LoseClaim(i) \/ ReportAnswered(i) \/ Crash(i)
    BY <2>4 DEF LoseAnswer, LoseClaim, ReportAnswered, Crash, Typed, Invocation
  <2> QED
    BY <1>2, <2>2, <2>3, <2>4 DEF Step
<1>3. UNCHANGED <<inv, executions>> => Typed'
  BY DEF Typed
<1> QED
  BY <1>1, <1>2, <1>3
  DEF Next, Make, CompleteCommit, AbortComplete, ReapSelect, ReapCommit, AbortReap, Age, vars

-----------------------------------------------------------------------------
(* What each kind of step does to the invariant and to the contract *)

\* Nothing ends, and what is claimed stays claimed.
LEMMA OpenKeeps ==
  ASSUME IInv, StoreOK', Typed',
         \A r \in RunIds :
           /\ runs[r].status \in Core!Terminal \/ runs'[r].status \in Core!Terminal
              => runs'[r].status = runs[r].status
           /\ runs'[r].status \in {"absent", "pending"}
              => /\ runs[r].status \in {"absent", "pending"}
                 /\ executions'[r] = executions[r],
         UNCHANGED announced,
         HeldOnce', HeldRunning'
  PROVE  IInv' /\ UNCHANGED Outcome
<1>1. AnnouncedOutcomeIsTheOutcome'
  <2> SUFFICES ASSUME NEW r \in RunIds
               PROVE  announced[r] \in {<<>>, <<runs'[r].status>>}
    BY DEF AnnouncedOutcomeIsTheOutcome
  <2> QED
    BY DEF IInv, AnnouncedOutcomeIsTheOutcome
<1>2. \A r \in RunIds : runs'[r].status \notin Core!Terminal => announced'[r] = <<>>
  BY DEF IInv
<1>3. UNCHANGED Outcome
  BY DEF Outcome
<1>4. ClaimedFirst'
  BY DEF IInv, ClaimedFirst
<1> QED
  BY <1>1, <1>2, <1>3, <1>4 DEF IInv, Core!Terminal

\* Rows that nobody holds any more end, and are announced as what they are.
LEMMA EndKeeps ==
  ASSUME IInv, StoreOK', Typed', NEW ended \in SUBSET RunIds, NEW o \in Core!Terminal,
         \A r \in ended : runs[r].status \notin Core!Terminal /\ runs'[r].status = o,
         \A r \in RunIds \ ended : runs'[r] = runs[r] /\ announced'[r] = announced[r],
         \A r \in ended : announced'[r] \in {<<>>, <<o>>},
         \A r \in ended, i \in Callers : ~Holds(i, r)',
         \A c \in Callers : report'[c] \in {report[c], Core!NoReport},
         \A s \in Sweepers : sweep'[s] \subseteq sweep[s],
         UNCHANGED <<inv, executions>>
  PROVE  IInv' /\ Contract!End(ended, o)
<1>1. \A i \in Callers, r \in RunIds : Holds(i, r)' => Holds(i, r)
  BY NoneAssumption DEF Holds, Core!NoReport
<1>2. HeldOnce'
  <2>1. \A i \in Callers, r \in RunIds : report'[i].run = r => report[i].run = r
    BY NoneAssumption DEF Core!NoReport
  <2> QED
    BY <1>1, <2>1 DEF IInv, HeldOnce
<1>3. HeldRunning'
  BY <1>1 DEF IInv, HeldRunning
<1>4. ClaimedFirst'
  BY DEF IInv, ClaimedFirst, Core!Terminal
<1>5. AnnouncedOutcomeIsTheOutcome'
  <2> SUFFICES ASSUME NEW r \in RunIds
               PROVE  announced'[r] \in {<<>>, <<runs'[r].status>>}
    BY DEF AnnouncedOutcomeIsTheOutcome
  <2>1. CASE r \in ended
    BY <2>1
  <2>2. CASE r \notin ended
    BY <2>2 DEF IInv, AnnouncedOutcomeIsTheOutcome
  <2> QED
    BY <2>1, <2>2
<1>6. \A r \in RunIds : runs'[r].status \notin Core!Terminal => announced'[r] = <<>>
  BY DEF IInv
<1>7. Contract!End(ended, o)
  BY DEF Contract!End, Outcome
<1> QED
  BY <1>2, <1>3, <1>4, <1>5, <1>6, <1>7 DEF IInv

\* Holders only leave.
LEMMA HoldersLeave ==
  ASSUME IInv, \A i \in Callers, r \in RunIds :
                 /\ inv'[i].pc = "executing" /\ inv'[i].run = r
                    => inv[i].pc = "executing" /\ inv[i].run = r
                 /\ report'[i].run = r => report[i].run = r
  PROVE  /\ HeldOnce'
         /\ \A i \in Callers, r \in RunIds : Holds(i, r)' => Holds(i, r)
<1>1. \A i \in Callers, r \in RunIds : Holds(i, r)' => Holds(i, r)
  BY DEF Holds
<1>2. HeldOnce'
  BY <1>1 DEF IInv, HeldOnce
<1> QED
  BY <1>1, <1>2

\* The row of a claimed run: it was pending, and is running and young.
LEMMA ClaimedRow ==
  ASSUME IInv, NEW r \in RunIds, Core!ClaimRun(r)
  PROVE  /\ runs[r].status = "pending"
         /\ runs'[r].status = "running" /\ ~runs'[r].aged
         /\ \A q \in RunIds \ {r} : runs'[q] = runs[q]
         /\ \A s \in Sweepers : <<r, "running">> \notin sweep[s]
         /\ \A i \in Callers : ~Holds(i, r)
         /\ executions[r] = 0
         /\ UNCHANGED <<report, sweep, requested, announced>>
<1>1. Core!TypeOK
  BY StoreFacts DEF IInv
<1>2. /\ runs[r].status = "pending"
      /\ runs'[r].status = "running" /\ ~runs'[r].aged
      /\ \A q \in RunIds \ {r} : runs'[q] = runs[q]
  BY <1>1 DEF Core!ClaimRun, Core!TypeOK, Core!Run
<1>3. \A s \in Sweepers : <<r, "running">> \notin sweep[s]
  BY <1>2, StoreFacts DEF IInv
<1>4. \A i \in Callers : ~Holds(i, r)
  BY <1>2 DEF IInv, HeldRunning
<1>5. executions[r] = 0
  BY <1>2 DEF IInv, ClaimedFirst
<1> QED
  BY <1>2, <1>3, <1>4, <1>5 DEF Core!ClaimRun

\* A step of an invocation: only the winner of a claim starts anything.
LEMMA StepKeeps ==
  ASSUME IInv, StoreOK', Typed', NEW i \in Callers, Step(i)
  PROVE  IInv' /\ [Contract!Next]_(Contract!vars)
<1> DEFINE r == inv[i].run
           Goal == IInv' /\ [Contract!Next]_(Contract!vars)
<1>1. inv[i].pc # "idle" => r \in RunIds
  BY DEF IInv, Typed, Invocation, Idle
<1>2. inv \in [Callers -> Invocation] /\ executions \in [RunIds -> Nat]
  BY DEF IInv, Typed
<1>3. Core!TypeOK
  BY StoreFacts DEF IInv
<1>4. CASE WinClaim(i)
  <2>1. r \in RunIds /\ Core!ClaimRun(r)
    BY <1>1, <1>4 DEF WinClaim
  <2>0. /\ runs[r].status = "pending"
        /\ runs'[r].status = "running" /\ ~runs'[r].aged
        /\ \A s \in Sweepers : <<r, "running">> \notin sweep[s]
        /\ executions[r] = 0
    BY <2>1, ClaimedRow
  <2>2. /\ inv'[i].pc = "executing" /\ inv'[i].run = r
        /\ \A j \in Callers \ {i} : inv'[j] = inv[j]
    BY <1>2, <1>4, <2>1 DEF WinClaim, Invocation, Idle
  <2>3. executions' = [executions EXCEPT ![r] = 1]
    BY <1>2, <1>4, <2>0, <2>1 DEF WinClaim
  <2>4. \A q \in RunIds \ {r} : runs'[q] = runs[q] /\ executions'[q] = executions[q]
    BY <1>2, <2>1, <2>3, ClaimedRow
  <2>5. report' = report /\ sweep' = sweep /\ announced' = announced
    BY <2>1, ClaimedRow
  <2>6. \A j \in Callers, q \in RunIds : Holds(j, q)' => Holds(j, q) \/ (j = i /\ q = r)
    BY <2>2, <2>5 DEF Holds
  <2>7. \A j \in Callers : ~Holds(j, r)
    BY <2>1, ClaimedRow
  <2>8. HeldOnce'
    BY <2>2, <2>5, <2>6, <2>7 DEF IInv, HeldOnce, Holds
  <2>9. HeldRunning'
    BY <2>0, <2>1, <2>4, <2>5, <2>6, <2>7 DEF IInv, HeldRunning
  <2>10. \A q \in RunIds :
           /\ runs[q].status \in Core!Terminal \/ runs'[q].status \in Core!Terminal
              => runs'[q].status = runs[q].status
           /\ runs'[q].status \in {"absent", "pending"}
              => /\ runs[q].status \in {"absent", "pending"}
                 /\ executions'[q] = executions[q]
    BY <2>1, <2>4, ClaimedRow DEF Core!Terminal
  <2> HIDE DEF r
  <2>11. IInv' /\ UNCHANGED Outcome
    BY <2>5, <2>8, <2>9, <2>10, OpenKeeps
  <2>12. executions[r] = 0 /\ Outcome[r] = None
    BY <2>1, ClaimedRow DEF Outcome, Core!Terminal
  <2>13. Contract!Start(r)
    BY <2>3, <2>11, <2>12 DEF Contract!Start
  <2> QED
    BY <2>1, <2>11, <2>13 DEF Contract!Next
<1>5. CASE LoseAnswer(i)
  <2>1. r \in RunIds /\ Core!ClaimRun(r)
    BY <1>1, <1>5 DEF LoseAnswer
  <2>0. /\ runs[r].status = "pending"
        /\ runs'[r].status = "running" /\ ~runs'[r].aged
        /\ \A s \in Sweepers : <<r, "running">> \notin sweep[s]
        /\ executions[r] = 0
    BY <2>1, ClaimedRow
  <2>2. inv' = [inv EXCEPT ![i] = Idle] /\ executions' = executions
    BY <1>5 DEF LoseAnswer
  <2>3. \A q \in RunIds \ {r} : runs'[q] = runs[q]
    BY <2>1, ClaimedRow
  <2>4. report' = report /\ sweep' = sweep /\ announced' = announced
    BY <2>1, ClaimedRow
  <2>5. HeldOnce' /\ \A j \in Callers, q \in RunIds : Holds(j, q)' => Holds(j, q)
    BY <1>2, <2>2, <2>4, HoldersLeave DEF Idle
  <2>6. HeldRunning'
    BY <2>0, <2>1, <2>3, <2>4, <2>5 DEF IInv, HeldRunning
  <2>7. \A q \in RunIds :
           /\ runs[q].status \in Core!Terminal \/ runs'[q].status \in Core!Terminal
              => runs'[q].status = runs[q].status
           /\ runs'[q].status \in {"absent", "pending"}
              => /\ runs[q].status \in {"absent", "pending"}
                 /\ executions'[q] = executions[q]
    BY <2>1, <2>2, <2>3, ClaimedRow DEF Core!Terminal
  <2> HIDE DEF r
  <2> QED
    BY <2>2, <2>4, <2>5, <2>6, <2>7, OpenKeeps DEF Contract!vars
<1>6. CASE LoseClaim(i) \/ ReportAnswered(i) \/ Crash(i)
  <2>1. inv' = [inv EXCEPT ![i] = Idle] /\ UNCHANGED <<coreVars, executions>>
    BY <1>6 DEF LoseClaim, ReportAnswered, Crash
  <2>2. HeldOnce' /\ \A j \in Callers, q \in RunIds : Holds(j, q)' => Holds(j, q)
    BY <1>2, <2>1, HoldersLeave DEF Idle, coreVars
  <2>3. HeldRunning'
    BY <2>1, <2>2 DEF IInv, HeldRunning, coreVars
  <2> QED
    BY <2>1, <2>2, <2>3, OpenKeeps DEF Contract!vars, coreVars
<1>7. ASSUME NEW status \in Core!Terminal, Report(i, status)
      PROVE  Goal
  <2>1. r \in RunIds /\ inv[i].pc = "executing" /\ Core!CompleteRead(i, r, status)
    BY <1>1, <1>7 DEF Report
  <2>2. /\ inv'[i].pc = "reporting"
        /\ \A j \in Callers \ {i} : inv'[j] = inv[j]
    BY <1>2, <1>7, <2>1 DEF Report, Invocation, Idle
  <2>3. /\ report'[i].run = r
        /\ \A j \in Callers \ {i} : report'[j] = report[j]
    BY <1>3, <2>1 DEF Core!CompleteRead, Core!TypeOK
  <2>4. UNCHANGED <<runs, sweep, announced, executions>>
    BY <1>7, <2>1 DEF Report, Core!CompleteRead
  <2>5. Holds(i, r)
    BY <2>1 DEF Holds
  <2>6. \A j \in Callers, q \in RunIds : Holds(j, q)' => Holds(j, q)
    BY <2>2, <2>3, <2>5 DEF Holds
  <2>7. HeldOnce'
    BY <2>2, <2>3, <2>6 DEF IInv, HeldOnce
  <2>8. HeldRunning'
    BY <2>4, <2>6 DEF IInv, HeldRunning
  <2> QED
    BY <2>4, <2>7, <2>8, OpenKeeps DEF Contract!vars
<1> QED
  BY <1>4, <1>5, <1>6, <1>7 DEF Step

\* A new run is unclaimed, or a chat turn that has ended; nobody holds it.
LEMMA MakeKeeps ==
  ASSUME IInv, StoreOK', Typed', NEW r \in RunIds, Make(r)
  PROVE  IInv' /\ [Contract!Next]_(Contract!vars)
<1> DEFINE Goal == IInv' /\ [Contract!Next]_(Contract!vars)
<1>1. Core!TypeOK
  BY StoreFacts DEF IInv
<1>2. inv' = inv /\ executions' = executions
  BY DEF Make
<1>3. ASSUME NEW k \in Keys \cup {None}, NEW dryRun \in BOOLEAN, Core!Created(r, k, dryRun)
      PROVE  Goal
  <2>1. runs[r].status = "absent" /\ UNCHANGED <<report, sweep, announced>>
    BY <1>3 DEF Core!Created, Core!Exists
  <2>2. /\ runs'[r].status = "pending"
        /\ \A q \in RunIds \ {r} : runs'[q] = runs[q]
    BY <1>1, <1>3 DEF Core!Created, Core!TypeOK, Core!NoRun
  <2>3. HeldOnce' /\ \A i \in Callers, q \in RunIds : Holds(i, q)' => Holds(i, q)
    BY <1>2, <2>1, HoldersLeave
  <2>4. HeldRunning'
    BY <2>1, <2>2, <2>3 DEF IInv, HeldRunning
  <2>5. \A q \in RunIds :
           /\ runs[q].status \in Core!Terminal \/ runs'[q].status \in Core!Terminal
              => runs'[q].status = runs[q].status
           /\ runs'[q].status \in {"absent", "pending"}
              => /\ runs[q].status \in {"absent", "pending"}
                 /\ executions'[q] = executions[q]
    BY <1>2, <2>1, <2>2 DEF Core!Terminal
  <2> QED
    BY <1>2, <2>1, <2>3, <2>4, <2>5, OpenKeeps DEF Contract!vars
<1>4. ASSUME NEW status \in Core!Terminal, Core!RunChatTurn(r, status)
      PROVE  Goal
  <2>1. runs[r].status = "absent" /\ UNCHANGED <<report, sweep, announced>>
    BY <1>4 DEF Core!RunChatTurn, Core!Exists
  <2>2. /\ runs'[r].status = status
        /\ \A q \in RunIds \ {r} : runs'[q] = runs[q]
    BY <1>1, <1>4 DEF Core!RunChatTurn, Core!TypeOK, Core!NoRun
  <2>3. runs[r].status \notin Core!Terminal /\ announced[r] = <<>>
    BY <2>1 DEF IInv, Core!Terminal
  <2>4. \A i \in Callers : ~Holds(i, r)
    BY <2>1 DEF IInv, HeldRunning
  <2>5. \A i \in Callers : ~Holds(i, r)'
    BY <1>2, <2>1, <2>4 DEF Holds
  <2>6. \A q \in {r} : /\ runs[q].status \notin Core!Terminal
                       /\ runs'[q].status = status
                       /\ announced'[q] \in {<<>>, <<status>>}
                       /\ \A i \in Callers : ~Holds(i, q)'
    BY <2>1, <2>2, <2>3, <2>5
  <2>7. {r} \in SUBSET RunIds
    OBVIOUS
  <2>8. IInv' /\ Contract!End({r}, status)
    BY <1>2, <2>1, <2>2, <2>6, <2>7, EndKeeps
  <2> QED
    BY <2>7, <2>8 DEF Contract!Next
<1> QED
  BY <1>3, <1>4 DEF Make, Core!Make, Core!RequestRun, Core!StartDryRun

\* An ended row has the status it was ended with.
LEMMA EndedRow ==
  ASSUME IInv, NEW r \in RunIds, NEW status, NEW by
  PROVE  Core!Ended(r, status, by).status = status
BY StoreFacts DEF IInv, Core!Ended, Core!TypeOK, Core!Run

\* What had not ended was not announced, so what is appended is all there is.
LEMMA ToldOnce ==
  ASSUME IInv, NEW sent \in SUBSET RunIds, NEW status \in Core!Terminal
  PROVE  /\ \A r \in RunIds \ sent : Core!Told(sent, status)[r] = announced[r]
         /\ \A r \in sent : runs[r].status \notin Core!Terminal
                            => Core!Told(sent, status)[r] = <<status>>
<1>1. \A r \in RunIds : runs[r].status \notin Core!Terminal => announced[r] = <<>>
  BY DEF IInv
<1>2. Append(<<>>, status) = <<status>>
  OBVIOUS
<1> QED
  BY <1>1, <1>2 DEF Core!Told

\* A report that is written is of a run that only its reporter holds.
LEMMA CompleteKeeps ==
  ASSUME IInv, StoreOK', Typed', NEW i \in Callers, CompleteCommit(i)
  PROVE  IInv' /\ [Contract!Next]_(Contract!vars)
<1>1. Core!TypeOK
  BY StoreFacts DEF IInv
<1>2. Core!CompleteCommit(i) /\ inv' = inv /\ executions' = executions
  BY DEF CompleteCommit
<1>3. PICK r \in RunIds, status \in Core!Terminal :
        r = report[i].run /\ status = report[i].status
  BY <1>1, <1>2 DEF Core!CompleteCommit, Core!TypeOK, Core!Report
<1>4. runs' = [runs EXCEPT ![r] = Core!Ended(r, status, "report")]
  BY <1>2, <1>3 DEF Core!CompleteCommit
<1>5. PICK sent \in SUBSET ({r} \ Core!Previews) : announced' = Core!Told(sent, status)
  BY <1>2, <1>3 DEF Core!CompleteCommit
<1>6. report' = [report EXCEPT ![i] = Core!NoReport] /\ sweep' = sweep
  BY <1>2 DEF Core!CompleteCommit
<1>7. Holds(i, r)
  BY <1>3 DEF Holds
<1>8. runs[r].status = "running"
  BY <1>3, <1>7 DEF IInv, HeldRunning
<1>9. \A j \in Callers : ~Holds(j, r)'
  <2>1. ~Holds(i, r)'
    BY <1>1, <1>2, <1>3, <1>6, NoneAssumption
    DEF IInv, HeldOnce, Holds, Core!TypeOK, Core!NoReport
  <2>2. \A j \in Callers \ {i} : ~Holds(j, r)'
    BY <1>1, <1>2, <1>3, <1>6, <1>7 DEF IInv, HeldOnce, Holds, Core!TypeOK
  <2> QED
    BY <2>1, <2>2
<1>10. /\ runs'[r].status = status
       /\ \A q \in RunIds \ {r} : runs'[q] = runs[q]
  BY <1>1, <1>3, <1>4, EndedRow DEF Core!TypeOK
<1>11. \A c \in Callers : report'[c] \in {report[c], Core!NoReport}
  BY <1>1, <1>6 DEF Core!TypeOK
<1>12. /\ announced'[r] \in {<<>>, <<status>>}
       /\ \A q \in RunIds \ {r} : announced'[q] = announced[q]
  <2>1. sent \in SUBSET RunIds /\ sent \subseteq {r}
    BY <1>5
  <2>2. announced[r] = <<>> /\ runs[r].status \notin Core!Terminal
    BY <1>8 DEF IInv, Core!Terminal
  <2>3. /\ \A q \in RunIds \ sent : announced'[q] = announced[q]
        /\ \A q \in sent : runs[q].status \notin Core!Terminal => announced'[q] = <<status>>
    BY <1>3, <1>5, <2>1, ToldOnce
  <2> QED
    BY <2>1, <2>2, <2>3
<1>13. \A q \in {r} : /\ runs[q].status \notin Core!Terminal
                      /\ runs'[q].status = status
                      /\ announced'[q] \in {<<>>, <<status>>}
                      /\ \A j \in Callers : ~Holds(j, q)'
  BY <1>8, <1>9, <1>10, <1>12 DEF Core!Terminal
<1>14. {r} \in SUBSET RunIds
  OBVIOUS
<1>15. IInv' /\ Contract!End({r}, status)
  BY <1>2, <1>3, <1>6, <1>10, <1>11, <1>12, <1>13, <1>14, EndKeeps
<1> QED
  BY <1>3, <1>14, <1>15 DEF Contract!Next

\* What a sweep ends is held by nobody: the lease.
LEMMA ReapKeeps ==
  ASSUME IInv, StoreOK', Typed', NEW s \in Sweepers, ReapCommit(s)
  PROVE  IInv' /\ [Contract!Next]_(Contract!vars)
<1>1. Core!TypeOK
  BY StoreFacts DEF IInv
<1>2. Core!ReapCommit(s) /\ inv' = inv /\ executions' = executions
  BY DEF ReapCommit
<1> DEFINE ended == Core!Reapable(s)
<1>3. ended \in SUBSET RunIds
  BY DEF Core!Reapable
<1>4. \A r \in ended : runs[r].status \in Core!InFlight /\ <<r, runs[r].status>> \in sweep[s]
  BY <1>1, <1>3 DEF Core!Reapable, Core!TypeOK
<1>5. \A r \in ended, i \in Callers : ~Holds(i, r)
  BY <1>3, <1>4 DEF IInv, HeldRunning
<1>6. /\ \A r \in ended : runs'[r].status = "failed"
      /\ \A r \in RunIds \ ended : runs'[r] = runs[r]
  BY <1>2, <1>3, EndedRow DEF Core!ReapCommit
<1>7. PICK sent \in SUBSET Core!ReapAnnounced(s) : announced' = Core!Told(sent, "failed")
  BY <1>2 DEF Core!ReapCommit
<1>8. sent \in SUBSET RunIds /\ sent \subseteq ended
  BY <1>3, <1>7 DEF Core!ReapAnnounced
<1>9. \A r \in ended : runs[r].status \notin Core!Terminal /\ announced[r] = <<>>
  BY <1>3, <1>4 DEF IInv, Core!InFlight, Core!Terminal
<1>10. /\ \A r \in ended : announced'[r] \in {<<>>, <<"failed">>}
       /\ \A r \in RunIds \ ended : announced'[r] = announced[r]
  <2>1. /\ \A q \in RunIds \ sent : announced'[q] = announced[q]
        /\ \A q \in sent : runs[q].status \notin Core!Terminal => announced'[q] = <<"failed">>
    BY <1>7, <1>8, ToldOnce DEF Core!Terminal
  <2> HIDE DEF ended
  <2>2. ASSUME NEW r \in ended
        PROVE  announced'[r] \in {<<>>, <<"failed">>}
    <3>1. r \in RunIds /\ runs[r].status \notin Core!Terminal /\ announced[r] = <<>>
      BY <1>3, <1>9
    <3> QED
      BY <2>1, <3>1
  <2>3. \A r \in RunIds \ ended : announced'[r] = announced[r]
    BY <1>8, <2>1
  <2> QED
    BY <2>2, <2>3
<1>11. report' = report /\ \A t \in Sweepers : sweep'[t] \subseteq sweep[t]
  BY <1>1, <1>2 DEF Core!ReapCommit, Core!TypeOK
<1>12. PICK set \in SUBSET RunIds : set = ended
  BY <1>3
<1> HIDE DEF ended
<1>13. \A r \in set, i \in Callers : ~Holds(i, r)'
  BY <1>2, <1>5, <1>11, <1>12 DEF Holds
<1>14. "failed" \in Core!Terminal
  BY DEF Core!Terminal
<1>15. IInv' /\ Contract!End(set, "failed")
  BY <1>2, <1>6, <1>9, <1>10, <1>11, <1>12, <1>13, <1>14, EndKeeps
<1> QED
  BY <1>12, <1>14, <1>15 DEF Contract!Next

\* The other steps: requests that read or die, deliveries, and the clock.
LEMMA OtherKeeps ==
  ASSUME IInv, StoreOK', Typed',
         \/ \E i \in Callers : AbortComplete(i)
         \/ \E s \in Sweepers : ReapSelect(s) \/ AbortReap(s)
         \/ \E i \in Callers, r \in RunIds : ReceiveRequested(i, r)
         \/ \E r \in RunIds : Age(r)
         \/ UNCHANGED vars
  PROVE  IInv' /\ UNCHANGED Contract!vars
<1>1. Core!TypeOK /\ Typed
  BY StoreFacts DEF IInv
<1>2. ASSUME UNCHANGED <<runs, announced, executions>>, HeldOnce', HeldRunning'
      PROVE  IInv' /\ UNCHANGED Contract!vars
  BY <1>2, OpenKeeps DEF Contract!vars
<1>3. ASSUME NEW i \in Callers, AbortComplete(i)
      PROVE  IInv' /\ UNCHANGED Contract!vars
  <2>1. /\ report' = [report EXCEPT ![i] = Core!NoReport]
        /\ UNCHANGED <<runs, sweep, announced, inv, executions>>
    BY <1>3 DEF AbortComplete, Core!AbortComplete
  <2>2. \A c \in Callers, r \in RunIds : report'[c].run = r => report[c].run = r
    BY <1>1, <2>1, NoneAssumption DEF Core!TypeOK, Core!NoReport
  <2>3. HeldOnce' /\ \A c \in Callers, r \in RunIds : Holds(c, r)' => Holds(c, r)
    BY <2>1, <2>2, HoldersLeave
  <2>4. HeldRunning'
    BY <2>1, <2>3 DEF IInv, HeldRunning
  <2> QED
    BY <1>2, <2>1, <2>3, <2>4
<1>4. ASSUME NEW s \in Sweepers, ReapSelect(s) \/ AbortReap(s)
      PROVE  IInv' /\ UNCHANGED Contract!vars
  <2>1. UNCHANGED <<runs, report, announced, inv, executions>>
    BY <1>4 DEF ReapSelect, AbortReap, Core!ReapSelect, Core!AbortReap
  <2>2. \A t \in Sweepers, r \in RunIds :
          <<r, "running">> \in sweep'[t] => <<r, "running">> \in sweep[t] \/ runs[r].aged
    <3>1. \A t \in Sweepers :
            sweep'[t] \subseteq sweep[t] \cup {<<r, runs[r].status>> : r \in Core!Stale}
      BY <1>1, <1>4 DEF ReapSelect, AbortReap, Core!ReapSelect, Core!AbortReap, Core!TypeOK
    <3> QED
      BY <3>1 DEF Core!Stale
  <2>3. HeldOnce'
    BY <2>1 DEF IInv, HeldOnce, Holds
  <2>4. HeldRunning'
    BY <2>1, <2>2 DEF IInv, HeldRunning, Holds
  <2> QED
    BY <1>2, <2>1, <2>3, <2>4
<1>5. ASSUME NEW i \in Callers, NEW r \in RunIds, ReceiveRequested(i, r)
      PROVE  IInv' /\ UNCHANGED Contract!vars
  <2>1. inv' = [inv EXCEPT ![i] = At("checked", r)] /\ UNCHANGED <<coreVars, executions>>
    BY <1>5 DEF ReceiveRequested
  <2>2. \A j \in Callers : inv'[j].pc = "executing" => inv'[j] = inv[j]
    BY <1>1, <2>1 DEF Typed, At
  <2>3. HeldOnce' /\ \A c \in Callers, q \in RunIds : Holds(c, q)' => Holds(c, q)
    BY <2>1, <2>2, HoldersLeave DEF coreVars
  <2>4. HeldRunning'
    BY <2>1, <2>3 DEF IInv, HeldRunning, coreVars
  <2> QED
    BY <1>2, <2>1, <2>3, <2>4 DEF coreVars
<1>6. ASSUME NEW r \in RunIds, Age(r)
      PROVE  IInv' /\ UNCHANGED Contract!vars
  <2>1. UNCHANGED <<report, sweep, announced, inv, executions>>
    BY <1>6 DEF Age, Core!Age
  <2>2. /\ runs'[r].status = runs[r].status
        /\ \A q \in RunIds \ {r} : runs'[q] = runs[q]
    BY <1>1, <1>6 DEF Age, Core!Age, Core!TypeOK, Core!Run
  <2>3. \A i \in Callers : ~Holds(i, r)
    BY <1>6 DEF Age, Leased, Holds, IInv, HeldRunning
  <2>4. HeldOnce' /\ \A c \in Callers, q \in RunIds : Holds(c, q)' => Holds(c, q)
    BY <2>1, HoldersLeave
  <2>5. HeldRunning'
    BY <2>1, <2>2, <2>3, <2>4 DEF IInv, HeldRunning
  <2>6. \A q \in RunIds : runs'[q].status = runs[q].status /\ executions'[q] = executions[q]
    BY <2>1, <2>2
  <2> QED
    BY <2>1, <2>4, <2>5, <2>6, OpenKeeps DEF Contract!vars
<1>7. CASE UNCHANGED vars
  <2>1. UNCHANGED <<runs, report, sweep, announced, inv, executions>>
    BY <1>7 DEF vars, coreVars
  <2>2. HeldOnce' /\ HeldRunning'
    BY <2>1 DEF IInv, HeldOnce, HeldRunning, Holds
  <2> QED
    BY <1>2, <2>1, <2>2
<1> QED
  BY <1>3, <1>4, <1>5, <1>6, <1>7

\* The invariant is inductive, and each step is a step of OnceOnlyWork or stutters.
LEMMA IInvStep ==
  ASSUME IInv, [Next]_vars
  PROVE  IInv' /\ [Contract!Next]_(Contract!vars)
<1>1. StoreOK' /\ Typed'
  BY StoreStep, TypedStep DEF IInv
<1> QED
  BY <1>1, MakeKeeps, StepKeeps, CompleteKeeps, ReapKeeps, OtherKeeps DEF Next

-----------------------------------------------------------------------------

\* Everything the theorems below rest on holds in every reachable state.
THEOREM Invariant == Spec => []IInv
<1>1. IInv /\ [Next]_vars => IInv'
  BY IInvStep
<1> QED
  BY <1>1, IInvInit, PTL DEF Spec

\* The type invariant holds for every set of runs, invocations and sweeps.
THEOREM TypeCorrect == Spec => []TypeOK
<1>1. IInv => TypeOK
  BY StoreFacts DEF IInv, Typed, TypeOK
<1> QED
  BY <1>1, Invariant, PTL

\* However often a request is delivered and whatever dies or is swept meanwhile,
\* subscribers are told at most once how a run ended, and told what its row says.
THEOREM AnnouncedOnce == Spec => []AnnouncedOutcomeIsTheOutcome
BY Invariant, PTL DEF IInv

\* The runtime and Core's store together implement OnceOnlyWork: of N deliveries
\* of a request one executes the run, none does once it has ended, and its end stays.
THEOREM PaidOnce == Spec => PaidOnceAndFinal
<1>1. Init => Contract!Init
  BY DEF Init, Contract!Init, Outcome, Core!Init, Core!NoRun, Core!Terminal
<1>2. IInv /\ [Next]_vars => [Contract!Next]_(Contract!vars)
  BY IInvStep
<1> QED
  BY <1>1, <1>2, Invariant, PTL DEF Spec, PaidOnceAndFinal, Contract!Spec
=============================================================================
