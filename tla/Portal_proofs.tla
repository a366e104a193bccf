--------------------------- MODULE Portal_proofs ---------------------------
(* Proofs about the portal: the workflow editor, the forms that edit records,
   the views and the sign-in. *)
EXTENDS WorkflowEditor, PortalForms, PortalViews, PortalSession, TLAPS

-----------------------------------------------------------------------------
(* WorkflowEditor: an agent workflow is enabled only as it was
   tested, and no test keeps the page waiting for nothing, for every prompt,
   every number of workflows, edits and requests. *)

\* What the form and a request are made of.
EditorShaped(f) ==
  /\ {"def", "enabled", "schedule", "scope", "sample", "assist", "test", "poll", "busy"} \subseteq DOMAIN f
  /\ {"testing", "result", "error", "tested"} \subseteq DOMAIN f.test
  /\ f.test.tested # "none" => "snapshot" \in DOMAIN f.test
Sendable(r) == {"n", "kind", "id", "body", "shown"} \subseteq DOMAIN r
Shapes == EditorShaped(form) /\ \A r \in requests : Sendable(r)

\* What the panel calls tested is a definition that a dry run has passed on.
TestedHasPassed == form.test.tested # "none" => form.test.snapshot \in passed

EditorInv == Shapes /\ TestedHasPassed /\ EnabledOnlyAsTested /\ NoTestIsStuck
-----------------------------------------------------------------------------

\* A form without a test.
LEMMA EmptyIsUntested == EditorShaped(EmptyForm) /\ EmptyForm.test = Untested
BY DEF EditorShaped, EmptyForm, Untested
LEMMA UntestedIsFresh == Untested.tested = "none" /\ Untested.testing = FALSE
BY DEF Untested

LEMMA EditorInitially == EditorInit => EditorInv
BY EmptyIsUntested, UntestedIsFresh
   DEF EditorInit, EditorInv, Shapes, TestedHasPassed, EnabledOnlyAsTested, NoTestIsStuck

\* A step that leaves the test and its owner alone, or drops the test, sends nothing that
\* saves, and ends no request the panel waits for.
LEMMA QuietStep ==
  ASSUME EditorInv,
         EditorShaped(form'), form'.poll = form.poll, form'.test \in {form.test, Untested},
         passed' = passed,
         \A r \in requests' \ requests : Sendable(r) /\ r.kind # "save",
         \A r \in requests \ requests' : r.kind \in {"start", "poll"} => ~Owns(r)
  PROVE  EditorInv'
<1>1. Shapes' /\ TestedHasPassed'
  BY UntestedIsFresh DEF EditorInv, Shapes, TestedHasPassed
<1>2. EnabledOnlyAsTested'
  BY DEF EditorInv, EnabledOnlyAsTested
<1>3. NoTestIsStuck'
  <2> SUFFICES ASSUME form'.test.testing
               PROVE  \E r \in requests' : r.kind \in {"start", "poll"} /\ r.n = form'.poll
    BY DEF NoTestIsStuck, Owns
  <2>1. PICK r \in requests : r.kind \in {"start", "poll"} /\ Owns(r)
    BY UntestedIsFresh DEF EditorInv, NoTestIsStuck
  <2> QED
    BY <2>1 DEF Owns
<1> QED
  BY <1>1, <1>2, <1>3 DEF EditorInv

-----------------------------------------------------------------------------
(* The form *)

\* What is typed leaves the test alone, or drops it.
LEMMA EditorTypingKeeps ==
  ASSUME EditorInv, NEW new, Type(new),
         EditorShaped(new), new.poll = form.poll, new.test \in {form.test, Untested}
  PROVE  EditorInv'
<1>1. PICK d, sample : form' = [new EXCEPT !.def = d, !.sample = sample]
  BY DEF Type
<1>2. EditorShaped(form') /\ form'.poll = form.poll /\ form'.test = new.test
  BY <1>1 DEF EditorShaped
<1>3. UNCHANGED <<requests, passed>>
  BY DEF Type
<1> QED
  BY <1>2, <1>3, QuietStep

LEMMA ConfiguringKeeps ==
  ASSUME EditorInv, NEW c, Configure(c)
  PROVE  EditorInv'
<1> DEFINE new == [form EXCEPT !.def.config = c]
<1>1. Type(new)
  BY DEF Configure
<1>2. EditorShaped(new) /\ new.poll = form.poll /\ new.test = form.test
  BY DEF EditorInv, Shapes, EditorShaped
<1> QED
  BY <1>1, <1>2, EditorTypingKeeps

\* The fields of the form.
LEMMA EditsKeep ==
  ASSUME EditorInv,
         \/ EditName \/ EditTrigger \/ EditConditions \/ PickAction \/ EditPrompt
         \/ ApplyPreset \/ OpenAssistant \/ AcceptDraft \/ SelectDelivery \/ SetWriteBack
         \/ EditSchedule \/ EditScope \/ EditEnabled \/ EditSample
  PROVE  EditorInv'
<1>1. CASE EditPrompt \/ ApplyPreset \/ SelectDelivery \/ SetWriteBack
  <2>1. CASE EditPrompt
    <3>1. \E new : Configure([form.def.config EXCEPT !.prompt = new])
      BY <2>1 DEF EditPrompt
    <3> QED
      BY <3>1, ConfiguringKeeps
  <2>2. CASE ApplyPreset
    <3>1. Configure([form.def.config EXCEPT !.prompt = <<"preset">>])
      BY <2>2 DEF ApplyPreset
    <3> QED
      BY <3>1, ConfiguringKeeps
  <2>3. CASE SelectDelivery
    <3>1. \E d : Configure([form.def.config EXCEPT !.delivery = d, !.text = ""])
      BY <2>3 DEF SelectDelivery
    <3> QED
      BY <3>1, ConfiguringKeeps
  <2>4. CASE SetWriteBack
    <3>1. \E w : Configure([form.def.config EXCEPT !.writeback = w])
      BY <2>4 DEF SetWriteBack
    <3> QED
      BY <3>1, ConfiguringKeeps
  <2> QED
    BY <1>1, <2>1, <2>2, <2>3, <2>4
<1>2. CASE EditName \/ EditTrigger \/ EditConditions \/ PickAction
  <2>1. PICK new : Type(new) /\ EditorShaped(new) /\ new.poll = form.poll /\ new.test \in {form.test, Untested}
    <3>1. CASE EditName
      <4> DEFINE Edited(n) == [form EXCEPT !.def.name = n]
      <4>1. PICK n : Type(Edited(n))
        BY <3>1 DEF EditName
      <4>2. EditorShaped(Edited(n)) /\ Edited(n).poll = form.poll /\ Edited(n).test = form.test
        BY DEF EditorInv, Shapes, EditorShaped
      <4> HIDE DEF Edited
      <4> QED
        BY <4>1, <4>2
    <3>2. CASE EditTrigger
      <4> DEFINE Edited(t) == [form EXCEPT !.def.trigger = t]
      <4>1. PICK t : Type(Edited(t))
        BY <3>2 DEF EditTrigger
      <4>2. EditorShaped(Edited(t)) /\ Edited(t).poll = form.poll /\ Edited(t).test = form.test
        BY DEF EditorInv, Shapes, EditorShaped
      <4> HIDE DEF Edited
      <4> QED
        BY <4>1, <4>2
    <3>3. CASE EditConditions
      <4> DEFINE Edited(c) == [form EXCEPT !.def.filter = c]
      <4>1. PICK c : Type(Edited(c))
        BY <3>3 DEF EditConditions
      <4>2. EditorShaped(Edited(c)) /\ Edited(c).poll = form.poll /\ Edited(c).test = form.test
        BY DEF EditorInv, Shapes, EditorShaped
      <4> HIDE DEF Edited
      <4> QED
        BY <4>1, <4>2
    <3>4. CASE PickAction
      <4> DEFINE Picked(a) == [form EXCEPT !.def.action = a, !.def.config = DefaultConfig,
                                           !.test = Untested]
      <4>1. PICK a : Type(Picked(a))
        BY <3>4 DEF PickAction
      <4>2. EditorShaped(Picked(a)) /\ Picked(a).poll = form.poll /\ Picked(a).test = Untested
        BY EmptyIsUntested, UntestedIsFresh DEF EditorInv, Shapes, EditorShaped, EmptyForm
      <4> HIDE DEF Picked
      <4> QED
        BY <4>1, <4>2
    <3> QED
      BY <1>2, <3>1, <3>2, <3>3, <3>4
  <2> QED
    BY <2>1, EditorTypingKeeps
<1>3. CASE OpenAssistant \/ AcceptDraft \/ EditSchedule \/ EditScope \/ EditEnabled \/ EditSample
  <2>1. PICK new : Type(new) /\ EditorShaped(new) /\ new.poll = form.poll /\ new.test = form.test
    <3>1. CASE OpenAssistant
      <4> DEFINE new == [form EXCEPT !.assist = TRUE]
      <4>1. Type(new)
        BY <3>1 DEF OpenAssistant
      <4>2. EditorShaped(new) /\ new.poll = form.poll /\ new.test = form.test
        BY DEF EditorInv, Shapes, EditorShaped
      <4> HIDE DEF new
      <4> QED
        BY <4>1, <4>2
    <3>2. CASE AcceptDraft
      <4> DEFINE new == [form EXCEPT !.assist = FALSE, !.def.config.prompt = Append(@, "draft")]
      <4>1. Type(new)
        BY <3>2 DEF AcceptDraft
      <4>2. EditorShaped(new) /\ new.poll = form.poll /\ new.test = form.test
        BY DEF EditorInv, Shapes, EditorShaped
      <4> HIDE DEF new
      <4> QED
        BY <4>1, <4>2
    <3>3. CASE EditSchedule
      <4> DEFINE Delayed(d) == [form EXCEPT !.schedule = "on", !.delay = d]
      <4>1. PICK d : Type(Delayed(d))
        BY <3>3 DEF EditSchedule
      <4>2. EditorShaped(Delayed(d)) /\ Delayed(d).poll = form.poll /\ Delayed(d).test = form.test
        BY DEF EditorInv, Shapes, EditorShaped
      <4> HIDE DEF Delayed
      <4> QED
        BY <4>1, <4>2
    <3>4. CASE EditScope
      BY <3>4 DEF EditScope, EditorInv, Shapes, EditorShaped
    <3>5. CASE EditEnabled
      BY <3>5 DEF EditEnabled, EditorInv, Shapes, EditorShaped
    <3>6. CASE EditSample
      <4> DEFINE Edited(x) == [form EXCEPT !.sample = x]
      <4>1. PICK x : Type(Edited(x))
        BY <3>6 DEF EditSample
      <4>2. EditorShaped(Edited(x)) /\ Edited(x).poll = form.poll /\ Edited(x).test = form.test
        BY DEF EditorInv, Shapes, EditorShaped
      <4> HIDE DEF Edited
      <4> QED
        BY <4>1, <4>2
    <3> QED
      BY <1>3, <3>1, <3>2, <3>3, <3>4, <3>5, <3>6
  <2> QED
    BY <2>1, EditorTypingKeeps
<1> QED
  BY <1>1, <1>2, <1>3

\* A form that replaces another leaves the poll running and has no test of its own.
LEMMA ReplacedForm ==
  ASSUME EditorInv
  PROVE  /\ EditorShaped(ResetForm(form)) /\ ResetForm(form).poll = form.poll /\ ResetForm(form).test = Untested
         /\ \A id, w : LET f == FormFor(form, id, w)
                       IN  EditorShaped(f) /\ f.poll = form.poll /\ f.test = Untested
<1>1. ASSUME NEW new, EditorShaped(new), new.test = Untested
      PROVE  LET f == Cleared(form, new)
             IN  EditorShaped(f) /\ f.poll = form.poll /\ f.test = Untested
  BY <1>1 DEF Cleared, EditorShaped, Untested
<1>2. ASSUME NEW id, NEW w
      PROVE  LET f == FormFor(form, id, w)
             IN  EditorShaped(f) /\ f.poll = form.poll /\ f.test = Untested
  <2> DEFINE new == [EmptyForm EXCEPT !.id = id, !.def = w.def, !.enabled = w.enabled,
                               !.schedule = IF w.schedule = "none" THEN "off" ELSE "on",
                               !.delay = IF w.schedule = "none" THEN @ ELSE w.schedule,
                               !.scope = IF w.scope = "" THEN "off" ELSE "on",
                               !.scopeId = w.scope]
  <2>1. EditorShaped(new) /\ new.test = Untested
    BY EmptyIsUntested DEF EditorShaped
  <2>2. FormFor(form, id, w) = Cleared(form, new)
    BY DEF FormFor
  <2> HIDE DEF new
  <2> QED
    BY <1>1, <2>1, <2>2
<1>3. EditorShaped(ResetForm(form)) /\ ResetForm(form).poll = form.poll /\ ResetForm(form).test = Untested
  BY <1>1, EmptyIsUntested DEF ResetForm
<1> QED
  BY <1>2, <1>3

LEMMA ReplacingKeeps ==
  ASSUME EditorInv, Cancel \/ LoadForEdit
  PROVE  EditorInv'
<1>1. UNCHANGED <<requests, passed>>
  BY DEF Cancel, LoadForEdit
<1>2. EditorShaped(form') /\ form'.poll = form.poll /\ form'.test = Untested
  BY ReplacedForm DEF Cancel, LoadForEdit
<1> QED
  BY <1>1, <1>2, QuietStep

-----------------------------------------------------------------------------
(* Requests *)

\* What is sent enabled has passed: the form's definition is the one that was tested.
LEMMA EditorSubmitKeeps ==
  ASSUME EditorInv, SubmitForm
  PROVE  EditorInv'
<1>1. PICK enabled \in BOOLEAN :
        /\ IF IsAgent THEN enabled => CanEnable ELSE enabled = form.enabled
        /\ Send(Request("save", form.id, FormBody(form, enabled)))
  BY DEF SubmitForm
<1>2. /\ form' = [form EXCEPT !.busy = TRUE]
      /\ passed' = passed
  BY DEF SubmitForm
<1> DEFINE new == [Request("save", form.id, FormBody(form, enabled)) EXCEPT !.n = sent + 1]
<1>3. requests' = requests \cup {new}
  BY <1>1 DEF Send
<1>4. Sendable(new) /\ new.kind = "save" /\ new.shown = form.def /\ new.body.enabled = enabled
  BY DEF Request, FormBody, Sendable
<1>5. EditorShaped(form') /\ form'.poll = form.poll /\ form'.test = form.test
  BY <1>2 DEF EditorInv, Shapes, EditorShaped
<1> HIDE DEF new
<1>6. Shapes' /\ TestedHasPassed'
  BY <1>2, <1>3, <1>4, <1>5 DEF EditorInv, Shapes, TestedHasPassed
<1>7. new.body.enabled /\ new.shown.action = "agent" => new.shown \in passed
  BY <1>1, <1>4 DEF IsAgent, CanEnable, TestPassed, EditorInv, TestedHasPassed
<1>8. EnabledOnlyAsTested'
  BY <1>2, <1>3, <1>7 DEF EditorInv, EnabledOnlyAsTested
<1>9. NoTestIsStuck'
  BY <1>3, <1>5 DEF EditorInv, NoTestIsStuck, Owns
<1> QED
  BY <1>6, <1>8, <1>9 DEF EditorInv

\* The rows' buttons, and the answers that are not about a test.
LEMMA TablesKeep ==
  ASSUME EditorInv,
         RowButton \/ WorkflowSaved \/ RowAnswers \/ WorkflowsArrive \/ LoadMoreRuns \/ MoreRunsAnswer
  PROVE  EditorInv'
<1>1. passed' = passed
  BY DEF RowButton, WorkflowSaved, RowAnswers, WorkflowsArrive, LoadMoreRuns, MoreRunsAnswer
<1>2. EditorShaped(form) /\ EditorShaped([form EXCEPT !.busy = FALSE])
      /\ [form EXCEPT !.busy = FALSE].poll = form.poll /\ [form EXCEPT !.busy = FALSE].test = form.test
  BY DEF EditorInv, Shapes, EditorShaped
<1>3. EditorShaped(form') /\ form'.poll = form.poll /\ form'.test \in {form.test, Untested}
  BY <1>2, ReplacedForm
     DEF RowButton, WorkflowSaved, RowAnswers, WorkflowsArrive, LoadMoreRuns, MoreRunsAnswer
<1>4. CASE RowButton \/ LoadMoreRuns
  <2>1. PICK r, k : Sendable(r) /\ r.kind # "save" /\ requests' = requests \cup {[r EXCEPT !.n = k]}
    <3>1. CASE RowButton
      <4>1. PICK kind \in {"toggle", "delete"}, id \in DOMAIN table.rows : \E body : Send(Request(kind, id, body))
        BY <3>1 DEF RowButton
      <4>2. PICK body : Send(Request(kind, id, body))
        BY <4>1
      <4> QED
        BY <4>2 DEF Send, Request, Sendable
    <3>2. CASE LoadMoreRuns
      <4>1. Send([ReloadWorkflows EXCEPT !.kind = "more runs"])
        BY <3>2 DEF LoadMoreRuns
      <4> QED
        BY <4>1 DEF Send, ReloadWorkflows, Sendable
    <3> QED
      BY <1>4, <3>1, <3>2
  <2>2. Sendable([r EXCEPT !.n = k]) /\ [r EXCEPT !.n = k].kind # "save"
    BY <2>1 DEF Sendable
  <2> QED
    BY <1>1, <1>3, <2>1, <2>2, QuietStep
<1>5. CASE WorkflowSaved \/ RowAnswers \/ WorkflowsArrive \/ MoreRunsAnswer
  <2>1. PICK r \in requests :
          /\ r.kind \in {"save", "toggle", "delete", "reload", "more runs"}
          /\ \/ requests' = requests \ {r}
             \/ requests' = (requests \ {r}) \cup {[ReloadWorkflows EXCEPT !.n = r.n, !.id = "of save"]}
             \/ requests' = (requests \ {r}) \cup {[ReloadWorkflows EXCEPT !.n = r.n]}
    BY <1>5 DEF WorkflowSaved, RowAnswers, WorkflowsArrive, MoreRunsAnswer
  <2>2. \A n : LET q == [ReloadWorkflows EXCEPT !.n = n, !.id = "of save"]
                   p == [ReloadWorkflows EXCEPT !.n = n]
               IN  Sendable(q) /\ q.kind # "save" /\ Sendable(p) /\ p.kind # "save"
    BY DEF ReloadWorkflows, Sendable
  <2> QED
    BY <1>1, <1>3, <2>1, <2>2, QuietStep
<1> QED
  BY <1>4, <1>5

-----------------------------------------------------------------------------
(* The dry run *)

\* A test that starts takes the panel and is asked for.
LEMMA RunTestKeeps ==
  ASSUME EditorInv, RunTest
  PROVE  EditorInv'
<1>0. passed' = passed
  BY DEF RunTest
<1>1. CASE /\ Send(Request("start", form.id, NoWorkflow))
           /\ form' = [form EXCEPT !.test.testing = TRUE, !.test.error = FALSE, !.test.result = "",
                                   !.poll = sent + 1]
  <2> DEFINE new == [Request("start", form.id, NoWorkflow) EXCEPT !.n = sent + 1]
  <2>1. requests' = requests \cup {new}
    BY <1>1 DEF Send
  <2>2. Sendable(new) /\ new.kind = "start" /\ new.n = sent + 1
    BY DEF Request, Sendable
  <2>3. /\ EditorShaped(form') /\ form'.poll = sent + 1
        /\ form'.test.tested = form.test.tested
        /\ form.test.tested # "none" => form'.test.snapshot = form.test.snapshot
    BY <1>1 DEF EditorInv, Shapes, EditorShaped
  <2> HIDE DEF new
  <2> QED
    BY <1>0, <2>1, <2>2, <2>3
       DEF EditorInv, Shapes, TestedHasPassed, EnabledOnlyAsTested, NoTestIsStuck, Owns
<1>2. CASE /\ form' = [form EXCEPT !.test.error = TRUE, !.test.result = ""]
           /\ UNCHANGED requests
  <2>1. /\ EditorShaped(form') /\ form'.poll = form.poll
        /\ form'.test.tested = form.test.tested /\ form'.test.testing = form.test.testing
        /\ form.test.tested # "none" => form'.test.snapshot = form.test.snapshot
    BY <1>2 DEF EditorInv, Shapes, EditorShaped
  <2> QED
    BY <1>0, <1>2, <2>1
       DEF EditorInv, Shapes, TestedHasPassed, EnabledOnlyAsTested, NoTestIsStuck, Owns
<1> QED
  BY <1>1, <1>2 DEF RunTest

\* A start that is accepted is asked for under the same number.
LEMMA StartKeeps ==
  ASSUME EditorInv, StartAnswers
  PROVE  EditorInv'
<1>1. PICK r \in requests :
        /\ r.kind = "start"
        /\ requests' = (requests \ {r}) \cup IF Owns(r) THEN {[r EXCEPT !.kind = "poll"]} ELSE {}
  BY DEF StartAnswers
<1>2. UNCHANGED <<form, passed>>
  BY DEF StartAnswers
<1>3. CASE ~Owns(r)
  BY <1>1, <1>2, <1>3, QuietStep DEF EditorInv, Shapes
<1>4. CASE Owns(r)
  <2> DEFINE new == [r EXCEPT !.kind = "poll"]
  <2>1. Sendable(new) /\ new.kind = "poll" /\ new.n = r.n
    BY <1>1 DEF EditorInv, Shapes, Sendable
  <2>2. requests' = (requests \ {r}) \cup {new}
    BY <1>1, <1>4
  <2> HIDE DEF new
  <2> QED
    BY <1>2, <1>4, <2>1, <2>2
       DEF EditorInv, Shapes, TestedHasPassed, EnabledOnlyAsTested, NoTestIsStuck, Owns
<1> QED
  BY <1>3, <1>4

\* What a test's end does to the panel: only its owner stops the testing.
LEMMA EndKeeps ==
  ASSUME EditorInv, NEW r \in requests, NEW f, EditorShaped(f), f.poll = form.poll,
         f.test.testing = form.test.testing,
         f.test.tested # "none" => f.test.snapshot \in passed',
         form' = Ends(f, r), requests' = requests \ {r}, passed \subseteq passed'
  PROVE  EditorInv'
<1>1. /\ EditorShaped(form') /\ form'.test.tested = f.test.tested
      /\ f.test.tested # "none" => form'.test.snapshot = f.test.snapshot
      /\ Owns(r) => form'.test.testing = FALSE
      /\ ~Owns(r) => form' = f
  BY DEF Ends, EditorShaped
<1>2. Shapes' /\ TestedHasPassed' /\ EnabledOnlyAsTested'
  BY <1>1 DEF EditorInv, Shapes, TestedHasPassed, EnabledOnlyAsTested
<1>3. NoTestIsStuck'
  BY <1>1 DEF EditorInv, NoTestIsStuck, Owns
<1> QED
  BY <1>2, <1>3 DEF EditorInv

LEMMA EndsKeep ==
  ASSUME EditorInv, RunStops \/ PollIsAbandoned \/ RunCompletes
  PROVE  EditorInv'
<1> DEFINE failed == [form EXCEPT !.test.error = TRUE]
<1>1. /\ EditorShaped(form) /\ EditorShaped(failed) /\ failed.poll = form.poll
      /\ failed.test.testing = form.test.testing /\ failed.test.tested = form.test.tested
      /\ form.test.tested # "none" => failed.test.snapshot = form.test.snapshot
  BY DEF EditorInv, Shapes, EditorShaped
<1>2. CASE PollIsAbandoned
  BY <1>1, <1>2, QuietStep DEF PollIsAbandoned
<1>3. CASE RunStops
  <2>1. PICK r \in requests :
          /\ requests' = requests \ {r}
          /\ form' = Ends(IF Owns(r) THEN failed ELSE form, r)
    BY <1>3 DEF RunStops
  <2>2. passed' = passed
    BY <1>3 DEF RunStops
  <2> HIDE DEF failed
  <2> QED
    BY <1>1, <2>1, <2>2, EndKeeps DEF EditorInv, TestedHasPassed
<1>4. CASE RunCompletes
  <2>1. PICK r \in requests :
          /\ requests' = requests \ {r}
          /\ \/ /\ form' = Ends([form EXCEPT !.test = [testing |-> @.testing, error |-> @.error, result |-> r.id,
                                                       tested |-> "a run", snapshot |-> SnapshotAtSend(r)]], r)
                /\ passed' = passed \cup {r.shown}
             \/ form' = Ends(failed, r) /\ UNCHANGED passed
    BY <1>4 DEF RunCompletes
  <2>2. CASE form' = Ends(failed, r) /\ UNCHANGED passed
    <3> HIDE DEF failed
    <3> QED
      BY <1>1, <2>1, <2>2, EndKeeps DEF EditorInv, TestedHasPassed
  <2>3. CASE /\ form' = Ends([form EXCEPT !.test = [testing |-> @.testing, error |-> @.error, result |-> r.id,
                                                    tested |-> "a run", snapshot |-> SnapshotAtSend(r)]], r)
             /\ passed' = passed \cup {r.shown}
    <3> DEFINE tested == [form EXCEPT !.test = [testing |-> @.testing, error |-> @.error, result |-> r.id,
                                                tested |-> "a run", snapshot |-> SnapshotAtSend(r)]]
    <3>1. /\ EditorShaped(tested) /\ tested.poll = form.poll /\ tested.test.testing = form.test.testing
          /\ tested.test.snapshot = r.shown
      BY <1>1 DEF EditorShaped, SnapshotAtSend
    <3>2. form' = Ends(tested, r)
      BY <2>3
    <3> HIDE DEF tested
    <3> QED
      BY <2>1, <2>3, <3>1, <3>2, EndKeeps
  <2> QED
    BY <2>1, <2>2, <2>3
<1> QED
  BY <1>2, <1>3, <1>4

-----------------------------------------------------------------------------

LEMMA EditorStep == EditorInv /\ [EditorNext]_editorVars => EditorInv'
<1> SUFFICES ASSUME EditorInv, [EditorNext]_editorVars
             PROVE  EditorInv'
  OBVIOUS
<1>1. CASE UNCHANGED editorVars
  BY <1>1 DEF editorVars, EditorInv, Shapes, TestedHasPassed, EnabledOnlyAsTested, NoTestIsStuck, Owns
<1>2. CASE EditorNext
  BY <1>2, EditsKeep, ReplacingKeeps, EditorSubmitKeeps, TablesKeep, RunTestKeeps, StartKeeps, EndsKeep
     DEF EditorNext
<1> QED
  BY <1>1, <1>2

LEMMA EditorHolds == EditorSpec => []EditorInv
<1> QED
  BY EditorInitially, EditorStep, PTL DEF EditorSpec

(* An agent workflow that the form sends to Core enabled is one that a dry run
   has passed on, whatever was edited, loaded or tested meanwhile. *)
THEOREM EnabledIsTested == EditorSpec => []EnabledOnlyAsTested
<1>1. EditorInv => EnabledOnlyAsTested
  BY DEF EditorInv
<1> QED
  BY <1>1, EditorHolds, PTL

(* While the page says it is testing, the run that will end the test is asked for. *)
THEOREM TestsEnd == EditorSpec => []NoTestIsStuck
<1>1. EditorInv => NoTestIsStuck
  BY DEF EditorInv
<1> QED
  BY <1>1, EditorHolds, PTL

-----------------------------------------------------------------------------
(* PortalForms: no save mixes two forms, for any records and any
   number of forms, inputs and requests. *)

Windows == {"create", "edit"}

\* What a form is made of, and that its fields were set in the form that is open: the n-th
\* one that was opened, for some n up to m.
FormShaped(shown) ==
  /\ DOMAIN shown = {"target", "fields", "busy"}
  /\ DOMAIN shown.fields = Fields
  /\ \A f \in Fields : "born" \in DOMAIN shown.fields[f]
OfOneForm(fields, target, m) == \E n \in 0..m : \A f \in Fields : fields[f].born = <<n, target>>
Good(shown, m) == FormShaped(shown) /\ (shown.target = "none" \/ OfOneForm(shown.fields, shown.target, m))
GoodEditor(e, m) == DOMAIN e = Windows /\ \A w \in Windows : Good(e[w], m)

IsSave(c) == c.kind \in {"organization", "save"}
SavesOneForm == \A c \in inFlight : IsSave(c) => OfOneForm(c.body, c.target, opens)

FormsInv == opens \in 0..MaxOpens /\ GoodEditor(editor, opens) /\ SavesOneForm
-----------------------------------------------------------------------------
(* Forms *)

LEMMA NoFormIsGood == ASSUME NEW m \in Nat, NEW busy
                      PROVE  Good(NoForm, m) /\ Good([NoForm EXCEPT !.busy = busy], m)
BY DEF NoForm, Good, FormShaped

LEMMA FormOfIsGood ==
  ASSUME NEW old, NEW t, NEW m \in Nat
  PROVE  /\ Good(FormOf(old, t, m), m) /\ Good([FormOf(old, t, m) EXCEPT !.busy = FALSE], m)
<1>1. m \in 0..m
  OBVIOUS
<1>2. FormShaped(FormOf(old, t, m)) /\ FormShaped([FormOf(old, t, m) EXCEPT !.busy = FALSE])
  BY DEF FormOf, FormShaped
<1>3. /\ \A f \in Fields : FormOf(old, t, m).fields[f].born = <<m, t>>
      /\ FormOf(old, t, m).target = t
  BY DEF FormOf
<1>4. /\ [FormOf(old, t, m) EXCEPT !.busy = FALSE].fields = FormOf(old, t, m).fields
      /\ [FormOf(old, t, m) EXCEPT !.busy = FALSE].target = t
  BY DEF FormOf
<1> QED
  BY <1>1, <1>2, <1>3, <1>4 DEF Good, OfOneForm

LEMMA AfterCancelIsGood == ASSUME NEW m \in Nat PROVE Good(AfterCancel(m), m)
BY NoFormIsGood, FormOfIsGood DEF AfterCancel

\* A form that stays open stays good when others are opened.
LEMMA GoodLater ==
  ASSUME NEW shown, NEW m \in Nat, NEW k \in Nat, m <= k, Good(shown, m)
  PROVE  Good(shown, k)
BY DEF Good, OfOneForm

\* One of the two forms is replaced.
LEMMA ReplaceForm ==
  ASSUME NEW m \in Nat, NEW k \in Nat, m <= k, GoodEditor(editor, m),
         NEW w \in Windows, NEW new, Good(new, k)
  PROVE  GoodEditor([editor EXCEPT ![w] = new], k)
BY GoodLater DEF GoodEditor

\* A button is disabled or enabled.
LEMMA BusyKeeps ==
  ASSUME NEW m \in Nat, GoodEditor(editor, m), NEW w, NEW busy
  PROVE  GoodEditor([editor EXCEPT ![w].busy = busy], m)
<1> DEFINE new == [editor[w] EXCEPT !.busy = busy]
<1>1. CASE w \in Windows
  <2>1. Good(new, m)
    BY <1>1 DEF GoodEditor, Good, FormShaped
  <2>2. [editor EXCEPT ![w].busy = busy] = [editor EXCEPT ![w] = new]
    OBVIOUS
  <2> HIDE DEF new
  <2> QED
    BY <1>1, <2>1, <2>2, ReplaceForm
<1>2. CASE w \notin Windows
  <2>1. DOMAIN editor = Windows
    BY DEF GoodEditor
  <2>2. /\ DOMAIN [editor EXCEPT ![w].busy = busy] = Windows
        /\ \A v \in Windows : [editor EXCEPT ![w].busy = busy][v] = editor[v]
    BY <1>2, <2>1
  <2> QED
    BY <2>2 DEF GoodEditor
<1> QED
  BY <1>1, <1>2

\* What is put in keeps the form it is put in.
LEMMA InputKeeps ==
  ASSUME NEW m \in Nat, GoodEditor(editor, m), NEW w \in Windows, NEW f \in Fields, NEW v, Input(w, f, v)
  PROVE  GoodEditor(editor', m)
<1> DEFINE new == [editor[w] EXCEPT !.fields[f] = [born |-> @.born, value |-> v]]
<1>1. Good(new, m)
  <2>1. Good(editor[w], m)
    BY DEF GoodEditor
  <2>2. /\ DOMAIN new = {"target", "fields", "busy"} /\ DOMAIN new.fields = Fields
        /\ new.target = editor[w].target
        /\ \A g \in Fields : new.fields[g].born = editor[w].fields[g].born
    BY <2>1 DEF Good, FormShaped
  <2>3. \A g \in Fields : "born" \in DOMAIN new.fields[g]
    BY <2>1 DEF Good, FormShaped
  <2> HIDE DEF new
  <2> QED
    BY <2>1, <2>2, <2>3 DEF Good, FormShaped, OfOneForm
<1>2. editor' = [editor EXCEPT ![w] = new]
  BY DEF Input, GoodEditor
<1>3. GoodEditor([editor EXCEPT ![w] = new], m)
  BY <1>1, ReplaceForm
<1> HIDE DEF new
<1> QED
  BY <1>2, <1>3
-----------------------------------------------------------------------------
(* Steps *)

\* A save carries what another one carried, or what a form holds.
Carried(c) ==
  IsSave(c) =>
    \/ \E d \in inFlight : IsSave(d) /\ d.target = c.target /\ d.body = c.body
    \/ \E w \in Windows : editor[w].target # "none" /\ c.target = editor[w].target
                          /\ c.body = editor[w].fields

LEMMA StepKeeps ==
  ASSUME FormsInv, opens' \in opens..MaxOpens, GoodEditor(editor', opens'),
         \A c \in inFlight' : Carried(c)
  PROVE  FormsInv'
<1>1. opens' \in 0..MaxOpens /\ opens \in Nat /\ opens' \in Nat /\ opens <= opens'
  BY MaxOpensAssumption DEF FormsInv
<1>2. ASSUME NEW c \in inFlight', IsSave(c)
      PROVE  OfOneForm(c.body, c.target, opens)
  BY <1>2 DEF Carried, FormsInv, SavesOneForm, GoodEditor, Good
<1>3. SavesOneForm'
  BY <1>1, <1>2 DEF SavesOneForm, OfOneForm, IsSave
<1> QED
  BY <1>1, <1>3 DEF FormsInv

\* What is neither opened, nor put in, nor saved.
LEMMA IdleStep ==
  ASSUME FormsInv, UNCHANGED <<editor, opens>>, \A c \in inFlight' \ inFlight : ~IsSave(c)
  PROVE  FormsInv'
<1>1. opens' \in opens..MaxOpens /\ GoodEditor(editor', opens')
  BY DEF FormsInv
<1>2. \A c \in inFlight' : Carried(c)
  BY DEF Carried
<1> QED
  BY <1>1, <1>2, StepKeeps

LEMMA OpeningKeeps == ASSUME FormsInv, OpenRow \/ CancelEdit PROVE FormsInv'
<1>1. opens' \in opens..MaxOpens /\ opens' \in Nat /\ opens \in Nat /\ opens <= opens'
  BY MaxOpensAssumption DEF OpenRow, CancelEdit, Opens, FormsInv
<1>2. inFlight' = inFlight
  BY DEF OpenRow, CancelEdit
<1>3. PICK new : editor' = [editor EXCEPT !.edit = new] /\ Good(new, opens')
  BY <1>1, AfterCancelIsGood, FormOfIsGood DEF OpenRow, CancelEdit
<1>4. GoodEditor(editor', opens')
  BY <1>1, <1>3, ReplaceForm DEF FormsInv, Windows
<1>5. \A c \in inFlight' : Carried(c)
  BY <1>2 DEF Carried
<1> QED
  BY <1>1, <1>4, <1>5, StepKeeps

LEMMA FormTypingKeeps == ASSUME FormsInv, Fill \/ CloseDrawer PROVE FormsInv'
<1>1. UNCHANGED <<inFlight, opens>>
  BY DEF Fill, CloseDrawer
<1>2. opens \in Nat /\ opens \in opens..MaxOpens
  BY MaxOpensAssumption DEF FormsInv
<1>3. \/ editor' = editor
      \/ \E w \in Windows, f \in Fields : \E v : Input(w, f, v)
  BY DEF Fill, CloseDrawer, Windows, Fields
<1>4. GoodEditor(editor', opens)
  BY <1>2, <1>3, InputKeeps DEF FormsInv
<1>5. \A c \in inFlight' : Carried(c)
  BY <1>1 DEF Carried
<1> QED
  BY <1>1, <1>2, <1>4, <1>5, StepKeeps

LEMMA FormSubmitKeeps == ASSUME FormsInv, Submit PROVE FormsInv'
<1>0. opens' = opens
  BY DEF Submit
<1>1. opens' = opens /\ opens \in Nat /\ opens \in opens..MaxOpens
  BY <1>0, MaxOpensAssumption DEF FormsInv
<1> DEFINE Kind(w) == IF editor[w].fields["organization"].value = "added" THEN "organization" ELSE "save"
<1>2. PICK w \in Windows :
        /\ editor[w].target # "none"
        /\ editor' = [editor EXCEPT ![w].busy = TRUE]
        /\ Sends(Pending(Kind(w), w, editor[w].target, editor[w].fields))
  BY DEF Submit, Windows
<1> HIDE DEF Kind
<1>3. GoodEditor(editor', opens')
  <2>1. GoodEditor([editor EXCEPT ![w].busy = TRUE], opens)
    BY <1>1, BusyKeeps DEF FormsInv
  <2> QED
    BY <1>1, <1>2, <2>1
<1>4. \A c \in inFlight' : Carried(c)
  BY <1>2 DEF Sends, Pending, Carried
<1> QED
  BY <1>1, <1>3, <1>4, StepKeeps

LEMMA OrganizationKeeps == ASSUME FormsInv, OrganizationAnswers PROVE FormsInv'
<1>1. opens' = opens /\ opens \in Nat /\ opens \in opens..MaxOpens
  BY MaxOpensAssumption DEF OrganizationAnswers, FormsInv
<1>2. PICK c \in inFlight :
        /\ c.kind = "organization"
        /\ \/ /\ editor' = editor
              /\ inFlight' = (inFlight \ {c}) \cup {Pending("save", c.form, c.target, c.body)}
           \/ inFlight' = inFlight \ {c} /\ editor' = NotBusy(c)
  BY DEF OrganizationAnswers
<1>3. \A d \in inFlight' : Carried(d)
  BY <1>2 DEF Pending, Carried, IsSave
<1>4. GoodEditor(editor', opens')
  BY <1>1, <1>2, BusyKeeps DEF NotBusy, FormsInv
<1> QED
  BY <1>1, <1>3, <1>4, StepKeeps

\* The answer to a save: the form is closed, reset or usable again.
LEMMA SaveKeeps == ASSUME FormsInv, SaveAnswers PROVE FormsInv'
<1>1. PICK c \in inFlight :
        /\ c.kind = "save"
        /\ \/ inFlight' = inFlight \ {c}
           \/ inFlight' = (inFlight \ {c}) \cup {Pending("reload", c.form, c.target, c.body)}
        /\ \/ editor' = [editor EXCEPT !.edit = NoForm] /\ opens' = opens
           \/ Opens /\ editor' = [editor EXCEPT !.create = FormOf(@, "new", opens')]
           \/ editor' = NotBusy(c) /\ opens' = opens
           \/ editor' = editor /\ opens' = opens
  <2>1. PICK c \in inFlight : \E ok \in BOOLEAN :
          /\ c.kind = "save"
          /\ IF ok /\ page # "endpoints"
             THEN inFlight' = (inFlight \ {c}) \cup {Pending("reload", c.form, c.target, c.body)}
             ELSE inFlight' = inFlight \ {c}
          /\ CASE ok /\ c.form = "edit" /\ page # "components" ->
                    editor' = [editor EXCEPT !.edit = NoForm] /\ UNCHANGED opens
               [] ~ok /\ c.form = "create" ->
                    Opens /\ editor' = [editor EXCEPT !.create = FormOf(@, "new", opens')]
               [] ~ok /\ c.form = "edit" -> editor' = NotBusy(c) /\ UNCHANGED opens
               [] OTHER -> UNCHANGED <<editor, opens>>
    BY DEF SaveAnswers
  <2> QED
    BY <2>1
<1>2. opens \in Nat /\ opens' \in Nat /\ opens' \in opens..MaxOpens /\ opens <= opens'
  BY <1>1, MaxOpensAssumption DEF Opens, FormsInv
<1>3. GoodEditor(editor', opens')
  <2>1. CASE editor' = [editor EXCEPT !.edit = NoForm]
    BY <1>2, <2>1, NoFormIsGood, ReplaceForm DEF FormsInv, Windows
  <2>2. CASE editor' = [editor EXCEPT !.create = FormOf(@, "new", opens')]
    BY <1>2, <2>2, FormOfIsGood, ReplaceForm DEF FormsInv, Windows
  <2>3. CASE editor' = NotBusy(c) /\ opens' = opens
    BY <1>2, <2>3, BusyKeeps DEF NotBusy, FormsInv
  <2>4. CASE editor' = editor /\ opens' = opens
    BY <2>4 DEF FormsInv
  <2> QED
    BY <1>1, <2>1, <2>2, <2>3, <2>4
<1>4. \A d \in inFlight' : Carried(d)
  BY <1>1 DEF Pending, Carried, IsSave
<1> QED
  BY <1>2, <1>3, <1>4, StepKeeps

LEMMA ReloadKeeps == ASSUME FormsInv, ReloadArrives PROVE FormsInv'
<1>1. PICK c \in inFlight :
        /\ inFlight' = inFlight \ {c}
        /\ \/ /\ Opens /\ c.form \in Windows
              /\ editor' = [editor EXCEPT ![c.form] = [FormOf(@, "new", opens') EXCEPT !.busy = FALSE]]
           \/ UNCHANGED <<opens, editor>>
  BY DEF ReloadArrives, Windows
<1>2. opens \in Nat /\ opens' \in Nat /\ opens' \in opens..MaxOpens /\ opens <= opens'
  BY <1>1, MaxOpensAssumption DEF Opens, FormsInv
<1>3. GoodEditor(editor', opens')
  BY <1>1, <1>2, FormOfIsGood, ReplaceForm DEF FormsInv
<1>4. \A d \in inFlight' : Carried(d)
  BY <1>1 DEF Carried
<1> QED
  BY <1>2, <1>3, <1>4, StepKeeps

\* The rows' buttons and the assistant.
LEMMA RowsKeep ==
  ASSUME FormsInv, \/ ArmDelete \/ ConfirmDelete \/ Suspend \/ RowAnswersToo
                   \/ OpenDrawer \/ SendChat \/ ChatAnswers
  PROVE  FormsInv'
<1> DEFINE Idle == /\ UNCHANGED <<editor, opens>>
                   /\ \A c \in inFlight' \ inFlight : c.kind \in {"delete", "suspend", "reload", "chat"}
<1>1. CASE ArmDelete
  BY <1>1, IdleStep DEF ArmDelete
<1>2. CASE ConfirmDelete \/ Suspend
  <2>1. \E kind \in {"delete", "suspend"} : \E t : RowRequest(kind, t)
    BY <1>2 DEF ConfirmDelete, Suspend
  <2>2. Idle
    BY <2>1 DEF RowRequest, Sends, Pending
  <2> QED
    BY <2>2, IdleStep DEF IsSave
<1>3. CASE RowAnswersToo
  <2>1. Idle
    BY <1>3 DEF RowAnswersToo, Pending
  <2> QED
    BY <2>1, IdleStep DEF IsSave
<1>4. CASE OpenDrawer \/ ChatAnswers
  <2>1. UNCHANGED <<editor, opens>> /\ inFlight' \subseteq inFlight
    BY <1>4 DEF OpenDrawer, ChatAnswers
  <2> QED
    BY <2>1, IdleStep
<1>5. CASE SendChat
  <2>1. Idle
    BY <1>5 DEF SendChat, Sends, Pending
  <2> QED
    BY <2>1, IdleStep DEF IsSave
<1> QED
  BY <1>1, <1>2, <1>3, <1>4, <1>5
-----------------------------------------------------------------------------
LEMMA FormsInitially == FormsInit => FormsInv
<1> SUFFICES ASSUME FormsInit PROVE FormsInv
  OBVIOUS
<1>1. opens = 0 /\ 0 \in 0..MaxOpens /\ inFlight = {}
  BY MaxOpensAssumption DEF FormsInit
<1>2. Good(FormOf(NoForm, "new", 0), 0) /\ Good(NoForm, 0)
  BY FormOfIsGood, NoFormIsGood
<1>3. /\ DOMAIN editor = Windows
      /\ \A w \in Windows : editor[w] \in {FormOf(NoForm, "new", 0), NoForm}
  BY DEF FormsInit, Windows
<1> QED
  BY <1>1, <1>2, <1>3 DEF FormsInv, GoodEditor, SavesOneForm

LEMMA FormsStep == ASSUME FormsInv, [FormsNext]_formVars PROVE FormsInv'
<1>1. CASE FormsNext
  BY <1>1, OpeningKeeps, FormTypingKeeps, FormSubmitKeeps, OrganizationKeeps, SaveKeeps, ReloadKeeps, RowsKeep
     DEF FormsNext
<1>2. CASE UNCHANGED formVars
  BY <1>2, IdleStep DEF formVars
<1> QED
  BY <1>1, <1>2

LEMMA SavesOneFormSuffices == FormsInv => FormsDoNotMix
<1> SUFFICES ASSUME FormsInv, NEW c \in inFlight, IsSave(c)
             PROVE  OfOneForm(c.body, c.target, MaxOpens)
  BY DEF FormsDoNotMix, IsSave, OfOneForm
<1>1. OfOneForm(c.body, c.target, opens) /\ opens \in 0..MaxOpens
  BY DEF FormsInv, SavesOneForm
<1> QED
  BY <1>1, MaxOpensAssumption DEF OfOneForm

(* What a save sends to a record was set in one form, opened on that record. *)
THEOREM SavesOneRecord == FormsSpec => []FormsDoNotMix
<1>1. FormsSpec => []FormsInv
  BY FormsInitially, FormsStep, PTL DEF FormsSpec
<1> QED
  BY <1>1, SavesOneFormSuffices, PTL

-----------------------------------------------------------------------------
(* The views of the portal: every answer is counted by the question it answers, and a page
   takes only what answers the latest one it asked. *)

\* What the pages and a question are made of.
Pages ==
  /\ {"session", "links", "linksOf", "navAsk", "detail", "detailAsk", "lists", "rows", "runs",
      "applied", "costsOf", "hasMore", "loadingMore", "error", "run", "expanded", "details"}
       \subseteq DOMAIN ui
  /\ {"status", "of", "from", "view", "name"} \subseteq DOMAIN ui.detail
  /\ DOMAIN ui.lists = {"plugins", "registry list"}
Numbered ==
  /\ asked \in Nat /\ ui.detailAsk \in 0..asked /\ ui.navAsk \in 0..asked
  /\ \A c \in asks : c.n \in 1..asked

OfDetail(c) == c.kind \in {"installed", "registry"}

\* The question a detail page waits for is the one in its address, and what it shows was
\* asked for by that address.
DetailIsAskedFor ==
  /\ \A c \in asks : OfDetail(c) /\ c.n = ui.detailAsk => c.kind = ui.detail.view /\ c.of = ui.detail.name
  /\ ui.detail.status # "loading" => ui.detail.from = ui.detail.view /\ ui.detail.of = ui.detail.name

\* The navigation waits for its session's question, and shows another session's panels
\* only while that one is unanswered.
NavIsAskedFor ==
  /\ \A c \in asks : c.kind = "nav" /\ c.n = ui.navAsk => c.of = ui.session
  /\ ui.linksOf # "nobody" /\ ui.links # {} =>
       ui.linksOf = ui.session \/ \E c \in asks : c.kind = "nav" /\ c.n = ui.navAsk

ViewsInv == Pages /\ Numbered /\ DetailIsAskedFor /\ NavIsAskedFor

-----------------------------------------------------------------------------

\* A page whose address, session and navigation are another's.
SameSubject(p, q) ==
  /\ DOMAIN p = DOMAIN q /\ p.session = q.session /\ p.links = q.links /\ p.linksOf = q.linksOf
  /\ p.navAsk = q.navAsk /\ p.detail = q.detail /\ p.detailAsk = q.detailAsk
  /\ DOMAIN p.lists = DOMAIN q.lists

LEMMA ViewsInitially == ViewsInit => ViewsInv
<1> SUFFICES ASSUME ViewsInit PROVE ViewsInv
  OBVIOUS
<1>1. /\ ui.links = {} /\ ui.linksOf = "nobody" /\ ui.navAsk = 0 /\ ui.detailAsk = 0
      /\ ui.detail.status = "loading" /\ asks = {} /\ asked = 0
  BY DEF ViewsInit, NothingAsked
<1>2. Pages
  BY DEF ViewsInit, Pages, NothingAsked
<1> QED
  BY <1>1, <1>2 DEF ViewsInv, Numbered, DetailIsAskedFor, NavIsAskedFor

\* A question is numbered after all that were asked before it.
LEMMA AskedOneMore ==
  ASSUME ViewsInv, NEW kind, NEW of, NEW screen, Ask(kind, of, screen)
  PROVE  /\ asked \in Nat /\ asked' = asked + 1 /\ asks \subseteq asks'
         /\ \A c \in asks' : c \in asks \/ (c.kind = kind /\ c.of = of /\ c.n = asked + 1)
         /\ \E c \in asks' : c.kind = kind /\ c.of = of /\ c.n = asked + 1
<1> DEFINE earlier == IF kind = "more" THEN ui.rows ELSE <<>>
           question == [kind |-> kind, of |-> of, rows |-> earlier, n |-> asked + 1]
<1>1. asked \in Nat /\ asked' = asked + 1 /\ asks' = asks \cup {question}
  BY DEF Ask, ViewsInv, Numbered
<1> HIDE DEF earlier
<1>2. question.kind = kind /\ question.of = of /\ question.n = asked + 1
  OBVIOUS
<1>3. PICK q : asks' = asks \cup {q} /\ q.kind = kind /\ q.of = of /\ q.n = asked + 1
  BY <1>1, <1>2
<1> QED
  BY <1>1, <1>3

\* A question about neither, and an answer to one.
LEMMA AskedElsewhere ==
  ASSUME ViewsInv, NEW kind, kind \notin {"installed", "registry", "nav"}, NEW of, NEW screen,
         SameSubject(screen, ui), Ask(kind, of, screen)
  PROVE  ViewsInv'
<1>0. SameSubject(ui', ui)
  BY DEF Ask, SameSubject
<1>1. /\ SameSubject(ui', ui) /\ asked \in Nat /\ asked' = asked + 1
      /\ \A c \in asks' : c \in asks \/ (c.kind = kind /\ c.n = asked + 1)
      /\ asks \subseteq asks'
  BY <1>0, AskedOneMore
<1>2. Pages'
  BY <1>1 DEF ViewsInv, Pages, SameSubject
<1>3. Numbered'
  BY <1>1 DEF ViewsInv, Numbered, SameSubject
<1>4. DetailIsAskedFor'
  BY <1>1 DEF ViewsInv, DetailIsAskedFor, OfDetail, SameSubject
<1>5. NavIsAskedFor'
  BY <1>1 DEF ViewsInv, NavIsAskedFor, SameSubject
<1> QED
  BY <1>2, <1>3, <1>4, <1>5 DEF ViewsInv

LEMMA AnsweredElsewhere ==
  ASSUME ViewsInv, NEW c \in asks, c.kind # "nav" \/ ~NotCancelled(c), NEW screen,
         SameSubject(screen, ui), Answer(c, screen)
  PROVE  ViewsInv'
<1>1. /\ SameSubject(ui', ui) /\ asked' = asked /\ asks' = asks \ {c}
  BY DEF Answer
<1>2. Pages'
  BY <1>1 DEF ViewsInv, Pages, SameSubject
<1>3. Numbered'
  BY <1>1 DEF ViewsInv, Numbered, SameSubject
<1>4. DetailIsAskedFor'
  BY <1>1 DEF ViewsInv, DetailIsAskedFor, OfDetail, SameSubject
<1>5. NavIsAskedFor'
  BY <1>1 DEF ViewsInv, NavIsAskedFor, SameSubject, NotCancelled
<1> QED
  BY <1>2, <1>3, <1>4, <1>5 DEF ViewsInv

LEMMA SameIsSame == SameSubject(ui, ui)
BY DEF SameSubject

-----------------------------------------------------------------------------
(* The address and the session *)

LEMMA OpenDetailKeeps == ViewsInv /\ OpenDetail => ViewsInv'
<1> SUFFICES ASSUME ViewsInv, NEW view \in {"installed", "registry"}, NEW p \in Names,
                    Ask(view, p, [ui EXCEPT !.detail = [NothingAsked EXCEPT !.view = view, !.name = p],
                                            !.detailAsk = asked + 1])
             PROVE  ViewsInv'
  BY DEF OpenDetail
<1>1. /\ DOMAIN ui' = DOMAIN ui /\ ui'.session = ui.session /\ ui'.links = ui.links
      /\ ui'.linksOf = ui.linksOf /\ ui'.navAsk = ui.navAsk /\ ui'.lists = ui.lists
      /\ ui'.detailAsk = asked + 1
      /\ ui'.detail = [NothingAsked EXCEPT !.view = view, !.name = p]
  BY DEF Ask, ViewsInv, Pages
<1>2. /\ {"status", "of", "from", "view", "name"} \subseteq DOMAIN ui'.detail
      /\ ui'.detail.status = "loading" /\ ui'.detail.view = view /\ ui'.detail.name = p
  BY <1>1 DEF NothingAsked
<1>3. /\ asked \in Nat /\ asked' = asked + 1 /\ asks \subseteq asks'
      /\ \A c \in asks' : c \in asks \/ (c.kind = view /\ c.of = p /\ c.n = asked + 1)
  BY AskedOneMore
<1>4. Pages'
  BY <1>1, <1>2 DEF ViewsInv, Pages
<1>5. Numbered'
  BY <1>1, <1>3 DEF ViewsInv, Numbered
<1>6. DetailIsAskedFor'
  BY <1>1, <1>2, <1>3 DEF ViewsInv, Numbered, DetailIsAskedFor, OfDetail
<1>7. NavIsAskedFor'
  BY <1>1, <1>3 DEF ViewsInv, NavIsAskedFor
<1> QED
  BY <1>4, <1>5, <1>6, <1>7 DEF ViewsInv

LEMMA NavSessionKeeps == ViewsInv /\ NavSession => ViewsInv'
<1> SUFFICES ASSUME ViewsInv, NEW s \in DOMAIN Groups,
                    Ask("nav", s, [ui EXCEPT !.session = s, !.navAsk = asked + 1])
             PROVE  ViewsInv'
  BY DEF NavSession
<1>1. /\ DOMAIN ui' = DOMAIN ui /\ ui'.session = s /\ ui'.links = ui.links
      /\ ui'.linksOf = ui.linksOf /\ ui'.navAsk = asked + 1 /\ ui'.lists = ui.lists
      /\ ui'.detailAsk = ui.detailAsk /\ ui'.detail = ui.detail
  BY DEF Ask, ViewsInv, Pages
<1>2. /\ asked \in Nat /\ asked' = asked + 1 /\ asks \subseteq asks'
      /\ \A c \in asks' : c \in asks \/ (c.kind = "nav" /\ c.of = s /\ c.n = asked + 1)
      /\ \E c \in asks' : c.kind = "nav" /\ c.n = asked + 1
  BY AskedOneMore
<1>3. Pages'
  BY <1>1 DEF ViewsInv, Pages
<1>4. Numbered'
  BY <1>1, <1>2 DEF ViewsInv, Numbered
<1>5. DetailIsAskedFor'
  BY <1>1, <1>2 DEF ViewsInv, DetailIsAskedFor, OfDetail
<1>6. NavIsAskedFor'
  BY <1>1, <1>2 DEF ViewsInv, Numbered, NavIsAskedFor
<1> QED
  BY <1>3, <1>4, <1>5, <1>6 DEF ViewsInv

LEMMA NavSessionEndsKeeps == ViewsInv /\ NavSessionEnds => ViewsInv'
<1> SUFFICES ASSUME ViewsInv, NavSessionEnds PROVE ViewsInv'
  OBVIOUS
<1>1. /\ DOMAIN ui' = DOMAIN ui /\ ui'.linksOf = "nobody" /\ ui'.navAsk = 0
      /\ ui'.lists = ui.lists /\ ui'.detailAsk = ui.detailAsk /\ ui'.detail = ui.detail
      /\ asks' = asks /\ asked' = asked
  BY DEF NavSessionEnds, ViewsInv, Pages
<1>2. Pages'
  BY <1>1 DEF ViewsInv, Pages
<1>3. Numbered'
  BY <1>1 DEF ViewsInv, Numbered
<1>4. DetailIsAskedFor' /\ NavIsAskedFor'
  BY <1>1 DEF ViewsInv, Numbered, DetailIsAskedFor, OfDetail, NavIsAskedFor
<1> QED
  BY <1>2, <1>3, <1>4 DEF ViewsInv

LEMMA DetailAnswersKeeps == ViewsInv /\ DetailAnswers => ViewsInv'
<1> SUFFICES ASSUME ViewsInv, NEW c \in asks, OfDetail(c), NEW status,
                    Answer(c, IF NotCancelled(c)
                              THEN [ui EXCEPT !.detail.status = status, !.detail.of = c.of,
                                              !.detail.from = c.kind]
                              ELSE ui)
             PROVE  ViewsInv'
  BY DEF DetailAnswers, OfDetail
<1>1. c.kind # "nav"
  BY DEF OfDetail
<1>2. CASE ~NotCancelled(c)
  BY <1>1, <1>2, SameIsSame, AnsweredElsewhere
<1>3. CASE NotCancelled(c)
  <2> DEFINE screen == [ui EXCEPT !.detail.status = status, !.detail.of = c.of, !.detail.from = c.kind]
  <2>1. /\ DOMAIN ui' = DOMAIN ui /\ ui'.session = ui.session /\ ui'.links = ui.links
        /\ ui'.linksOf = ui.linksOf /\ ui'.navAsk = ui.navAsk /\ ui'.lists = ui.lists
        /\ ui'.detailAsk = ui.detailAsk
        /\ DOMAIN ui'.detail = DOMAIN ui.detail
        /\ ui'.detail.view = ui.detail.view /\ ui'.detail.name = ui.detail.name
        /\ ui'.detail.from = c.kind /\ ui'.detail.of = c.of
    BY <1>3 DEF Answer, ViewsInv, Pages
  <2>2. asks' = asks \ {c} /\ asked' = asked
    BY DEF Answer
  <2>3. c.kind = ui.detail.view /\ c.of = ui.detail.name
    BY <1>1, <1>3 DEF NotCancelled, ViewsInv, DetailIsAskedFor
  <2>4. Pages' /\ Numbered'
    BY <2>1, <2>2 DEF ViewsInv, Pages, Numbered
  <2>5. DetailIsAskedFor'
    BY <2>1, <2>2, <2>3 DEF ViewsInv, DetailIsAskedFor, OfDetail
  <2>6. NavIsAskedFor'
    BY <1>1, <2>1, <2>2 DEF ViewsInv, NavIsAskedFor
  <2> QED
    BY <2>4, <2>5, <2>6 DEF ViewsInv
<1> QED
  BY <1>2, <1>3

LEMMA NavAnswersKeeps == ViewsInv /\ NavAnswers => ViewsInv'
<1> SUFFICES ASSUME ViewsInv, NEW c \in asks, c.kind = "nav", NEW links,
                    Answer(c, IF NotCancelled(c) THEN [ui EXCEPT !.links = links, !.linksOf = c.of] ELSE ui)
             PROVE  ViewsInv'
  BY DEF NavAnswers
<1>1. CASE ~NotCancelled(c)
  BY <1>1, SameIsSame, AnsweredElsewhere
<1>2. CASE NotCancelled(c)
  <2>1. /\ DOMAIN ui' = DOMAIN ui /\ ui'.session = ui.session /\ ui'.linksOf = c.of
        /\ ui'.navAsk = ui.navAsk /\ ui'.lists = ui.lists
        /\ ui'.detailAsk = ui.detailAsk /\ ui'.detail = ui.detail
        /\ asks' = asks \ {c} /\ asked' = asked
    BY <1>2 DEF Answer, ViewsInv, Pages
  <2>2. c.of = ui.session
    BY <1>2 DEF NotCancelled, ViewsInv, NavIsAskedFor
  <2>3. Pages' /\ Numbered'
    BY <2>1 DEF ViewsInv, Pages, Numbered
  <2>4. DetailIsAskedFor' /\ NavIsAskedFor'
    BY <2>1, <2>2 DEF ViewsInv, DetailIsAskedFor, OfDetail, NavIsAskedFor
  <2> QED
    BY <2>3, <2>4 DEF ViewsInv
<1> QED
  BY <1>1, <1>2

-----------------------------------------------------------------------------
(* Everything else *)

LEMMA OtherQuestionsKeep == ViewsInv /\ (LoadList \/ Reload \/ LoadMore \/ OpenRun) => ViewsInv'
<1> SUFFICES ASSUME ViewsInv, LoadList \/ Reload \/ LoadMore \/ OpenRun PROVE ViewsInv'
  OBVIOUS
<1>1. CASE LoadList
  <2> PICK list \in {"plugins", "registry list"} : Ask(list, "", ui)
    BY <1>1 DEF LoadList
  <2> QED
    BY SameIsSame, AskedElsewhere
<1>2. CASE Reload
  <2> PICK f \in Filters :
        Ask("runs", f, [ui EXCEPT !.rows = <<>>, !.runs = "loading", !.hasMore = FALSE, !.applied = f])
    BY <1>2 DEF Reload
  <2> DEFINE screen == [ui EXCEPT !.rows = <<>>, !.runs = "loading", !.hasMore = FALSE, !.applied = f]
  <2>1. SameSubject(screen, ui)
    BY DEF ViewsInv, Pages, SameSubject
  <2> HIDE DEF screen
  <2>2. Ask("runs", f, screen)
    BY DEF screen
  <2> QED
    BY <2>1, <2>2, AskedElsewhere
<1>3. CASE LoadMore
  <2> DEFINE screen == [ui EXCEPT !.loadingMore = TRUE]
  <2>1. SameSubject(screen, ui)
    BY DEF ViewsInv, Pages, SameSubject
  <2> HIDE DEF screen
  <2>2. Ask("more", ui.applied, screen)
    BY <1>3 DEF LoadMore, screen
  <2> QED
    BY <2>1, <2>2, AskedElsewhere
<1>4. CASE OpenRun
  <2> PICK id \in {"run 1", "run 2"} : Ask("run", id, [ui EXCEPT !.run.id = id])
    BY <1>4 DEF OpenRun
  <2> DEFINE screen == [ui EXCEPT !.run.id = id]
  <2>1. SameSubject(screen, ui)
    BY DEF ViewsInv, Pages, SameSubject
  <2> HIDE DEF screen
  <2>2. Ask("run", id, screen)
    BY DEF screen
  <2> QED
    BY <2>1, <2>2, AskedElsewhere
<1> QED
  BY <1>1, <1>2, <1>3, <1>4

\* The invariant is about what a page shows, not about which rows it has.
LEMMA SameSubjectKeeps ==
  ASSUME ViewsInv, SameSubject(ui', ui), UNCHANGED <<asks, asked>>
  PROVE  ViewsInv'
<1>1. Pages' /\ Numbered'
  BY DEF ViewsInv, Pages, Numbered, SameSubject
<1>2. DetailIsAskedFor' /\ NavIsAskedFor'
  BY DEF ViewsInv, DetailIsAskedFor, OfDetail, NavIsAskedFor, SameSubject
<1> QED
  BY <1>1, <1>2 DEF ViewsInv

LEMMA ToggleExpandKeeps == ViewsInv /\ ToggleExpand => ViewsInv'
<1> SUFFICES ASSUME ViewsInv, ToggleExpand PROVE ViewsInv'
  OBVIOUS
<1> PICK r \in Endpoints :
      \/ ui' = [ui EXCEPT !.expanded = ""] /\ UNCHANGED <<site, asks, asked>>
      \/ ui' = [ui EXCEPT !.expanded = r] /\ UNCHANGED <<site, asks, asked>>
      \/ Ask("endpoint", r, [ui EXCEPT !.expanded = r, !.details[r] = "loading"])
  BY DEF ToggleExpand
<1>1. \A e : SameSubject([ui EXCEPT !.expanded = e], ui)
  BY DEF ViewsInv, Pages, SameSubject
<1>2. SameSubject([ui EXCEPT !.expanded = r, !.details[r] = "loading"], ui)
  BY DEF ViewsInv, Pages, SameSubject
<1>3. CASE Ask("endpoint", r, [ui EXCEPT !.expanded = r, !.details[r] = "loading"])
  BY <1>2, <1>3, AskedElsewhere
<1>4. CASE (\E e : ui' = [ui EXCEPT !.expanded = e]) /\ UNCHANGED <<site, asks, asked>>
  BY <1>1, <1>4, SameSubjectKeeps
<1> QED
  BY <1>3, <1>4

LEMMA ListAnswersKeeps == ViewsInv /\ ListAnswers => ViewsInv'
<1> SUFFICES ASSUME ViewsInv, NEW c \in asks, c.kind \in DOMAIN ui.lists, NEW status,
                    Answer(c, [ui EXCEPT !.lists[c.kind] = status])
             PROVE  ViewsInv'
  BY DEF ListAnswers
<1>1. SameSubject([ui EXCEPT !.lists[c.kind] = status], ui)
  BY DEF ViewsInv, Pages, SameSubject
<1>2. c.kind # "nav"
  BY DEF ViewsInv, Pages
<1> QED
  BY <1>1, <1>2, AnsweredElsewhere

LEMMA RunListAnswersKeep == ViewsInv /\ (ReloadAnswers \/ MoreAnswers) => ViewsInv'
<1> SUFFICES ASSUME ViewsInv, ReloadAnswers \/ MoreAnswers PROVE ViewsInv'
  OBVIOUS
<1> USE DEF ViewsInv, Pages
<1>1. CASE ReloadAnswers
  <2> PICK c \in asks : c.kind = "runs" /\
        LET got == FetchAgentRuns(c.of, 0, PageSize + 1)
        IN  \/ Answer(c, [ui EXCEPT !.rows = FirstRows(got), !.hasMore = Len(got) > PageSize,
                                    !.runs = "loaded", !.costsOf = c.of, !.error = FALSE])
            \/ Answer(c, [ui EXCEPT !.error = TRUE])
    BY <1>1 DEF ReloadAnswers
  <2> DEFINE got == FetchAgentRuns(c.of, 0, PageSize + 1)
             screen == [ui EXCEPT !.rows = FirstRows(got), !.hasMore = Len(got) > PageSize,
                                !.runs = "loaded", !.costsOf = c.of, !.error = FALSE]
             failed == [ui EXCEPT !.error = TRUE]
  <2>1. SameSubject(screen, ui) /\ SameSubject(failed, ui)
    BY DEF SameSubject
  <2>2. Answer(c, screen) \/ Answer(c, failed)
    OBVIOUS
  <2> HIDE DEF screen, failed
  <2> QED
    BY <2>1, <2>2, AnsweredElsewhere
<1>2. CASE MoreAnswers
  <2> PICK c \in asks : c.kind = "more" /\
        LET got == FetchAgentRuns(c.of, Len(c.rows), PageSize + 1)
            screen == [ui EXCEPT !.loadingMore = FALSE]
        IN  \/ Answer(c, [screen EXCEPT !.rows = c.rows \o FirstRows(got), !.runs = "loaded",
                                      !.hasMore = Len(got) > PageSize, !.error = FALSE])
            \/ Answer(c, [screen EXCEPT !.error = TRUE])
    BY <1>2 DEF MoreAnswers
  <2> DEFINE got == FetchAgentRuns(c.of, Len(c.rows), PageSize + 1)
             screen == [ui EXCEPT !.loadingMore = FALSE]
             more == [screen EXCEPT !.rows = c.rows \o FirstRows(got), !.runs = "loaded",
                                  !.hasMore = Len(got) > PageSize, !.error = FALSE]
             failed == [screen EXCEPT !.error = TRUE]
  <2>1. SameSubject(more, ui) /\ SameSubject(failed, ui)
    BY DEF SameSubject
  <2>2. Answer(c, more) \/ Answer(c, failed)
    OBVIOUS
  <2> HIDE DEF more, failed
  <2> QED
    BY <2>1, <2>2, AnsweredElsewhere
<1> QED
  BY <1>1, <1>2

LEMMA OtherAnswersKeep == ViewsInv /\ (RunAnswers \/ EndpointAnswers) => ViewsInv'
<1> SUFFICES ASSUME ViewsInv, RunAnswers \/ EndpointAnswers PROVE ViewsInv'
  OBVIOUS
<1> USE DEF ViewsInv, Pages
<1>1. CASE RunAnswers
  <2> PICK c \in asks : c.kind = "run" /\
        (\/ Answer(c, [ui EXCEPT !.run.shown = c.of, !.run.error = FALSE])
         \/ Answer(c, [ui EXCEPT !.run.error = TRUE]))
    BY <1>1 DEF RunAnswers
  <2>1. /\ SameSubject([ui EXCEPT !.run.shown = c.of, !.run.error = FALSE], ui)
        /\ SameSubject([ui EXCEPT !.run.error = TRUE], ui)
    BY DEF SameSubject
  <2> QED
    BY <2>1, AnsweredElsewhere
<1>2. CASE EndpointAnswers
  <2> PICK c \in asks : c.kind = "endpoint" /\
        \E status \in {"loaded", "error"} : Answer(c, [ui EXCEPT !.details[c.of] = status])
    BY <1>2 DEF EndpointAnswers
  <2>1. \A status : SameSubject([ui EXCEPT !.details[c.of] = status], ui)
    BY DEF SameSubject
  <2> QED
    BY <2>1, AnsweredElsewhere
<1> QED
  BY <1>1, <1>2

LEMMA ViewsInvInductive == ViewsInv /\ [ViewsNext]_viewVars => ViewsInv'
<1> SUFFICES ASSUME ViewsInv, [ViewsNext]_viewVars PROVE ViewsInv'
  OBVIOUS
<1>1. CASE SiteChanges \/ UNCHANGED viewVars
  BY <1>1, SameIsSame, SameSubjectKeeps DEF SiteChanges, viewVars, SameSubject
<1> QED
  BY <1>1, OpenDetailKeeps, NavSessionKeeps, NavSessionEndsKeeps, DetailAnswersKeeps,
     NavAnswersKeeps, OtherQuestionsKeep, ToggleExpandKeeps, ListAnswersKeeps,
     RunListAnswersKeep, OtherAnswersKeep
     DEF ViewsNext

\* A plugin's page shows what was found out about the plugin in its address, and the
\* navigation the panel of this session, in whatever order the answers arrive.
THEOREM ShowsWhatWasAskedAlways == ViewsSpec => []ShowsWhatWasAsked
<1>1. ViewsInv => ShowsWhatWasAsked
  BY DEF ViewsInv, DetailIsAskedFor, NavIsAskedFor, ShowsWhatWasAsked
<1> QED
  BY <1>1, ViewsInitially, ViewsInvInductive, PTL DEF ViewsSpec

-----------------------------------------------------------------------------
(* Signing in: what a tab's form has routed, which session objects exist, and where an
   interrupted person is sent back to. *)

Person == {NoOne} \cup People
Sessions == Person \X Nat

\* What a tab and the login page's form are made of.
Made(w) ==
  /\ {"page", "url", "pool", "boot", "session", "form"} \subseteq DOMAIN w
  /\ {"mount", "pending", "reset", "codeSent", "loading", "forwarding", "error", "routedFor",
      "startedFor", "timer", "hadSession", "discarded", "ended", "handed"} \subseteq DOMAIN w.form

\* The sessions a form has routed are among the first m ever made, each of them once, and
\* the one that is open is marked as routed if it is one of them.
Accounted(w, m) ==
  /\ w.boot \in Person /\ w.session \in Sessions
  /\ w.session = SignedOut \/ w.session[2] \in 1..m
  /\ w.form.mount \in Nat /\ w.form.handed \in Seq(Sessions)
  /\ \A i \in 1..Len(w.form.handed) : w.form.handed[i][2] \in 1..m
  /\ \A i, j \in 1..Len(w.form.handed) : w.form.handed[i] = w.form.handed[j] => i = j
  /\ \A i \in 1..Len(w.form.handed) : w.form.handed[i] = w.session => w.form.routedFor = w.session

\* A running timer is for the session s, which has not been routed.
TimedFor(w, s) ==
  w.form.timer # SignedOut =>
    /\ w.page = "login" /\ w.form.timer = s
    /\ \A i \in 1..Len(w.form.handed) : w.form.handed[i] # s

\* The form knows that there is a session, and a return_to goes with the session.
Remembered(w) ==
  /\ w.page = "login" /\ w.session # SignedOut => w.form.hadSession
  /\ w.form.ended => w.form.discarded

SessionInv ==
  /\ made \in Nat /\ store \in [Pools -> Person]
  /\ Made(tab) /\ Accounted(tab, made) /\ TimedFor(tab, tab.session) /\ Remembered(tab)

-----------------------------------------------------------------------------
(* What a render does *)

\* What a handler may leave for the next render, m sessions having been made: a page it has
\* stayed on is the same visit, and a timer is for the session before it.
Renders(w, m) ==
  /\ Made(w) /\ Accounted(w, m) /\ TimedFor(w, tab.session)
  /\ w.form.mount >= tab.form.mount
  /\ w.page = "login" /\ w.form.mount = tab.form.mount =>
       tab.page = "login" /\ (tab.form.hadSession => w.form.hadSession)
  /\ w.form.ended => w.form.discarded

LEMMA NewFormIsNew ==
  ASSUME NEW n
  PROVE  /\ NewForm(n).mount = n /\ NewForm(n).timer = SignedOut /\ NewForm(n).ended = FALSE
         /\ NewForm(n).handed = <<>>
         /\ {"mount", "pending", "reset", "codeSent", "loading", "forwarding", "error", "routedFor",
             "startedFor", "timer", "hadSession", "discarded", "ended", "handed"} \subseteq DOMAIN NewForm(n)
BY DEF NewForm

\* Another visit to the login page, or another page.
LEMMA AnotherVisit ==
  ASSUME NEW w, NEW m \in Nat, NEW n \in Nat, n > tab.form.mount, tab.form.mount \in Nat,
         {"page", "url", "pool", "boot", "session", "form"} \subseteq DOMAIN w,
         w.boot \in Person, w.session \in Sessions,
         w.session = SignedOut \/ w.session[2] \in 1..m, w.form = NewForm(n)
  PROVE  Renders(w, m)
<1>1. Made(w)
  BY NewFormIsNew DEF Made
<1>2. w.form.handed = <<>> /\ w.form.mount = n /\ ~w.form.ended
  BY NewFormIsNew
<1>3. Len(<<>>) = 0 /\ <<>> \in Seq(Sessions)
  OBVIOUS
<1>4. Accounted(w, m)
  BY <1>2, <1>3 DEF Accounted
<1>5. TimedFor(w, tab.session)
  BY NewFormIsNew DEF TimedFor
<1>6. w.form.mount # tab.form.mount /\ w.form.mount >= tab.form.mount
  BY <1>2
<1> QED
  BY <1>1, <1>2, <1>4, <1>5, <1>6 DEF Renders

LEMMA GoIsAnotherVisit ==
  ASSUME NEW w, NEW m \in Nat, NEW to, NEW r, Made(w), Accounted(w, m),
         tab.form.mount \in Nat, w.form.mount >= tab.form.mount
  PROVE  Renders(Go(w, to, r), m)
<1>1. /\ DOMAIN Go(w, to, r) = DOMAIN w /\ Go(w, to, r).session = w.session
      /\ Go(w, to, r).boot = w.boot /\ Go(w, to, r).form = NewForm(w.form.mount + 1)
  BY DEF Go, Made
<1>2. w.form.mount + 1 \in Nat /\ w.form.mount + 1 > tab.form.mount
  BY DEF Accounted
<1> QED
  BY <1>1, <1>2, AnotherVisit DEF Made, Accounted

LEMMA GuardedRenders ==
  ASSUME NEW w, NEW m \in Nat, Renders(w, m), tab.form.mount \in Nat
  PROVE  Renders(Guarded(w), m)
BY GoIsAnotherVisit DEF Guarded, Renders

\* Before the effects: a session may have ended on the page, and the form finds out.
LEMMA EndedOnly ==
  ASSUME NEW w, Made(w)
  PROVE  /\ Made(Ended(w)) /\ Ended(w).page = w.page /\ Ended(w).session = w.session
         /\ Ended(w).boot = w.boot
         /\ \A x \in {"mount", "pending", "reset", "routedFor", "startedFor", "timer", "hadSession",
                      "discarded", "handed"} : Ended(w).form[x] = w.form[x]
         /\ Ended(w).form.ended => \/ w.form.ended
                                   \/ /\ w.form.mount = tab.form.mount /\ tab.session # SignedOut
                                      /\ w.session = SignedOut
BY DEF Ended, Made

LEMMA DiscardedOnly ==
  ASSUME NEW w, Made(w)
  PROVE  /\ Made(Discarded(w)) /\ Discarded(w).page = w.page /\ Discarded(w).session = w.session
         /\ Discarded(w).boot = w.boot
         /\ \A x \in {"mount", "pending", "reset", "routedFor", "startedFor", "timer",
                      "ended", "handed"} : Discarded(w).form[x] = w.form[x]
         /\ w.session # SignedOut => Discarded(w).form.hadSession
         /\ w.form.discarded \/ (w.session = SignedOut /\ w.form.hadSession)
              => Discarded(w).form.discarded
BY DEF Discarded, Made

LEMMA ForwardedOnly ==
  ASSUME NEW w, Made(w)
  PROVE  /\ Made(Forwarded(w)) /\ Forwarded(w).page = w.page /\ Forwarded(w).session = w.session
         /\ Forwarded(w).boot = w.boot
         /\ \A x \in {"mount", "routedFor", "hadSession", "discarded", "ended", "handed"} :
              Forwarded(w).form[x] = w.form[x]
         /\ \/ Forwarded(w).form.timer = SignedOut
            \/ Forwarded(w).form.timer = w.session /\ w.form.routedFor # w.session
            \/ Forwarded(w).form.timer = w.form.timer /\ w.session = tab.session
BY DEF Forwarded, MayForward, Made

LEMMA RenderKeeps ==
  ASSUME SessionInv, NEW w, NEW m \in Nat, Renders(w, m), Render(w)
  PROVE  Made(tab') /\ Accounted(tab', m) /\ TimedFor(tab', tab'.session) /\ Remembered(tab')
<1> DEFINE g == Guarded(w)
           e == Ended(g)
           d == Discarded(e)
           f == Forwarded(d)
<1>1. Renders(g, m)
  BY GuardedRenders DEF SessionInv, Accounted
<1>2. CASE g.page # "login"
  <2>1. tab' = g
    BY <1>2 DEF Render
  <2> HIDE DEF g
  <2>2. TimedFor(g, g.session) /\ Remembered(g)
    BY <1>1, <1>2 DEF Renders, TimedFor, Remembered
  <2> QED
    BY <1>1, <2>1, <2>2 DEF Renders
<1>3. CASE g.page = "login"
  <2>1. tab' = f
    BY <1>3 DEF Render
  <2>2. Made(g) /\ Made(e) /\ Made(d)
    BY <1>1, EndedOnly, DiscardedOnly DEF Renders
  <2>3. /\ Made(f) /\ f.page = "login" /\ f.session = g.session /\ f.boot = g.boot
        /\ \A x \in {"mount", "routedFor", "handed"} : f.form[x] = g.form[x]
    BY <1>3, <2>2, EndedOnly, DiscardedOnly, ForwardedOnly
  <2>4. /\ e.session = g.session /\ d.session = g.session /\ d.form.timer = g.form.timer
        /\ d.form.routedFor = g.form.routedFor
        /\ e.form.hadSession = g.form.hadSession /\ e.form.discarded = g.form.discarded
    BY <2>2, EndedOnly, DiscardedOnly
  <2>5. /\ f.form.hadSession = d.form.hadSession /\ f.form.discarded = d.form.discarded
        /\ f.form.ended = e.form.ended
    BY <2>2, DiscardedOnly, ForwardedOnly
  <2>6. \/ f.form.timer = SignedOut
        \/ f.form.timer = g.session /\ g.form.routedFor # g.session
        \/ f.form.timer = g.form.timer /\ g.session = tab.session
    BY <2>2, <2>4, ForwardedOnly
  <2>7. /\ g.session # SignedOut => d.form.hadSession
        /\ g.form.discarded \/ (g.session = SignedOut /\ g.form.hadSession) => d.form.discarded
    BY <2>2, <2>4, DiscardedOnly
  <2>8. e.form.ended => \/ g.form.ended
                        \/ g.form.mount = tab.form.mount /\ tab.session # SignedOut /\ g.session = SignedOut
    BY <2>2, EndedOnly
  <2> HIDE DEF g, e, d, f
  <2>9. Accounted(f, m)
    BY <1>1, <2>3 DEF Renders, Accounted
  <2>10. TimedFor(f, f.session)
    BY <1>1, <1>3, <2>3, <2>6 DEF Renders, TimedFor, Accounted
  <2>11. Remembered(f)
    BY <1>1, <1>3, <2>3, <2>5, <2>7, <2>8 DEF Renders, Remembered, SessionInv
  <2> QED
    BY <2>1, <2>3, <2>9, <2>10, <2>11
<1> QED
  BY <1>2, <1>3

\* A step that renders.
LEMMA RenderingStep ==
  ASSUME SessionInv, NEW w, Renders(w, made'), Render(w), made' \in Nat, store' \in [Pools -> Person]
  PROVE  SessionInv'
BY RenderKeeps DEF SessionInv

-----------------------------------------------------------------------------
(* Handlers that leave the visit and its session alone *)

Kept == {"mount", "routedFor", "timer", "hadSession", "discarded", "ended", "handed"}
SameVisit(f) == DOMAIN f = DOMAIN tab.form /\ \A x \in Kept : f[x] = tab.form[x]
Still(w) ==
  /\ DOMAIN w = DOMAIN tab /\ w.page = tab.page /\ w.session = tab.session /\ w.boot = tab.boot
  /\ SameVisit(w.form)

LEMMA StillRenders ==
  ASSUME SessionInv, NEW w, Still(w)
  PROVE  Renders(w, made)
<1> USE DEF SessionInv, Still, SameVisit, Kept
<1>1. Made(w)
  BY DEF Made
<1>2. Accounted(w, made)
  BY DEF Accounted
<1>3. TimedFor(w, tab.session)
  BY DEF TimedFor
<1>4. w.form.mount >= tab.form.mount
  BY DEF Accounted
<1> QED
  BY <1>1, <1>2, <1>3, <1>4 DEF Renders, Remembered

LEMMA StillStep ==
  ASSUME SessionInv, NEW w, Still(w), Render(w), UNCHANGED <<store, made>>
  PROVE  SessionInv'
BY StillRenders, RenderingStep DEF SessionInv

LEMMA NewFormFields ==
  ASSUME SessionInv, NEW f, SameVisit(f)
  PROVE  Still([tab EXCEPT !.form = f])
BY DEF SessionInv, Made, Still

LEMMA TabIsStill == Still(tab)
BY DEF Still, SameVisit

LEMMA AnsweredIsStill ==
  ASSUME SessionInv, NEW c, NEW f, SameVisit(f)
  PROVE  Still(Answered(c, tab, f))
BY NewFormFields, TabIsStill DEF Answered

\* The fields of the form that the handlers and answers set.
LEMMA FieldsOfTheForm ==
  ASSUME SessionInv, NEW f, SameVisit(f), NEW v
  PROVE  /\ SameVisit([f EXCEPT !.loading = v]) /\ SameVisit([f EXCEPT !.error = v])
         /\ SameVisit([f EXCEPT !.forwarding = v]) /\ SameVisit([f EXCEPT !.codeSent = v])
         /\ SameVisit([f EXCEPT !.pending = v]) /\ SameVisit([f EXCEPT !.reset = v])
BY DEF SessionInv, Made, SameVisit, Kept

LEMMA FormIsSame == SameVisit(Form)
BY DEF SameVisit, Form

LEMMA ReadyAndFailed ==
  ASSUME SessionInv
  PROVE  SameVisit(Ready(Form)) /\ SameVisit(Failed(Form))
BY FormIsSame, FieldsOfTheForm DEF Ready, Failed

LEMMA LoginSubmitKeeps == SessionInv /\ (SignIn \/ SetPassword \/ RequestReset \/ ConfirmReset) => SessionInv'
<1> SUFFICES ASSUME SessionInv, NEW kind, SubmitLogin(kind) PROVE SessionInv'
  BY DEF SignIn, SetPassword, RequestReset, ConfirmReset
<1> DEFINE w == [tab EXCEPT !.form.loading = TRUE, !.form.error = FALSE]
<1>1. Still(w)
  BY DEF SessionInv, Made, Still, SameVisit, Kept
<1>2. Render(w) /\ UNCHANGED <<store, made>>
  BY DEF SubmitLogin
<1> HIDE DEF w
<1> QED
  BY <1>1, <1>2, StillStep

LEMMA AnswersKeep ==
  SessionInv /\ (NewPasswordRequired \/ ResetAnswers \/ FormCallFails \/ RouteFails) => SessionInv'
<1> SUFFICES ASSUME SessionInv, NewPasswordRequired \/ ResetAnswers \/ FormCallFails \/ RouteFails
             PROVE  SessionInv'
  OBVIOUS
<1>0. UNCHANGED <<store, made>>
  BY DEF NewPasswordRequired, ResetAnswers, FormCallFails, RouteFails
<1> SUFFICES \E c \in calls : \E f : SameVisit(f) /\ Render(Answered(c, tab, f))
  BY <1>0, AnsweredIsStill, StillStep
<1>1. CASE NewPasswordRequired
  BY <1>1, ReadyAndFailed, FieldsOfTheForm DEF NewPasswordRequired
<1>2. CASE ResetAnswers
  <2>1. /\ SameVisit([Ready(Form) EXCEPT !.codeSent = TRUE])
        /\ SameVisit([Ready(Form) EXCEPT !.codeSent = FALSE, !.reset = FALSE])
    BY ReadyAndFailed, FieldsOfTheForm
  <2> QED
    BY <1>2, <2>1 DEF ResetAnswers
<1>3. CASE FormCallFails
  BY <1>3, ReadyAndFailed DEF FormCallFails
<1>4. CASE RouteFails
  <2>1. SameVisit([Form EXCEPT !.error = TRUE, !.forwarding = FALSE])
    BY FormIsSame, FieldsOfTheForm
  <2> QED
    BY <1>4, <2>1, ReadyAndFailed DEF RouteFails, Routes
<1> QED
  BY <1>1, <1>2, <1>3, <1>4

LEMMA SmallStepsKeep == SessionInv /\ (OpenReset \/ BackToSignIn \/ UrlReplaced) => SessionInv'
<1> SUFFICES ASSUME SessionInv, OpenReset \/ BackToSignIn \/ UrlReplaced PROVE SessionInv'
  OBVIOUS
<1>0. UNCHANGED <<store, made>>
  BY DEF OpenReset, BackToSignIn, UrlReplaced
<1> DEFINE opened == [tab EXCEPT !.form.reset = TRUE, !.form.codeSent = FALSE, !.form.error = FALSE]
           back == [tab EXCEPT !.form.reset = FALSE, !.form.error = FALSE]
           replaced == [tab EXCEPT !.url = ""]
<1>1. Still(opened) /\ Still(back) /\ Still(replaced)
  BY DEF SessionInv, Made, Still, SameVisit, Kept
<1>2. Render(opened) \/ Render(back) \/ Render(replaced)
  BY DEF OpenReset, BackToSignIn, UrlReplaced
<1> HIDE DEF opened, back, replaced
<1> QED
  BY <1>0, <1>1, <1>2, StillStep

-----------------------------------------------------------------------------
(* Loads, other pages, and a session that ends *)

LEMMA StoreWithout ==
  ASSUME SessionInv, NEW pool, NEW who \in Person
  PROVE  [store EXCEPT ![pool] = who] \in [Pools -> Person] /\ NoOne \in Person
BY DEF SessionInv, Person

LEMMA LoadedKeeps ==
  ASSUME SessionInv, NEW to, NEW r, NEW pool, Loaded(to, r, pool), UNCHANGED made
  PROVE  SessionInv'
<1> DEFINE who == IF pool \in Pools /\ to # "sibling" THEN store[pool] ELSE NoOne
           w == [page |-> to, url |-> r, pool |-> pool, boot |-> who, session |-> SignedOut,
                 form |-> NewForm(tab.form.mount + 1)]
<1>1. who \in Person
  BY DEF SessionInv, Person
<1>2. store' \in [Pools -> Person]
  BY DEF Loaded, Pruned, SessionInv, Person
<1>3. Render(w)
  BY DEF Loaded
<1> HIDE DEF who
<1>4. /\ {"page", "url", "pool", "boot", "session", "form"} \subseteq DOMAIN w
      /\ w.boot \in Person /\ w.session = SignedOut /\ w.form = NewForm(tab.form.mount + 1)
  BY <1>1
<1> HIDE DEF w
<1>5. SignedOut \in Sessions /\ SignedOut[2] = 0
  BY DEF SignedOut, Sessions, Person
<1>6. tab.form.mount \in Nat /\ made \in Nat
  BY DEF SessionInv, Accounted
<1>7. Renders(w, made)
  BY <1>4, <1>5, <1>6, AnotherVisit
<1> QED
  BY <1>2, <1>3, <1>6, <1>7, RenderingStep

LEMMA LoadKeeps == SessionInv /\ Load => SessionInv'
BY LoadedKeeps DEF Load

LEMMA LeavingIsAnotherVisit ==
  ASSUME SessionInv, NEW to, NEW r
  PROVE  Renders(Go(tab, to, r), made)
<1>1. tab.form.mount \in Nat /\ tab.form.mount >= tab.form.mount /\ made \in Nat
  BY DEF SessionInv, Accounted
<1> QED
  BY <1>1, GoIsAnotherVisit DEF SessionInv

LEMMA GoHomeKeeps == SessionInv /\ GoHome => SessionInv'
<1> SUFFICES ASSUME SessionInv, GoHome PROVE SessionInv'
  OBVIOUS
<1>1. Renders(Go(tab, "login", ""), made)
  BY LeavingIsAnotherVisit
<1> QED
  BY <1>1, RenderingStep DEF GoHome, SessionInv

LEMMA RouteAnswersKeeps == SessionInv /\ RouteAnswers => SessionInv'
<1> SUFFICES ASSUME SessionInv, NEW c, NEW to, UNCHANGED made,
                    \/ UNCHANGED store /\ Render(Go(Answered(c, tab, Ready(Form)), "admin", ""))
                    \/ Loaded(to, "", tab.pool)
             PROVE  SessionInv'
  BY DEF RouteAnswers
<1>1. CASE Loaded(to, "", tab.pool)
  BY <1>1, LoadedKeeps
<1>2. CASE UNCHANGED store /\ Render(Go(Answered(c, tab, Ready(Form)), "admin", ""))
  <2> DEFINE w == Answered(c, tab, Ready(Form))
  <2>1. Renders(w, made)
    BY ReadyAndFailed, AnsweredIsStill, StillRenders
  <2> HIDE DEF w
  <2>2. Renders(Go(w, "admin", ""), made)
    BY <2>1, GoIsAnotherVisit DEF Renders, SessionInv, Accounted
  <2> QED
    BY <1>2, <2>2, RenderingStep DEF SessionInv, w
<1> QED
  BY <1>1, <1>2

\* Signed out, on the page or on the way to the login page.
LEMMA LoggedOutRenders ==
  ASSUME SessionInv, NEW w, Renders(w, made), w.form.timer = SignedOut
  PROVE  Renders(LoggedOut(w), made)
<1>1. /\ Made(LoggedOut(w)) /\ LoggedOut(w).page = w.page /\ LoggedOut(w).session = SignedOut
      /\ LoggedOut(w).boot = w.boot /\ LoggedOut(w).form = w.form
  BY DEF LoggedOut, Renders, Made
<1>2. SignedOut \in Sessions /\ SignedOut[2] = 0 /\ made \in Nat
  BY DEF SignedOut, Sessions, Person, SessionInv
<1>3. \A i \in 1..Len(w.form.handed) : w.form.handed[i] # SignedOut
  BY <1>2 DEF Renders, Accounted
<1> HIDE DEF LoggedOut
<1>4. Accounted(LoggedOut(w), made)
  BY <1>1, <1>2, <1>3 DEF Renders, Accounted
<1>5. TimedFor(LoggedOut(w), tab.session)
  BY <1>1 DEF TimedFor
<1> QED
  BY <1>1, <1>4, <1>5 DEF Renders

LEMMA NotYouKeeps == SessionInv /\ NotYou => SessionInv'
<1> SUFFICES ASSUME SessionInv, NotYou PROVE SessionInv'
  OBVIOUS
<1> DEFINE w == [tab EXCEPT !.form.timer = SignedOut, !.form.forwarding = FALSE]
<1>1. /\ Made(w) /\ w.page = tab.page /\ w.session = tab.session /\ w.boot = tab.boot
      /\ w.form.timer = SignedOut
      /\ \A x \in {"mount", "routedFor", "hadSession", "discarded", "ended", "handed"} :
           w.form[x] = tab.form[x]
  BY DEF SessionInv, Made
<1>2. Render(LoggedOut(w)) /\ Forget
  BY DEF NotYou
<1> HIDE DEF w
<1>3. Accounted(w, made) /\ w.form.mount >= tab.form.mount
  BY <1>1 DEF SessionInv, Accounted
<1>4. TimedFor(w, tab.session)
  BY <1>1 DEF TimedFor
<1>5. Renders(w, made)
  BY <1>1, <1>3, <1>4 DEF Renders, SessionInv, Remembered
<1>6. Renders(LoggedOut(w), made)
  BY <1>1, <1>5, LoggedOutRenders
<1> QED
  BY <1>2, <1>6, RenderingStep, StoreWithout DEF Forget, SessionInv

LEMMA SignOutKeeps == SessionInv /\ (SignOut \/ SignOutForAnother) => SessionInv'
<1> SUFFICES ASSUME SessionInv, SignOut \/ SignOutForAnother PROVE SessionInv'
  OBVIOUS
<1>1. Forget /\ made' \in Nat /\ store' \in [Pools -> Person] /\ made' = made
  BY StoreWithout DEF SignOut, SignOutForAnother, Forget, SessionInv
<1>2. CASE SignOut
  <2>1. Renders(tab, made)
    BY TabIsStill, StillRenders
  <2>2. tab.form.timer = SignedOut
    BY <1>2 DEF SignOut, SessionInv, TimedFor
  <2> QED
    BY <1>1, <1>2, <2>1, <2>2, LoggedOutRenders, RenderingStep DEF SignOut
<1>3. CASE SignOutForAnother
  <2> PICK r \in {"", "admin"} : Render(LoggedOut(Go(tab, "login", r)))
    BY <1>3 DEF SignOutForAnother
  <2>1. Renders(Go(tab, "login", r), made)
    BY LeavingIsAnotherVisit
  <2>2. Go(tab, "login", r).form.timer = SignedOut
    BY NewFormIsNew DEF Go, SessionInv, Made
  <2> QED
    BY <1>1, <2>1, <2>2, LoggedOutRenders, RenderingStep
<1> QED
  BY <1>2, <1>3

-----------------------------------------------------------------------------
(* Sessions that are made or routed *)

\* A session made now is none of those before it.
LEMMA NewSession ==
  ASSUME SessionInv, NEW who \in Person
  PROVE  /\ SignedIn(who) \in Sessions /\ SignedIn(who)[2] = made + 1 /\ made + 1 \in Nat
         /\ \A i \in 1..Len(tab.form.handed) : tab.form.handed[i] # SignedIn(who)
         /\ tab.session # SignedIn(who) /\ SignedIn(who) # SignedOut
BY DEF SessionInv, Accounted, SignedIn, Sessions, SignedOut

\* One more session is routed.
LEMMA HandedOneMore ==
  ASSUME SessionInv, NEW s \in Sessions, NEW m \in Nat, made <= m, s[2] \in 1..m,
         \A i \in 1..Len(tab.form.handed) : tab.form.handed[i] # s,
         NEW w, Made(w), w.boot = tab.boot, w.session = s, w.form.mount = tab.form.mount,
         w.form.handed = Append(tab.form.handed, s), w.form.routedFor = s
  PROVE  Accounted(w, m)
<1> DEFINE h == tab.form.handed
<1>1. /\ h \in Seq(Sessions) /\ \A i \in 1..Len(h) : h[i][2] \in 1..made
      /\ \A i, j \in 1..Len(h) : h[i] = h[j] => i = j
  BY DEF SessionInv, Accounted
<1>2. /\ Append(h, s) \in Seq(Sessions) /\ Len(Append(h, s)) = Len(h) + 1
      /\ Append(h, s)[Len(h) + 1] = s /\ Len(h) \in Nat
      /\ \A i \in 1..Len(h) : Append(h, s)[i] = h[i]
  BY <1>1
<1> HIDE DEF h
<1>3. \A i \in 1..Len(h) + 1 : i \in 1..Len(h) \/ i = Len(h) + 1
  BY <1>2
<1>a. \A i \in 1..Len(h) : h[i] # s
  BY DEF h
<1>b. \A i \in 1..Len(h) + 1 : Append(h, s)[i][2] \in 1..m
  BY <1>1, <1>2, <1>3 DEF SessionInv
<1>4. \A i, j \in 1..Len(h) + 1 : Append(h, s)[i] = Append(h, s)[j] => i = j
  BY <1>1, <1>2, <1>3, <1>a
<1>5. made \in Nat /\ tab.boot \in Person /\ tab.form.mount \in Nat /\ s[2] <= m
  BY DEF SessionInv, Accounted
<1> QED
  BY <1>2, <1>b, <1>4, <1>5 DEF Accounted, h

LEMMA BootAnswersKeeps == SessionInv /\ BootAnswers => SessionInv'
<1> SUFFICES ASSUME SessionInv, BootAnswers PROVE SessionInv'
  OBVIOUS
<1>0. tab.boot \in Person /\ made \in Nat
  BY DEF SessionInv, Accounted
<1> DEFINE signed == [tab EXCEPT !.boot = NoOne, !.session = SignedIn(tab.boot)]
           out == [tab EXCEPT !.boot = NoOne, !.session = SignedOut]
<1>1. /\ Made(signed) /\ signed.page = tab.page /\ signed.boot = NoOne
      /\ signed.session = SignedIn(tab.boot) /\ signed.form = tab.form
      /\ Made(out) /\ out.page = tab.page /\ out.boot = NoOne
      /\ out.session = SignedOut /\ out.form = tab.form
  BY DEF SessionInv, Made
<1>2. \/ Makes(tab.boot) /\ Render(signed)
      \/ /\ Render(out)
         /\ store' \in {store, [store EXCEPT ![tab.pool] = NoOne]}
         /\ UNCHANGED made
  BY DEF BootAnswers
<1> HIDE DEF signed, out
<1>3. SignedOut \in Sessions /\ SignedOut[2] = 0 /\ NoOne \in Person
  BY DEF SignedOut, Sessions, Person
<1>4. CASE Makes(tab.boot) /\ Render(signed)
  <2>1. made' = made + 1 /\ store' \in [Pools -> Person]
    BY <1>0, <1>4, StoreWithout DEF Makes
  <2>2. Accounted(signed, made + 1)
    BY <1>0, <1>1, <1>3, NewSession DEF SessionInv, Accounted
  <2>3. TimedFor(signed, tab.session)
    BY <1>1 DEF SessionInv, TimedFor
  <2>4. Renders(signed, made + 1)
    BY <1>1, <2>2, <2>3 DEF SessionInv, Renders, Remembered, Accounted
  <2> QED
    BY <1>0, <1>4, <2>1, <2>4, RenderingStep
<1>5. CASE Render(out) /\ store' \in {store, [store EXCEPT ![tab.pool] = NoOne]} /\ UNCHANGED made
  <2>1. \A i \in 1..Len(tab.form.handed) : tab.form.handed[i] # SignedOut
    BY <1>3 DEF SessionInv, Accounted
  <2>2. Accounted(out, made)
    BY <1>0, <1>1, <1>3, <2>1 DEF SessionInv, Accounted
  <2>3. TimedFor(out, tab.session)
    BY <1>1 DEF SessionInv, TimedFor
  <2>4. Renders(out, made)
    BY <1>1, <2>2, <2>3 DEF SessionInv, Renders, Remembered, Accounted
  <2>5. store' \in [Pools -> Person]
    BY <1>3, <1>5, StoreWithout DEF SessionInv
  <2> QED
    BY <1>0, <1>5, <2>4, <2>5, RenderingStep
<1> QED
  BY <1>2, <1>4, <1>5

LEMMA SignInAnswersKeeps == SessionInv /\ SignInAnswers => SessionInv'
<1> SUFFICES ASSUME SessionInv, NEW c, NEW who \in People, Makes(who),
                    Render([Answered(c, tab, [Form EXCEPT !.routedFor = SignedIn(who),
                                                          !.handed = Append(@, SignedIn(who))])
                              EXCEPT !.session = SignedIn(who)])
             PROVE  SessionInv'
  BY DEF SignInAnswers
<1> DEFINE s == SignedIn(who)
           mine == [[tab EXCEPT !.form = [Form EXCEPT !.routedFor = s, !.handed = Append(@, s)]]
                      EXCEPT !.session = s]
           other == [tab EXCEPT !.session = s]
<1>1. Render(mine) \/ Render(other)
  BY DEF Answered, Form
<1>2. /\ s \in Sessions /\ s[2] = made + 1 /\ made + 1 \in Nat /\ made \in Nat
      /\ tab.boot \in Person
      /\ \A i \in 1..Len(tab.form.handed) : tab.form.handed[i] # s
      /\ tab.session # s
  BY NewSession DEF Person, SessionInv, Accounted
<1>3. made' = made + 1 /\ store' \in [Pools -> Person]
  BY StoreWithout DEF Makes, Person
<1>4. /\ Made(other) /\ other.page = tab.page /\ other.boot = tab.boot
      /\ other.session = s /\ other.form = tab.form
  BY DEF SessionInv, Made
<1>5. /\ Made(mine) /\ mine.page = tab.page /\ mine.boot = tab.boot /\ mine.session = s
      /\ mine.form.routedFor = s /\ mine.form.handed = Append(tab.form.handed, s)
      /\ \A x \in {"mount", "timer", "hadSession", "discarded", "ended"} :
           mine.form[x] = tab.form[x]
  BY DEF SessionInv, Made, Form
<1> HIDE DEF s, mine, other
<1>6. Renders(other, made + 1)
  <2>1. Accounted(other, made + 1)
    BY <1>2, <1>4 DEF SessionInv, Accounted
  <2>2. TimedFor(other, tab.session)
    BY <1>4 DEF SessionInv, TimedFor
  <2> QED
    BY <1>4, <2>1, <2>2 DEF SessionInv, Renders, Remembered, Accounted
<1>7. Renders(mine, made + 1)
  <2>1. Accounted(mine, made + 1)
    BY <1>2, <1>5, HandedOneMore
  <2>2. TimedFor(mine, tab.session)
    <3>1. tab.form.handed \in Seq(Sessions)
      BY DEF SessionInv, Accounted
    <3>2. \A i \in 1..Len(mine.form.handed) :
            mine.form.handed[i] = s \/ \E k \in 1..Len(tab.form.handed) : mine.form.handed[i] = tab.form.handed[k]
      BY <1>5, <3>1
    <3> QED
      BY <1>2, <1>5, <3>2 DEF SessionInv, TimedFor
  <2>3. mine.form.mount >= tab.form.mount
    BY <1>5 DEF SessionInv, Accounted
  <2> QED
    BY <1>5, <2>1, <2>2, <2>3 DEF SessionInv, Renders, Remembered
<1> QED
  BY <1>1, <1>2, <1>3, <1>6, <1>7, RenderingStep

LEMMA TimerFiresKeeps == SessionInv /\ TimerFires => SessionInv'
<1> SUFFICES ASSUME SessionInv, TimerFires PROVE SessionInv'
  OBVIOUS
<1> DEFINE s == tab.form.timer
           w == [tab EXCEPT !.form.timer = SignedOut, !.form.routedFor = s, !.form.handed = Append(@, s)]
<1>1. Render(w) /\ UNCHANGED <<store, made>> /\ tab.page = "login" /\ s # SignedOut
  BY DEF TimerFires, Form
<1>2. s = tab.session /\ \A i \in 1..Len(tab.form.handed) : tab.form.handed[i] # s
  BY <1>1 DEF SessionInv, TimedFor
<1>3. /\ Made(w) /\ w.page = tab.page /\ w.boot = tab.boot /\ w.session = tab.session
      /\ w.form.timer = SignedOut /\ w.form.routedFor = s
      /\ w.form.handed = Append(tab.form.handed, s)
      /\ \A x \in {"mount", "hadSession", "discarded", "ended"} : w.form[x] = tab.form[x]
  BY DEF SessionInv, Made
<1> HIDE DEF s, w
<1>4. s \in Sessions /\ s[2] \in 1..made /\ made \in Nat
  BY <1>1, <1>2 DEF SessionInv, Accounted, Remembered
<1>5. Accounted(w, made)
  BY <1>2, <1>3, <1>4, HandedOneMore
<1>6. TimedFor(w, tab.session)
  BY <1>3 DEF TimedFor
<1>7. Renders(w, made)
  BY <1>3, <1>5, <1>6 DEF SessionInv, Renders, Remembered, Accounted
<1> QED
  BY <1>1, <1>4, <1>7, RenderingStep DEF SessionInv

-----------------------------------------------------------------------------
LEMMA SessionInitially == SessionPageInit => SessionInv
<1> SUFFICES ASSUME SessionPageInit PROVE SessionInv
  OBVIOUS
<1>1. /\ store \in [Pools -> Person] /\ tab.page = "sibling" /\ tab.boot = NoOne
      /\ tab.session = SignedOut
      /\ {"page", "url", "pool", "boot", "session", "form"} \subseteq DOMAIN tab
  BY DEF SessionPageInit, Person
<1> PICK n \in Nat : tab.form = NewForm(n)
  BY DEF SessionPageInit
<1>2. /\ tab.form.mount = n /\ tab.form.handed = <<>> /\ tab.form.timer = SignedOut
      /\ ~tab.form.ended
      /\ {"mount", "pending", "reset", "codeSent", "loading", "forwarding", "error", "routedFor",
          "startedFor", "timer", "hadSession", "discarded", "ended", "handed"} \subseteq DOMAIN tab.form
  BY NewFormIsNew
<1>3. SignedOut \in Sessions /\ NoOne \in Person /\ made \in Nat
  BY DEF SignedOut, Sessions, Person, SessionPageInit
<1>4. Made(tab)
  BY <1>1, <1>2 DEF Made
<1>5. Len(<<>>) = 0 /\ <<>> \in Seq(Sessions)
  OBVIOUS
<1>6. Accounted(tab, made)
  BY <1>1, <1>2, <1>3, <1>5 DEF Accounted
<1>7. TimedFor(tab, tab.session) /\ Remembered(tab)
  BY <1>1, <1>2 DEF TimedFor, Remembered
<1> QED
  BY <1>1, <1>3, <1>4, <1>6, <1>7 DEF SessionInv

LEMMA SessionInvInductive == SessionInv /\ [SessionPageNext]_sessionPageVars => SessionInv'
<1>1. SessionInv /\ UNCHANGED sessionPageVars => SessionInv'
  BY DEF SessionInv, sessionPageVars, Made, Accounted, TimedFor, Remembered
<1> QED
  BY <1>1, LoadKeeps, BootAnswersKeeps, LoginSubmitKeeps, SignInAnswersKeeps, AnswersKeep,
     SmallStepsKeep, TimerFiresKeeps, RouteAnswersKeeps, NotYouKeeps, SignOutKeeps, GoHomeKeeps
     DEF SessionPageNext

\* However answers, timers and sign-outs interleave, one visit to the login page routes a
\* session object once.
THEOREM OneRoutePerSessionAlways == SessionPageSpec => []OneRoutePerSession
<1>1. SessionInv => OneRoutePerSession
  BY DEF SessionInv, Accounted, OneRoutePerSession
<1> QED
  BY <1>1, SessionInitially, SessionInvInductive, PTL DEF SessionPageSpec

-----------------------------------------------------------------------------
(* The return_to *)

\* The calls under way, and that one begun late carries no return_to.
IsCall(c) == {"kind", "mount", "session", "returnTo", "late"} \subseteq DOMAIN c
LateCalls == \A c \in calls : IsCall(c) /\ (c.late => c.returnTo = "")

LEMMA CallCoreIsACall ==
  ASSUME SessionInv, NEW kind, NEW s, NEW c, c = CallCore(kind, s, ReturnTo)
  PROVE  IsCall(c) /\ (c.late => c.returnTo = "")
<1>1. IsCall(c) /\ c.returnTo = ReturnTo /\ c.late = tab.form.ended
  BY DEF CallCore, IsCall, Form
<1>2. tab.form.ended => ReturnTo = ""
  BY DEF SessionInv, Remembered, ReturnTo
<1> QED
  BY <1>1, <1>2

LEMMA LateCallsKept == SessionInv /\ LateCalls /\ [SessionPageNext]_sessionPageVars => LateCalls'
<1> SUFFICES ASSUME SessionInv, LateCalls, [SessionPageNext]_sessionPageVars,
                    NEW c \in calls', c \notin calls
             PROVE  IsCall(c) /\ (c.late => c.returnTo = "")
  BY DEF LateCalls
<1>1. CASE SignIn \/ SetPassword \/ RequestReset \/ ConfirmReset
  <2>1. \E kind : c = CallCore(kind, SignedOut, ReturnTo)
    BY <1>1 DEF SignIn, SetPassword, RequestReset, ConfirmReset, SubmitLogin
  <2> QED
    BY <2>1, CallCoreIsACall
<1>2. CASE TimerFires
  <2>1. \E s : c = CallCore("forward", s, ReturnTo)
    BY <1>2 DEF TimerFires
  <2> QED
    BY <2>1, CallCoreIsACall
<1>3. CASE SignInAnswers
  <2>1. PICK signIn \in calls : \E s : c = [signIn EXCEPT !.kind = "route", !.session = s]
    BY <1>3 DEF SignInAnswers
  <2>2. IsCall(signIn) /\ (signIn.late => signIn.returnTo = "")
    BY DEF LateCalls
  <2> QED
    BY <2>1, <2>2 DEF IsCall
<1>4. CASE Load \/ RouteAnswers
  BY <1>4 DEF Load, RouteAnswers, Routes, Loaded, Drop
<1>5. CASE NewPasswordRequired \/ ResetAnswers \/ FormCallFails \/ RouteFails
  BY <1>5 DEF NewPasswordRequired, ResetAnswers, FormCallFails, RouteFails, Drop
<1>6. CASE \/ BootAnswers \/ OpenReset \/ BackToSignIn \/ UrlReplaced
           \/ NotYou \/ SignOut \/ SignOutForAnother \/ GoHome \/ UNCHANGED sessionPageVars
  BY <1>6 DEF BootAnswers, OpenReset, BackToSignIn, UrlReplaced, NotYou, SignOut,
              SignOutForAnother, GoHome, Forget, sessionPageVars
<1> QED
  BY <1>1, <1>2, <1>3, <1>4, <1>5, <1>6 DEF SessionPageNext

\* Once a session has ended on a visit to the login page, nobody who signs in or is forwarded
\* there is routed to the return_to that the earlier person was interrupted at; a sign-in
\* already under way when the session ended keeps the one it was submitted with.
THEOREM ReturnToServesOneIdentityAlways == SessionPageSpec => []ReturnToServesOneIdentity
<1>1. SessionPageInit => LateCalls
  BY DEF SessionPageInit, LateCalls
<1>2. LateCalls => ReturnToServesOneIdentity
  BY DEF LateCalls, ReturnToServesOneIdentity
<1> QED
  BY <1>1, <1>2, SessionInitially, SessionInvInductive, LateCallsKept, PTL DEF SessionPageSpec
=============================================================================
