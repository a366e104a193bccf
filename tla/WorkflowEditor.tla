----------------------------- MODULE WorkflowEditor -----------------------------
(***************************************************************************)
(* The portal's workflow page (portal/src/app/admin/orchestration): one    *)
(* form that creates or edits a workflow, the dry run that must pass       *)
(* before an agent workflow may be enabled, the table of workflows with    *)
(* its row buttons, and the history of runs.                               *)
(*                                                                         *)
(* Saves, row buttons, dry runs and reloads all go on while the person     *)
(* types, picks another row to edit, or starts another test.               *)
(***************************************************************************)
EXTENDS Integers, Sequences, FiniteSets

CONSTANTS
  Workflows,                 \* ids: the ones stored at the start, and the ones still free
  Titles, Triggers,          \* what may be typed or picked; "" is no name
  Parts,                     \* parts a prompt is composed of; "" is a blank text
  MaxParts, MaxTyping, MaxCalls   \* bounds: parts in a prompt, edits, requests

VARIABLES
  stored,     \* Core: id -> its definition, or NoWorkflow
  form,       \* the form, the test panel and pollRef
  table,      \* what the page shows of the stored workflows and of the run history
  requests,   \* requests this page waits for
  passed,     \* history: the definitions a dry run has passed on
  typed, sent

editorVars == <<stored, form, table, requests, passed, typed, sent>>

NoWorkflow == [enabled |-> FALSE, def |-> "absent"]
NoToken == 0

-----------------------------------------------------------------------------
(* Definitions, and what a save makes of them *)

\* defaultConfig. The delivery text applies to one of the two channels only.
DefaultConfig == [prompt |-> <<>>, delivery |-> "none", text |-> "", writeback |-> "none"]
NewDef == [name |-> "", trigger |-> CHOOSE t \in Triggers : TRUE, action |-> "agent",
           config |-> DefaultConfig, filter |-> ""]

\* fieldApplies, and the effect that fills what has become applicable.
TextApplies(c) == c.delivery = "email"
WithDefaults(c) == IF TextApplies(c) /\ c.text = "" THEN [c EXCEPT !.text = "default"] ELSE c

\* submitForm keeps what applies, and a write-back that fills something.
Applicable(c) ==
  [c EXCEPT !.text = IF TextApplies(c) THEN @ ELSE "",
            !.writeback = IF @ = "columns" THEN @ ELSE "none"]

ScheduleOf(f) == IF f.schedule = "on" THEN f.delay ELSE "none"     \* "bad" is no delay
ScopeOf(f) == IF f.scope = "on" THEN f.scopeId ELSE ""     \* an empty id is none
FormBody(f, enabled) ==
  [enabled |-> enabled,
   def |-> [f.def EXCEPT !.config = Applicable(@)],
   schedule |-> IF ScheduleOf(f) = "bad" THEN "none" ELSE ScheduleOf(f),
   scope |-> ScopeOf(f)]

PromptHasContent(c) == \E i \in DOMAIN c.prompt : c.prompt[i] # ""
AgentRequiredValid(d) == d.name # "" /\ PromptHasContent(d.config)
DeliveryValid(c) == c.delivery # "incomplete"

-----------------------------------------------------------------------------
(* The form *)

Untested == [testing |-> FALSE, result |-> "", error |-> FALSE, tested |-> "none"]

\* resetForm and loadForEdit; clearTestState leaves the poll running. The assistant stays
\* open, and the sample as it was, unless the trigger is another.
Cleared(f, new) ==
  [new EXCEPT !.poll = f.poll, !.busy = f.busy, !.assist = f.assist,
              !.sample = IF new.def.trigger = f.def.trigger THEN f.sample ELSE @]
EmptyForm ==
  [id |-> "new", def |-> NewDef, enabled |-> TRUE, schedule |-> "off", delay |-> "2 weeks",
   scope |-> "off", scopeId |-> "", sample |-> "seeded", assist |-> FALSE,
   test |-> Untested, poll |-> NoToken, busy |-> FALSE]
ResetForm(f) == Cleared(f, EmptyForm)
FormFor(f, id, w) ==
  Cleared(f, [EmptyForm EXCEPT !.id = id, !.def = w.def, !.enabled = w.enabled,
                               !.schedule = IF w.schedule = "none" THEN "off" ELSE "on",
                               !.delay = IF w.schedule = "none" THEN @ ELSE w.schedule,
                               !.scope = IF w.scope = "" THEN "off" ELSE "on",
                               !.scopeId = w.scope])

IsAgent == form.def.action = "agent"
TestPassed == form.test.tested # "none" /\ form.test.snapshot = form.def
CanEnable == IsAgent /\ AgentRequiredValid(form.def) /\ DeliveryValid(form.def.config)
             /\ TestPassed /\ ~form.busy

\* A new trigger reseeds the sample.
Type(new) ==
  /\ typed < MaxTyping /\ typed' = typed + 1
  /\ LET d == [new.def EXCEPT !.config = WithDefaults(@)]
     IN  form' = [new EXCEPT !.def = d,
                             !.sample = IF d.trigger # form.def.trigger THEN "seeded" ELSE @]
  /\ form' # form
  /\ UNCHANGED <<stored, table, requests, passed, sent>>
Configure(c) == Type([form EXCEPT !.def.config = c])

EditName == \E n \in Titles : Type([form EXCEPT !.def.name = n])
EditTrigger == \E t \in Triggers : Type([form EXCEPT !.def.trigger = t])
EditConditions == \E c \in {"", "field = x"} : Type([form EXCEPT !.def.filter = c])

\* Another action starts from its own defaults.
PickAction ==
  \E a \in {"agent", "email"} \ {form.def.action} :
    Type([form EXCEPT !.def.action = a, !.def.config = DefaultConfig, !.test = Untested])

\* PartsField: parts are added, filled in, moved and removed.
PartsEdits(p) ==
  {Append(p, ""), Append(p, "component")}
  \cup {[p EXCEPT ![i] = part] : i \in DOMAIN p, part \in Parts}
  \cup {[p EXCEPT ![i] = p[i + 1], ![i + 1] = p[i]] : i \in 1..(Len(p) - 1)}
  \cup {SubSeq(p, 1, i - 1) \o SubSeq(p, i + 1, Len(p)) : i \in DOMAIN p}
EditPrompt ==
  /\ IsAgent
  /\ \E new \in PartsEdits(form.def.config.prompt) :
       Len(new) <= MaxParts /\ Configure([form.def.config EXCEPT !.prompt = new])

ApplyPreset == IsAgent /\ Configure([form.def.config EXCEPT !.prompt = <<"preset">>])

\* The assistant's draft is appended to the field the assistant was opened for.
OpenAssistant == IsAgent /\ ~form.assist /\ Type([form EXCEPT !.assist = TRUE])
AcceptDraft ==
  /\ IsAgent /\ form.assist /\ Len(form.def.config.prompt) < MaxParts
  /\ Type([form EXCEPT !.assist = FALSE, !.def.config.prompt = Append(@, "draft")])

SelectDelivery ==
  /\ IsAgent
  /\ \E d \in {"none", "incomplete", "email"} :
       Configure([form.def.config EXCEPT !.delivery = d, !.text = ""])
SetWriteBack ==
  /\ IsAgent
  /\ \E w \in {"none", "empty", "columns"} : Configure([form.def.config EXCEPT !.writeback = w])

EditSchedule == \E d \in {"2 weeks", "bad"} : Type([form EXCEPT !.schedule = "on", !.delay = d])
EditScope == Type([form EXCEPT !.scope = IF @ = "on" THEN "off" ELSE "on"])
EditEnabled == ~IsAgent /\ Type([form EXCEPT !.enabled = ~@])
EditSample == IsAgent /\ \E x \in {"edited", "broken"} : Type([form EXCEPT !.sample = x])

Cancel ==
  /\ form.id # "new"
  /\ form' = ResetForm(form)
  /\ UNCHANGED <<stored, table, requests, passed, typed, sent>>

\* The row's Edit button, whatever the form is doing, from the row as it was loaded.
LoadForEdit ==
  \E id \in DOMAIN table.rows :
    /\ form' = FormFor(form, id, table.rows[id])
    /\ UNCHANGED <<stored, table, requests, passed, typed, sent>>

-----------------------------------------------------------------------------
(* Requests *)

Send(r) == /\ sent < MaxCalls /\ sent' = sent + 1
           /\ requests' = requests \cup {[r EXCEPT !.n = sent + 1]}
Request(kind, id, body) == [n |-> 0, kind |-> kind, id |-> id, body |-> body, shown |-> form.def]

\* submitForm: Save draft and Enable for an agent, one button for another action.
SubmitForm ==
  /\ ~form.busy /\ form.def.name # ""
  /\ \E enabled \in BOOLEAN :
       /\ IF IsAgent THEN enabled => CanEnable ELSE enabled = form.enabled
       /\ Send(Request("save", form.id, FormBody(form, enabled)))
  /\ form' = [form EXCEPT !.busy = TRUE]
  /\ UNCHANGED <<stored, table, passed, typed>>

\* Each row's Enable or Disable, by what the row shows, and Delete.
RowButton ==
  /\ \E id \in DOMAIN table.rows :
       \/ Send(Request("toggle", id, [table.rows[id] EXCEPT !.enabled = ~@]))
       \/ Send(Request("delete", id, NoWorkflow))
  /\ UNCHANGED <<stored, form, table, passed, typed>>

Free == {id \in Workflows : stored[id] = NoWorkflow}
ReloadWorkflows == [n |-> 0, kind |-> "reload", id |-> "new", body |-> NoWorkflow, shown |-> NewDef]

\* run(action): the answer of the action, and then a reload. Another save than the form's
\* own resets nothing; a failed one leaves the form as it is.
WorkflowSaved ==
  \E r \in requests :
    /\ r.kind = "save"
    /\ \/ \E id \in IF r.id = "new" THEN Free ELSE {r.id} \ Free :
            /\ stored' = [stored EXCEPT ![id] = r.body]
            /\ form' = ResetForm(form)
            /\ requests' = (requests \ {r}) \cup {[ReloadWorkflows EXCEPT !.n = r.n, !.id = "of save"]}
       \/ /\ form' = [form EXCEPT !.busy = FALSE]
          /\ requests' = requests \ {r} /\ UNCHANGED stored
    /\ UNCHANGED <<table, passed, typed, sent>>

RowAnswers ==
  \E r \in requests :
    /\ r.kind \in {"toggle", "delete"}
    /\ \/ /\ r.id \notin Free
          /\ stored' = IF r.kind = "delete" THEN [stored EXCEPT ![r.id] = NoWorkflow]
                       ELSE [stored EXCEPT ![r.id].enabled = r.body.enabled]
          /\ requests' = (requests \ {r}) \cup {[ReloadWorkflows EXCEPT !.n = r.n]}
       \/ requests' = requests \ {r} /\ UNCHANGED stored
    /\ UNCHANGED <<form, table, passed, typed, sent>>

\* The table becomes what Core had when it answered; submitForm is busy until then.
WorkflowsArrive ==
  \E r \in requests :
    /\ r.kind = "reload"
    /\ table' \in {table, [table EXCEPT !.rows = [id \in Workflows \ Free |-> stored[id]],
                                        !.runs = 1, !.more = TRUE]}
    /\ requests' = requests \ {r}
    /\ form' = IF r.id = "of save" THEN [form EXCEPT !.busy = FALSE] ELSE form
    /\ UNCHANGED <<stored, passed, typed, sent>>

\* loadMoreRuns: pages of runs behind the ones this render shows.
LoadMoreRuns ==
  /\ table.more /\ ~table.loadingMore
  /\ Send([ReloadWorkflows EXCEPT !.kind = "more runs"])
  /\ table' = [table EXCEPT !.loadingMore = TRUE]
  /\ UNCHANGED <<stored, form, passed, typed>>
MoreRunsAnswer ==
  \E r \in requests :
    /\ r.kind = "more runs" /\ requests' = requests \ {r}
    /\ \/ table' = [table EXCEPT !.loadingMore = FALSE, !.runs = 2, !.more = FALSE]
       \/ table' = [table EXCEPT !.loadingMore = FALSE]
    /\ UNCHANGED <<stored, form, passed, typed, sent>>

-----------------------------------------------------------------------------
(* The dry run *)

RunTest ==
  /\ IsAgent /\ ~form.test.testing
  /\ IF AgentRequiredValid(form.def) /\ form.sample # "broken"
     THEN /\ Send(Request("start", form.id, NoWorkflow))
          /\ form' = [form EXCEPT !.test.testing = TRUE, !.test.error = FALSE, !.test.result = "",
                                  !.poll = sent + 1]
     ELSE /\ form' = [form EXCEPT !.test.error = TRUE, !.test.result = ""]
          /\ UNCHANGED <<requests, sent>>
  /\ UNCHANGED <<stored, table, passed, typed>>

Owns(r) == form.poll = r.n

\* Mutant: whoever ends clears the reference.
EndsAnyway(f, r) == [f EXCEPT !.poll = NoToken, !.test.testing = @ /\ ~Owns(r)]

\* `finally': only the run that owns the panel gives it up.
Ends(f, r) == IF Owns(r) THEN [f EXCEPT !.poll = NoToken, !.test.testing = FALSE] ELSE f

\* The start is accepted, and the run is asked for until it is terminal; one that lost the
\* panel stops before it asks again, and its failures are not reported.
StartAnswers ==
  \E r \in requests :
    /\ r.kind = "start"
    /\ requests' = (requests \ {r}) \cup IF Owns(r) THEN {[r EXCEPT !.kind = "poll"]} ELSE {}
    /\ UNCHANGED <<stored, form, table, passed, typed, sent>>

RunStops ==
  \E r \in requests :
    /\ r.kind \in {"start", "poll"} /\ requests' = requests \ {r}
    /\ form' = Ends(IF Owns(r) THEN [form EXCEPT !.test.error = TRUE] ELSE form, r)
    /\ UNCHANGED <<stored, table, passed, typed, sent>>

\* A run that is not terminal yet, asked for by a test that has lost the panel meanwhile.
PollIsAbandoned ==
  \E r \in requests :
    /\ r.kind = "poll" /\ ~Owns(r)
    /\ requests' = requests \ {r}
    /\ UNCHANGED <<stored, form, table, passed, typed, sent>>

\* Mutant: the definition in the form when the test comes back.
SnapshotAtEnd(r) == form.def

SnapshotAtSend(r) == r.shown

\* The run completed, or failed. Nobody asks here whose panel it is.
RunCompletes ==
  \E r \in requests :
    /\ r.kind = "poll" /\ requests' = requests \ {r}
    /\ \/ /\ form' = Ends([form EXCEPT !.test = [testing |-> @.testing, error |-> @.error, result |-> r.id,
                                                 tested |-> "a run", snapshot |-> SnapshotAtSend(r)]], r)
          /\ passed' = passed \cup {r.shown}
       \/ form' = Ends([form EXCEPT !.test.error = TRUE], r) /\ UNCHANGED passed
    /\ UNCHANGED <<stored, table, typed, sent>>

-----------------------------------------------------------------------------
EditorInit ==
  /\ \E ids \in SUBSET Workflows :
       stored = [id \in Workflows |->
                   IF id \in ids
                   THEN [enabled |-> TRUE, schedule |-> "none", scope |-> "unit",
                         def |-> [NewDef EXCEPT !.name = "old", !.config.prompt = <<"component">>]]
                   ELSE NoWorkflow]
  /\ form = EmptyForm
  /\ table = [rows |-> [id \in Workflows \ Free |-> stored[id]], runs |-> 0, more |-> FALSE,
              loadingMore |-> FALSE]
  /\ requests = {} /\ passed = {} /\ typed = 0 /\ sent = 0

EditorNext ==
  \/ EditName \/ EditTrigger \/ EditConditions \/ PickAction \/ EditPrompt
  \/ ApplyPreset \/ OpenAssistant \/ AcceptDraft \/ SelectDelivery \/ SetWriteBack
  \/ EditSchedule \/ EditScope \/ EditEnabled \/ EditSample
  \/ Cancel \/ LoadForEdit
  \/ SubmitForm \/ RowButton \/ WorkflowSaved \/ RowAnswers \/ WorkflowsArrive
  \/ LoadMoreRuns \/ MoreRunsAnswer
  \/ RunTest \/ StartAnswers \/ RunStops \/ PollIsAbandoned \/ RunCompletes

EditorSpec == EditorInit /\ [][EditorNext]_editorVars

-----------------------------------------------------------------------------
(* What the form promises *)

\* An agent workflow that the form sends to Core enabled is, in its name, trigger,
\* conditions and configuration, one that a dry run has completed on, whatever was
\* edited or tested while that run was under way.
EnabledOnlyAsTested ==
  \A r \in requests :
    r.kind = "save" /\ r.body.enabled /\ r.shown.action = "agent" => r.shown \in passed

\* While the page says it is testing, the run that will end the test is still asked for:
\* a test given up for another form, or overtaken, never leaves it testing for good.
NoTestIsStuck ==
  form.test.testing => \E r \in requests : r.kind \in {"start", "poll"} /\ Owns(r)
=================================================================================
