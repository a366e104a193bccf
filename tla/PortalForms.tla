------------------------------ MODULE PortalForms ------------------------------
(***************************************************************************)
(* The portal's admin pages that save: users, endpoint permissions and     *)
(* prompt components (portal/src/app/admin/users, endpoints,               *)
(* prompt-components), with the assistant drawer of the last one.          *)
(*                                                                         *)
(* A page has one form to create a record, or one to edit the record whose *)
(* row was picked, or both.  A save runs through up to three requests; the *)
(* form stays usable, and another row may be picked, while it does.        *)
(***************************************************************************)
EXTENDS Integers, FiniteSets

CONSTANTS
  Records, Self,                      \* rows; the signed-in person's own row
  MaxOpens, MaxSends, MaxKeys         \* bounds: forms opened, requests, inputs

ASSUME MaxOpensAssumption == MaxOpens \in Nat

VARIABLES
  page,      \* the page that is open
  core,      \* Core: the records, the suspended ones, how many were created or organised
  editor,    \* the two forms: create, edit
  rows,      \* the table: the records shown, the Delete buttons that ask for confirmation
  drawer,    \* the assistant
  inFlight,  \* requests this page waits for
  opens, sends, keys

formVars == <<page, core, editor, rows, drawer, inFlight, opens, sends, keys>>

Fields == {"name", "content", "organization"}

-----------------------------------------------------------------------------
(* Forms.  A field remembers the form it was set in: its number and record. *)

NoForm == [target |-> "none", fields |-> [f \in Fields |-> [born |-> <<0, "none">>, value |-> ""]],
           busy |-> FALSE]

\* Mutant: one of the setters is missing.
ContentStays(old, t, n) ==
  [target |-> t, busy |-> (page # "users" /\ old.busy),
   fields |-> [f \in Fields |-> IF f = "content" THEN old.fields[f]
                                ELSE [born |-> <<n, t>>, value |-> IF t = "new" THEN "" ELSE "loaded"]]]

\* EditUserForm's initial state, startEdit, loadForEdit; for "new", reset and resetForm.
\* The page keeps `submitting' and `busy', except where every form has its own.
FormOf(old, t, n) ==
  [target |-> t, busy |-> (page # "users" /\ old.busy),
   fields |-> [f \in Fields |-> [born |-> <<n, t>>, value |-> IF t = "new" THEN "" ELSE "loaded"]]]

\* What Cancel leaves: no form, or the components page's form to create one.
AfterCancel(n) ==
  IF page = "components" THEN FormOf(editor.edit, "new", n)
  ELSE [NoForm EXCEPT !.busy = page = "endpoints" /\ editor.edit.busy]

Opens == opens < MaxOpens /\ opens' = opens + 1

\* Edit, Change: on two of the pages the button of the row being edited closes it.
OpenRow ==
  \E t \in rows.shown :
    /\ ~drawer.open /\ Opens
    /\ editor' = [editor EXCEPT !.edit = IF @.target = t /\ page # "components" THEN AfterCancel(opens')
                                         ELSE FormOf(@, t, opens')]
    /\ UNCHANGED <<page, core, rows, drawer, inFlight, sends, keys>>

CancelEdit ==
  /\ ~drawer.open /\ Opens
  /\ editor.edit.target \in Records
  /\ page = "endpoints" => ~editor.edit.busy
  /\ editor' = [editor EXCEPT !.edit = AfterCancel(opens')]
  /\ UNCHANGED <<page, core, rows, drawer, inFlight, sends, keys>>

\* What is typed or ticked; the organization may be a new one, with a name or not yet.
Input(w, f, v) ==
  editor' = [editor EXCEPT ![w].fields[f] = [born |-> @.born, value |-> v]]
Fill ==
  \E w \in {"create", "edit"}, f \in Fields :
    /\ ~drawer.open /\ keys < MaxKeys /\ keys' = keys + 1
    /\ editor[w].target # "none"
    /\ f = "organization" => page = "users"
    /\ \E v \in (IF f = "organization" THEN {"added", "unnamed"} ELSE {"typed"}) : Input(w, f, v)
    /\ UNCHANGED <<page, core, rows, drawer, inFlight, opens, sends>>

-----------------------------------------------------------------------------
(* Saving: doSubmit, doSave, submit, submitForm *)

Pending(kind, w, target, body) == [kind |-> kind, form |-> w, target |-> target, body |-> body, n |-> sends + 1]
Sends(c) == sends < MaxSends /\ sends' = sends + 1 /\ inFlight' = inFlight \cup {c}

\* The form an answer is for, if it is still there: a page's own form always is.
SameForm(c) ==
  \/ page # "users" \/ c.form = "create"
  \/ editor.edit.fields["name"].born = c.body["name"].born
NotBusy(c) == IF SameForm(c) THEN [editor EXCEPT ![c.form].busy = FALSE] ELSE editor

Submit ==
  \E w \in {"create", "edit"} :
    LET form == editor[w]
        organization == form.fields["organization"].value
    IN  /\ ~drawer.open /\ form.target # "none" /\ ~form.busy
        /\ form.fields["name"].value # "" /\ organization # "unnamed"
        /\ editor' = [editor EXCEPT ![w].busy = TRUE]
        /\ Sends(Pending(IF organization = "added" THEN "organization" ELSE "save",
                         w, form.target, form.fields))
        /\ UNCHANGED <<page, core, rows, drawer, opens, keys>>

\* addOrganization, and the save of what the form held when the button was pressed.
OrganizationAnswers ==
  \E c \in inFlight :
    /\ c.kind = "organization"
    /\ \/ /\ core' = [core EXCEPT !.organizations = @ + 1]
          /\ sends < MaxSends /\ sends' = sends + 1
          /\ inFlight' = (inFlight \ {c}) \cup {Pending("save", c.form, c.target, c.body)}
          /\ UNCHANGED editor
       \/ inFlight' = inFlight \ {c} /\ editor' = NotBusy(c) /\ UNCHANGED <<core, sends>>
    /\ UNCHANGED <<page, rows, drawer, opens, keys>>

\* What the save does in Core; endpoint changes become pull requests.
Saved(c) == IF c.target = "new" THEN [core EXCEPT !.created = @ + 1] ELSE core

\* run and reload: the table is asked for again, then the form is reset.
SaveAnswers ==
  \E c \in inFlight :
    /\ c.kind = "save"
    /\ \E ok \in IF c.target \in Records \ core.records THEN {FALSE} ELSE BOOLEAN :
         /\ core' = IF ok THEN Saved(c) ELSE core
         /\ IF ok /\ page # "endpoints"
            THEN /\ sends < MaxSends /\ sends' = sends + 1
                 /\ inFlight' = (inFlight \ {c}) \cup {Pending("reload", c.form, c.target, c.body)}
            ELSE inFlight' = inFlight \ {c} /\ UNCHANGED sends
         /\ CASE ok /\ c.form = "edit" /\ page # "components" ->
                   \* setEditingUsername(null), setEditingKey(null): whichever row is open
                   editor' = [editor EXCEPT !.edit = NoForm] /\ UNCHANGED opens
              [] ~ok /\ c.form = "create" ->
                   \* run has swallowed the error
                   Opens /\ editor' = [editor EXCEPT !.create = FormOf(@, "new", opens')]
              [] ~ok /\ c.form = "edit" -> editor' = NotBusy(c) /\ UNCHANGED opens
              [] OTHER -> UNCHANGED <<editor, opens>>
    /\ UNCHANGED <<page, rows, drawer, keys>>

\* The table's new rows; a Delete button stays armed as long as its row.
ReloadArrives ==
  \E c \in inFlight :
    /\ c.kind = "reload" /\ inFlight' = inFlight \ {c}
    /\ \/ rows' = [shown |-> core.records, armed |-> rows.armed \cap core.records]
       \/ UNCHANGED rows
    /\ IF c.form = "create" \/ (c.form = "edit" /\ page = "components")
       THEN Opens /\ editor' = [editor EXCEPT ![c.form] = [FormOf(@, "new", opens') EXCEPT !.busy = FALSE]]
       ELSE UNCHANGED <<opens, editor>>
    /\ UNCHANGED <<page, core, drawer, sends, keys>>

-----------------------------------------------------------------------------
(* The rows' buttons *)

\* Nobody suspends or removes themselves here.
MayDelete(t) == page = "users" => t # Self
ArmDelete ==
  \E t \in rows.shown : /\ ~drawer.open /\ page # "endpoints" /\ MayDelete(t)
                        /\ keys < MaxKeys /\ keys' = keys + 1
                        /\ rows' = [rows EXCEPT !.armed = (@ \ {t}) \cup ({t} \ @)]
                        /\ UNCHANGED <<page, core, editor, drawer, inFlight, opens, sends>>
RowRequest(kind, t) ==
  /\ ~drawer.open /\ Sends(Pending(kind, "row", t, NoForm.fields))
  /\ UNCHANGED <<page, core, editor, drawer, opens, keys>>
ConfirmDelete == \E t \in rows.armed : RowRequest("delete", t) /\ rows' = [rows EXCEPT !.armed = @ \ {t}]
\* Suspend and reactivate; groups and a password reset leave the record alone here.
Suspend == \E t \in rows.shown : page = "users" /\ t # Self /\ RowRequest("suspend", t) /\ UNCHANGED rows

RowAnswersToo ==
  \E c \in inFlight :
    /\ c.kind \in {"delete", "suspend"}
    /\ \/ /\ core' = IF c.kind = "delete" THEN [core EXCEPT !.records = @ \ {c.target}]
                     ELSE [core EXCEPT !.suspended = (@ \ {c.target}) \cup ({c.target} \ @)]
          /\ sends < MaxSends /\ sends' = sends + 1
          /\ inFlight' = (inFlight \ {c}) \cup {Pending("reload", "row", c.target, c.body)}
       \/ inFlight' = inFlight \ {c} /\ UNCHANGED <<core, sends>>
    /\ UNCHANGED <<page, editor, rows, drawer, opens, keys>>

-----------------------------------------------------------------------------
(* AssistantDrawer, which covers the page: it forgets its thread when it closes *)

Shut == [open |-> FALSE, turns |-> 0, busy |-> FALSE, notConfigured |-> FALSE, n |-> 0]
OpenDrawer ==
  /\ page = "components" /\ ~drawer.open
  /\ keys < MaxKeys /\ keys' = keys + 1
  /\ drawer' = [Shut EXCEPT !.open = TRUE, !.n = keys']
  /\ UNCHANGED <<page, core, editor, rows, inFlight, opens, sends>>
SendChat ==
  /\ drawer.open /\ ~drawer.busy /\ ~drawer.notConfigured
  /\ Sends([Pending("chat", "drawer", "none", NoForm.fields) EXCEPT !.n = drawer.n])
  /\ drawer' = [drawer EXCEPT !.busy = TRUE]
  /\ UNCHANGED <<page, core, editor, rows, opens, keys>>
ChatAnswers ==
  \E c \in inFlight :
    /\ c.kind = "chat" /\ inFlight' = inFlight \ {c}
    /\ IF drawer.n = c.n
       THEN \/ drawer' = [drawer EXCEPT !.busy = FALSE, !.turns = @ + 1]
            \/ \E off \in BOOLEAN : drawer' = [drawer EXCEPT !.busy = FALSE, !.notConfigured = off]
       ELSE UNCHANGED drawer
    /\ UNCHANGED <<page, core, editor, rows, opens, sends, keys>>
\* The draft replaces the body of whatever the form now edits.
CloseDrawer ==
  /\ drawer.open /\ drawer' = Shut
  /\ \/ UNCHANGED editor
     \/ drawer.turns > 0 /\ Input("edit", "content", "draft")
  /\ UNCHANGED <<page, core, rows, inFlight, opens, sends, keys>>

-----------------------------------------------------------------------------
FormsInit ==
  /\ page \in {"users", "endpoints", "components"}
  /\ core = [records |-> Records, suspended |-> {}, created |-> 0, organizations |-> 0]
  /\ editor = [create |-> IF page = "users" THEN FormOf(NoForm, "new", 0) ELSE NoForm,
               edit   |-> IF page = "components" THEN FormOf(NoForm, "new", 0) ELSE NoForm]
  /\ rows = [shown |-> Records, armed |-> {}] /\ drawer = Shut
  /\ inFlight = {} /\ opens = 0 /\ sends = 0 /\ keys = 0

FormsNext ==
  \/ OpenRow \/ CancelEdit \/ Fill \/ Submit \/ ArmDelete \/ ConfirmDelete \/ Suspend
  \/ OrganizationAnswers \/ SaveAnswers \/ ReloadArrives \/ RowAnswersToo
  \/ OpenDrawer \/ SendChat \/ ChatAnswers \/ CloseDrawer

FormsSpec == FormsInit /\ [][FormsNext]_formVars

-----------------------------------------------------------------------------
\* What a save sends to a record was loaded from that record, or put in while its form was
\* open: no field comes from another record's form, from an earlier form for the same record,
\* or from a form opened while an organization was being added.
FormsDoNotMix ==
  \A c \in inFlight : c.kind \in {"organization", "save"} =>
    \E n \in 0..MaxOpens : \A f \in Fields : c.body[f].born = <<n, c.target>>
=============================================================================
