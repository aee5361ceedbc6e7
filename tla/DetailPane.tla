----------------------------- MODULE DetailPane -----------------------------
(***************************************************************************)
(* The right half of a vault's screen: a choice of type, a form, a secret, *)
(* or a prompt.  Which of them it is follows from five states of the list  *)
(* beside it, and what each keeps to itself, what was typed and what is    *)
(* unmasked, lives as long as React keeps it where it is:                  *)
(*   - a form stays the same one while the pane goes from a form to a form;*)
(*   - the row of a field stays the same one while the pane goes from a    *)
(*     secret to a secret that has a field of that id, and so does the     *)
(*     list of the secret's own fields.                                    *)
(* Nothing that was sent is taken back when its form goes.                 *)
(* (frontend/src/features/vault-list/SecretList.tsx, secret-detail,        *)
(* features/templates/TemplateForm.tsx, components/SensitiveField.tsx)     *)
(***************************************************************************)
EXTENDS Naturals, FiniteSets

CONSTANTS
    Secrets,
    Fields,      \* ids of the sensitive fields of the types; types share them
    MaxForms,    \* bound: the forms opened
    MaxCalls     \* bound: the requests on their way at once

VARIABLES
    filled,      \* which fields of a secret have a value
    own,         \* the secrets with a sensitive field of their own
    visible,     \* SecretList: visible
    known,       \* the secrets whose type byId resolves
    selected,    \* SecretList: selectedSecretId
    choosing,    \* SecretList: choosing, adding, editing
    adding,
    editing,
    opened,      \* how many forms have been mounted
    form,        \* the TemplateForm that is mounted, and what it holds
    calls,       \* what was sent and is not over
    revealed,    \* SensitiveField: revealed, by the field it is the row of
    uncovered,   \* CustomFieldList: shown
    asked,       \* history: what was unmasked since the secret is on the pane
    carried,     \* history: what came unmasked from the secret before
    made,        \* history: how many secrets each form has created: 0, 1, or 2 for more
    unheard,     \* history: the forms that did not hear of what they created
    left,        \* history: the forms that went while what they sent was not over
    taken        \* history: the forms whose answer has closed another

data    == <<filled, own, visible, known>>
choice  == <<selected, choosing, adding, editing>>
history == <<made, unheard, left, taken>>
vars    == <<data, choice, opened, form, calls, revealed, uncovered, asked, carried, history>>

-----------------------------------------------------------------------------
(* No or one secret. *)
Maybe == {{}} \cup {{s} : s \in Secrets}

(* for: the secret that is edited when the form is mounted.                 *)
NoForm == [no |-> 0, for |-> {}, busy |-> FALSE]
Form   == [no : 0..MaxForms, for : Maybe, busy : BOOLEAN]

(* A save on its way. *)
Call == [op : {"add", "edit"}, no : 0..MaxForms, of : Maybe, for : Maybe]

(* The pane shows exactly one of four things. *)
Pane ==
    CASE choosing                                            -> "choice"
      [] ~choosing /\ adding                                 -> "add"
      [] ~choosing /\ ~adding /\ editing \cap known # {}     -> "edit"
      [] OTHER                                               -> "detail"

Forms == {"add", "edit"}

(* The secret on the pane: it is looked up in the list each time. *)
Open == IF Pane = "detail" THEN selected \cap visible ELSE {}

(* The rows of a secret: what has a value, of the fields of its type.       *)
Rows(s) == IF s \in known THEN filled[s] ELSE {}

(* The values that the pane shows in the clear: fields by their id, and the *)
(* secret itself for its own field.                                         *)
InClear ==
    UNION {(revealed \cap Rows(s)) \cup (uncovered \cap own \cap {s}) : s \in Open}

(* Mutant: what is unmasked is kept by the list, which outlives the pane. *)
StillRevealed(r) == r

(* The rows that React keeps: those the secret before, and this one, have.  *)
Revealed(r) ==
    IF Open = {} THEN {}
    ELSE {f \in r : \E s \in Open' : f \in Rows(s)'}

Uncovered(u) ==
    IF Open \cap own # {} /\ Open' \cap own # {} THEN u ELSE {}

(* SecretList is called after any change: f, r and u are what the handler   *)
(* has made of the form and of the masks, a what was asked for.             *)
Render(f, r, u, a) ==
    /\ form' = IF Pane' \notin Forms THEN NoForm
               ELSE IF Pane \in Forms THEN f
               ELSE [NoForm EXCEPT !.no = opened + 1, !.for = IF Pane' = "edit" THEN editing' ELSE {}]
    /\ opened' = IF form'.no > opened THEN form'.no ELSE opened
    /\ opened' <= MaxForms
    /\ revealed' = Revealed(r) /\ uncovered' = Uncovered(u)
    /\ asked' = IF Open' = Open THEN a ELSE {}
    /\ carried' = IF Open' = Open THEN carried \cap InClear'
                  ELSE IF Open = {} THEN {} ELSE InClear'

(* ... and nothing but the pane has changed.                                *)
Redraw == Render(form, revealed, uncovered, asked)

(* A form that goes while its save is on its way.                           *)
Leave == left' = left \cup (IF form.busy /\ form'.no # form.no THEN {form.no} ELSE {})

Init ==
    /\ filled \in [Secrets -> {{}, Fields}] /\ own \in SUBSET Secrets
    /\ visible = Secrets /\ known = Secrets
    /\ selected = {} /\ choosing = FALSE /\ adding = FALSE /\ editing = {}
    /\ opened = 0 /\ form = NoForm /\ calls = {}
    /\ revealed = {} /\ uncovered = {} /\ asked = {} /\ carried = {}
    /\ made = [n \in 1..MaxForms |-> 0] /\ unheard = {} /\ left = {} /\ taken = {}

-----------------------------------------------------------------------------
(* The list and the masks *)

(* selectSecret, also while a form is on the pane. *)
Select(s) ==
    /\ s \in visible
    /\ selected' = {s}
    /\ UNCHANGED <<data, choosing, adding, editing, calls, history>>
    /\ Redraw

backToList ==
    /\ Open # {}
    /\ selected' = {}
    /\ UNCHANGED <<data, choosing, adding, editing, calls, history>>
    /\ Redraw

(* A filter, a search or a deletion changes the list, or it is loaded: after*)
(* a save, and when the types have changed.  An older type is there if it   *)
(* could be fetched.                                                        *)
List ==
    /\ visible' \in SUBSET Secrets
    /\ known' \in {known, Secrets} \cup {Secrets \ {s} : s \in Secrets}
    /\ UNCHANGED <<filled, own, choice, calls, made, unheard, taken>>
    /\ Redraw
    /\ Leave

(* SensitiveField: Reveal and Hide. *)
Toggle(f) ==
    /\ \E s \in Open : f \in Rows(s)
    /\ UNCHANGED <<data, choice, calls, history>>
    /\ LET r == IF f \in revealed THEN revealed \ {f} ELSE revealed \cup {f}
       IN Render(form, r, uncovered, asked \cup {f})

(* Its timer, which is stopped when it is hidden by hand.                   *)
HideAgain(f) ==
    /\ f \in revealed
    /\ UNCHANGED <<data, choice, calls, history>>
    /\ Render(form, revealed \ {f}, uncovered, asked)

(* CustomFieldList: toggle.  It has no timer. *)
ToggleOwn(s) ==
    /\ s \in Open \cap own
    /\ UNCHANGED <<data, choice, calls, history>>
    /\ LET u == IF s \in uncovered THEN uncovered \ {s} ELSE uncovered \cup {s}
       IN Render(form, revealed, u, asked \cup {s})

-----------------------------------------------------------------------------
(* The forms *)

(* Mutant: a form that is open for editing is left under the choice. *)
NewSecretOnly ==
    /\ selected' = {} /\ choosing' = TRUE
    /\ UNCHANGED <<data, adding, editing, calls, made, unheard, taken>>
    /\ Redraw
    /\ Leave

NewSecret ==
    /\ selected' = {} /\ editing' = {} /\ choosing' = TRUE
    /\ UNCHANGED <<data, adding, calls, made, unheard, taken>>
    /\ Redraw
    /\ Leave

Choose ==
    /\ Pane = "choice"
    /\ choosing' = FALSE /\ adding' = TRUE
    /\ UNCHANGED <<data, selected, editing, calls, history>>
    /\ Redraw

(* Cancelling the choice brings back the form that was under it, if any.    *)
CancelChoice ==
    /\ Pane = "choice"
    /\ choosing' = FALSE
    /\ UNCHANGED <<data, selected, adding, editing, calls, history>>
    /\ Redraw

(* onEdit.  The form appears once the type of the secret is known. *)
Edit ==
    /\ Open # {}
    /\ editing' = Open
    /\ UNCHANGED <<data, selected, choosing, adding, calls, history>>
    /\ Redraw

(* Cancel stays enabled while the form is busy. *)
CancelForm ==
    /\ \/ Pane = "add"  /\ adding' = FALSE /\ UNCHANGED editing
       \/ Pane = "edit" /\ editing' = {}   /\ UNCHANGED adding
    /\ UNCHANGED <<data, selected, choosing, calls, made, unheard, taken>>
    /\ Redraw
    /\ Leave

(* What the form's handler sends: create, or update of what is edited now.  *)
Sent ==
    [op |-> Pane, no |-> form.no, of |-> IF Pane = "edit" THEN editing ELSE {}, for |-> form.for]

(* TemplateForm: submit. *)
Submit ==
    /\ Pane \in Forms /\ ~form.busy
    /\ Cardinality(calls) < MaxCalls
    /\ calls' = calls \cup {Sent}
    /\ UNCHANGED <<data, choice, history>>
    /\ Render([form EXCEPT !.busy = TRUE], revealed, uncovered, asked)

(* Past the server: what it has done, and the form that has asked for it.   *)
Done(c) ==
    made' = IF c.op = "add" THEN [made EXCEPT ![c.no] = IF @ = 0 THEN 1 ELSE 2] ELSE made

(* create and update, once the server has answered: whatever form of their  *)
(* kind is open by then is closed.  The load that follows is in List.       *)
Saved(c) ==
    /\ c \in calls /\ c.op \in Forms
    /\ \/ c.op = "add"  /\ adding' = FALSE /\ UNCHANGED editing
       \/ c.op = "edit" /\ editing' = {}   /\ UNCHANGED adding
    /\ calls' = calls \ {c}
    /\ Done(c)
    /\ UNCHANGED <<data, selected, choosing, unheard>>
    /\ Redraw
    /\ taken' = taken \cup (IF form.no # 0 /\ form'.no # form.no /\ form.no # c.no THEN {c.no} ELSE {})
    /\ left' = left \cup (IF form.busy /\ form'.no # form.no /\ form.no # c.no THEN {form.no} ELSE {})

(* The form stays, with what was typed: its save was refused, or what came  *)
(* of it was not heard.                                                     *)
Unsaved(c) ==
    /\ c \in calls /\ c.op \in Forms
    /\ calls' = calls \ {c}
    /\ \/ UNCHANGED <<made, unheard>>
       \/ Done(c) /\ unheard' = unheard \cup {c.no}
    /\ UNCHANGED <<data, choice, left, taken>>
    /\ Render(IF form.no = c.no THEN [form EXCEPT !.busy = FALSE] ELSE form,
              revealed, uncovered, asked)

Next ==
    \/ \E s \in Secrets : Select(s) \/ ToggleOwn(s)
    \/ \E f \in Fields : Toggle(f) \/ HideAgain(f)
    \/ backToList \/ List
    \/ NewSecret \/ Choose \/ CancelChoice \/ Edit \/ CancelForm \/ Submit
    \/ \E c \in calls : Saved(c) \/ Unsaved(c)

Spec == Init /\ [][Next]_vars

-----------------------------------------------------------------------------
TypeOK ==
    /\ filled \in [Secrets -> SUBSET Fields] /\ own \subseteq Secrets
    /\ visible \subseteq Secrets /\ known \subseteq Secrets
    /\ selected \in Maybe /\ editing \in Maybe
    /\ choosing \in BOOLEAN /\ adding \in BOOLEAN
    /\ opened \in 0..MaxForms /\ form \in Form /\ calls \subseteq Call
    /\ revealed \subseteq Fields /\ uncovered \subseteq Secrets
    /\ asked \subseteq Fields \cup Secrets /\ carried \subseteq Fields \cup Secrets
    /\ made \in [1..MaxForms -> 0..2]
    /\ unheard \subseteq 1..MaxForms /\ left \subseteq 1..MaxForms /\ taken \subseteq 1..MaxForms

(* Masks: a sensitive value is in the clear because it was asked for on     *)
(* this secret since it is on the pane; or because that of the secret       *)
(* before was, whose row, or list, React has kept.  Forms, other screens of *)
(* the pane, loads and deletions in between all mask it again.              *)
ClearWasAskedFor == InClear \subseteq asked \cup carried

(* Forms and what they have sent, however cancelling, new forms, loads and  *)
(* answers fall together: what is saved to a secret was typed in a form     *)
(* opened on it; a form creates one secret, unless it was not told of the   *)
(* first; and an answer closes the form it is for, unless that one went     *)
(* before it.                                                               *)
SavesAreTheirForms ==
    /\ \A c \in calls : c.of = c.for
    /\ \A n \in 1..opened : made[n] <= 1 \/ n \in unheard
    /\ taken \subseteq left
=============================================================================
