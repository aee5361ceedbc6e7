----------------------------- MODULE Templates -----------------------------
(***************************************************************************)
(* One secret type of one owner: its versions, the editors in which it is  *)
(* changed, and the secrets written under it by everyone who has seen it.  *)
(*                                                                         *)
(* A version is never changed; an edit adds the next one.  A draft that is *)
(* submitted is checked first, and where it would hide values its owner is *)
(* asked: other editors publish, secrets are written and the draft itself  *)
(* is changed in between, under a warning that only some changes withdraw. *)
(* A PUT reads the newest number, then writes; a DELETE counts the uses,   *)
(* then deletes.                                                           *)
(* (backend/src/modules/templates/templates.routes.ts,                     *)
(* frontend/src/features/templates/TemplateEditor.tsx, ChangeWarning.tsx)  *)
(***************************************************************************)
EXTENDS Integers, FiniteSets, FiniteSetsExt

CONSTANTS
    Fields,      \* ids of fields
    Secrets,     \* ids of the secrets that may be written under the type
    Editors,     \* editors of the type open at once
    MaxNumber    \* bound: no version is published beyond this number

VARIABLES
    versions,    \* template_version: the numbers and their fields
    current,     \* template.currentVersionId, as a number; 0 when it is deleted
    written,     \* the secrets: the version of each, and the fields with a value
    editor       \* TemplateEditor, and its request in flight

vars == <<versions, current, written, editor>>

-----------------------------------------------------------------------------
(* parseFields: at least one, each id once. *)
FieldSets == (SUBSET Fields) \ {{}}

Version == [number : Nat, fields : FieldSets]

(* What an editor of the page holds, and its request in flight.  A DELETE   *)
(* beside a save of the same page is one of another editor here.            *)
Blank == [draft      |-> {},       \* the fields it shows; none: it is closed
          confirming |-> FALSE,    \* the state of that name
          names      |-> {},       \* what the warning, on display or confirmed, names
          about      |-> {},       \* the draft that its check was made for
          since      |-> {},       \* history: secrets written since that check
          call       |-> "none",   \* the request in flight
          sent       |-> {},       \* the draft that was submitted
          number     |-> 0]        \* the version number that the PUT has read

Calls == {"none", "asked", "sending", "putting", "deleting"}

NotWritten == [under |-> 0, values |-> {}]

Exists == current # 0

Newest == Max({v.number : v \in versions})

FieldsOf(n) == UNION {v.fields : v \in {w \in versions : w.number = n}}

Uses == {s \in Secrets : written[s].under # 0}

Init ==
    /\ \E fields \in FieldSets : versions = {[number |-> 1, fields |-> fields]}
    /\ current = 1
    /\ written = [s \in Secrets |-> NotWritten]
    /\ editor = [e \in Editors |-> Blank]

-----------------------------------------------------------------------------
(* The editor in the page *)

Becomes(e, r) == editor' = [editor EXCEPT ![e] = r]

(* What was shown or confirmed is let go of. *)
Unwarned(r) == [r EXCEPT !.confirming = FALSE, !.names = {}, !.about = {}, !.since = {}]

(* setConfirming(false): a save that is under way was confirmed before.     *)
Withdrawn(r) == IF r.confirming THEN Unwarned(r) ELSE r

(* startEdit, from a version that the page shows: what is left of an older  *)
(* warning is shown again.                                                  *)
Start(e) ==
    /\ editor[e].draft = {}
    /\ \E v \in versions : Becomes(e, [editor[e] EXCEPT !.draft = v.fields])
    /\ UNCHANGED <<versions, current, written>>

(* update: a field is changed, or a new one gets its name.  It withdraws    *)
(* the warning, as does going back from it.                                 *)
Update(e) ==
    /\ editor[e].draft # {}
    /\ \E f \in Fields : Becomes(e, [Withdrawn(editor[e]) EXCEPT !.draft = @ \cup {f}])
    /\ UNCHANGED <<versions, current, written>>

(* Remove, which leaves the warning on display.                             *)
Remove(e) ==
    /\ \E f \in editor[e].draft :
         /\ editor[e].draft # {f}
         /\ Becomes(e, [editor[e] EXCEPT !.draft = @ \ {f}])
    /\ UNCHANGED <<versions, current, written>>

(* Cancel: what is in flight goes on.                                       *)
Close(e) ==
    /\ editor[e].draft # {}
    /\ Becomes(e, [Withdrawn(editor[e]) EXCEPT !.draft = {}])
    /\ UNCHANGED <<versions, current, written>>

(* Mutant: what older versions had is forgotten. *)
KnownNow == FieldsOf(Newest)

(* Every field the type has ever had. *)
Known == UNION {v.fields : v \in versions}

(* POST /templates/:templateId/impact: the secrets that hold a value in a   *)
(* field which the proposal drops, and the fields that a warning names.     *)
Affected(fields) == {s \in Uses : written[s].values \cap (Known \ fields) # {}}

Named(fields) == IF Affected(fields) = {} THEN {} ELSE Known \ fields

(* A live check is answered, or fails: a standing warning then shows that   *)
(* answer, or nothing.  Each draft is checked 400 ms after it came up and   *)
(* nothing cancels a check that was sent, so it may be of any draft that    *)
(* the editor went through.                                                 *)
Noted(e) ==
    /\ editor[e].confirming
    /\ \E draft \in FieldSets : \E names \in {{}, Named(draft)} :
         Becomes(e, [editor[e] EXCEPT !.names = names, !.about = draft, !.since = {}])
    /\ UNCHANGED <<versions, current, written>>

(* submit asks again, for the draft there is ...                            *)
Submit(e) ==
    /\ editor[e].call = "none"
    /\ editor[e].draft # {}
    /\ Becomes(e, [editor[e] EXCEPT !.call = "asked", !.sent = editor[e].draft])
    /\ UNCHANGED <<versions, current, written>>

(* ... and warns of what that would hide, or saves it: whatever the draft   *)
(* has become, and though the editor was closed.                            *)
Impact(e) ==
    LET r       == editor[e]
        checked == [r EXCEPT !.names = Named(r.sent), !.about = r.sent, !.since = {}]
    IN /\ Exists
       /\ r.call = "asked"
       /\ Becomes(e, IF Affected(r.sent) = {}
                       THEN [checked EXCEPT !.call = "sending", !.confirming = FALSE]
                       ELSE [checked EXCEPT !.call = "none", !.confirming = TRUE, !.sent = {}])
       /\ UNCHANGED <<versions, current, written>>

(* The warning is confirmed, and the draft there is now is saved.           *)
Confirm(e) ==
    /\ editor[e].call = "none"
    /\ editor[e].draft # {}
    /\ editor[e].names # {}
    /\ Becomes(e, [editor[e] EXCEPT !.call = "sending", !.sent = editor[e].draft,
                                    !.confirming = FALSE])
    /\ UNCHANGED <<versions, current, written>>

(* A check or a save has ended; a save takes its warning with it.           *)
Ended(r) ==
    LET over == [r EXCEPT !.call = "none", !.sent = {}, !.number = 0]
    IN  IF r.confirming THEN over ELSE Unwarned(over)

(* The check or the save fails, or a deletion is refused, and it says so.   *)
Fail(e) ==
    /\ editor[e].call # "none"
    /\ Becomes(e, Ended(editor[e]))
    /\ UNCHANGED <<versions, current, written>>

-----------------------------------------------------------------------------
(* PUT /templates/:templateId: the newest number is read ...                *)
PutRead(e) ==
    /\ Exists
    /\ editor[e].call = "sending"
    /\ Becomes(e, [editor[e] EXCEPT !.call = "putting", !.number = Newest + 1])
    /\ UNCHANGED <<versions, current, written>>

(* The version is written, and a draft that is open then is closed with it, *)
(* unless the answer is lost.                                               *)
Publish(e) ==
    /\ editor[e].number <= MaxNumber
    /\ versions' = versions \cup {[number |-> editor[e].number, fields |-> editor[e].sent]}
    /\ current' = editor[e].number
    /\ \E draft \in {{}, editor[e].draft} :
         Becomes(e, [Ended(editor[e]) EXCEPT !.draft = draft])
    /\ UNCHANGED written

(* Mutant: no unique index on (templateId, version). *)
PutUnindexed(e) ==
    /\ Exists
    /\ editor[e].call = "putting"
    /\ Publish(e)

(* ... and the version is written under the number after it, which nobody   *)
(* else may have taken meanwhile.                                           *)
PutCommit(e) ==
    /\ Exists
    /\ editor[e].call = "putting"
    /\ \A v \in versions : v.number # editor[e].number
    /\ Publish(e)

(* DELETE /templates/:templateId, from the list: the uses are counted ...   *)
RemoveRead(e) ==
    /\ Exists
    /\ Uses = {}
    /\ editor[e].draft = {}
    /\ editor[e].call = "none"
    /\ Becomes(e, [editor[e] EXCEPT !.call = "deleting"])
    /\ UNCHANGED <<versions, current, written>>

(* Mutant: a foreign key that cascades from the version to its secrets.     *)
RemoveCascading(e) ==
    /\ Exists
    /\ editor[e].call = "deleting"
    /\ versions' = {}
    /\ current' = 0
    /\ Becomes(e, Ended(editor[e]))
    /\ UNCHANGED written

(* ... and the type goes with its versions, unless a secret has come to     *)
(* refer to one of them: that foreign key restricts.                        *)
RemoveCommit(e) ==
    /\ Exists
    /\ Uses = {}
    /\ editor[e].call = "deleting"
    /\ versions' = {}
    /\ current' = 0
    /\ Becomes(e, Ended(editor[e]))
    /\ UNCHANGED written

-----------------------------------------------------------------------------
(* Secrets are created under any version that a page still shows, and saved *)
(* under the version they were created under.                               *)
Write(s) ==
    /\ \E n \in {v.number : v \in versions} :
         /\ written[s].under \in {0, n}
         /\ \E values \in SUBSET FieldsOf(n) :
              written' = [written EXCEPT ![s] = [under |-> n, values |-> values]]
    /\ editor' = [e \in Editors |-> IF editor[e].about = {} THEN editor[e]
                                     ELSE [editor[e] EXCEPT !.since = @ \cup {s}]]
    /\ UNCHANGED <<versions, current>>

Erase(s) ==
    /\ written[s] # NotWritten
    /\ written' = [written EXCEPT ![s] = NotWritten]
    /\ UNCHANGED <<versions, current, editor>>

Next ==
    \/ \E e \in Editors :
         \/ Start(e) \/ Update(e) \/ Remove(e) \/ Close(e) \/ Noted(e)
         \/ Submit(e) \/ Impact(e) \/ Confirm(e) \/ Fail(e)
         \/ PutRead(e) \/ PutCommit(e) \/ RemoveRead(e) \/ RemoveCommit(e)
    \/ \E s \in Secrets : Write(s) \/ Erase(s)

Spec == Init /\ [][Next]_vars

-----------------------------------------------------------------------------
(* Properties *)

TypeOK ==
    /\ versions \subseteq Version
    /\ current \in Nat
    /\ written \in [Secrets -> [under : Nat, values : SUBSET Fields]]
    /\ editor \in [Editors -> [draft : SUBSET Fields, confirming : BOOLEAN,
                               names : SUBSET Fields, about : SUBSET Fields,
                               since : SUBSET Secrets, call : Calls,
                               sent : SUBSET Fields, number : Nat]]

(* A secret renders as it was authored: the version it was written under    *)
(* stays, with a field for every value, whatever is published or deleted    *)
(* while it is being written.  (templates.routes.ts:200-203, FR-040)        *)
SecretsRender ==
    \A s \in Uses : \E v \in versions :
        v.number = written[s].under /\ written[s].values \subseteq v.fields

(* What new secrets are written under is the newest version, and a number   *)
(* is one version, though two edits may have read the same number.          *)
(* (templates.routes.ts:214-220)                                            *)
CurrentIsNewest ==
    /\ Exists => current = Newest
    /\ \A v, w \in versions : v.number = w.number => v = w

(* The secrets with a value in a field that is neither published nor named. *)
Unnamed(e) ==
    {s \in Secrets : ~(written[s].values \subseteq editor[e].sent \cup editor[e].names)}

(* No save hides a value in a field that the owner was not shown, but in    *)
(* secrets written since the last check; except where the warning that was  *)
(* confirmed was not about the draft that is published, because fields were *)
(* removed under it, or a check of another draft had answered last.         *)
(* (TemplateEditor.tsx:102-150, FR-042)                                     *)
LossIsAnnounced ==
    [][\A e \in Editors :
          (editor[e].call = "putting" /\ versions' # versions /\ editor'[e].call # "putting") =>
              (editor[e].about = editor[e].sent => Unnamed(e) \subseteq editor[e].since)]_vars
=============================================================================
