---------------------------- MODULE SecretStore ----------------------------
(***************************************************************************)
(* The rows of one vault as its members' pages read and write them: what a *)
(* save replaces, where a secret is filed, which tags it carries, and what *)
(* becomes of it when its folder or a tag goes.                            *)
(*                                                                         *)
(* Every page has at most one request in flight.  A handler reads, then    *)
(* writes in one transaction; deleting a folder with its contents lists    *)
(* them first.  At most one folder: a set, empty where there is none.      *)
(* (backend/src/modules/secrets/secrets.routes.ts, organise.routes.ts,     *)
(* frontend/src/features/vault-list/SecretList.tsx, organise/Organise.tsx) *)
(***************************************************************************)
EXTENDS Integers, FiniteSets

CONSTANTS
    Secrets,      \* ids of secrets
    Folders,      \* ids of folders
    Tags,         \* ids of tags
    Pages,        \* the members' pages
    MaxRevision   \* bound: no secret is saved beyond this revision

VARIABLES
    row,          \* secret and secret_tag
    folder,       \* folder
    tag,          \* tag
    shown,        \* what each page shows of a secret: at most one row
    asked,        \* the request of each page that is in flight
    logged,       \* the secrets that activity_log_entry calls deleted
    moved,        \* history: secrets written while a folder was being emptied
    overtaken     \* history: pages showing a row filed or tagged by others since

labels == <<folder, tag>>
vars   == <<row, labels, shown, asked, logged, moved, overtaken>>

-----------------------------------------------------------------------------
States == {"unborn", "live", "deleted"}

(* basis counts the saves whose outcome the present text has taken in.      *)
Unborn == [state |-> "unborn", revision |-> 0, basis |-> 0, folder |-> {}, tags |-> {}]

Row == [state : States, revision : Nat, basis : Nat, folder : SUBSET Folders, tags : SUBSET Tags]

Nothing == [kind |-> "none", secrets |-> {}, folder |-> {}, tags |-> {}]

Asked == [kind : {"none", "create", "save", "retag", "delete", "orphan", "cascade", "emptying"},
          secrets : SUBSET Secrets, folder : SUBSET Folders, tags : SUBSET Tags]

(* The folder a form may choose, or none.                                   *)
Choices == {{}} \cup {{f} : f \in Folders}

Stands(names, rows) == \A n \in names : rows[n] = "live"

Inside(f) == {s \in Secrets : row[s].state = "live" /\ f \in row[s].folder}

Emptying == \E p \in Pages : asked[p].kind = "emptying"

Init ==
    /\ row = [s \in Secrets |-> Unborn]
    /\ folder = [f \in Folders |-> "unborn"]
    /\ tag = [t \in Tags |-> "unborn"]
    /\ shown = [p \in Pages |-> {}]
    /\ asked = [p \in Pages |-> Nothing]
    /\ logged = {} /\ moved = {} /\ overtaken = {}

-----------------------------------------------------------------------------
Ask(p, request) ==
    /\ asked[p] = Nothing
    /\ asked' = [asked EXCEPT ![p] = request]
    /\ UNCHANGED <<row, labels, shown, logged, moved, overtaken>>

Answered(p) == asked' = [asked EXCEPT ![p] = Nothing]

(* What the other pages show of s is filed or tagged otherwise from now on. *)
Overtake(p, s) ==
    overtaken' = overtaken \cup {q \in Pages \ {p} : \E seen \in shown[q] : seen.secret = s}

MarkMoved(s) == moved' = IF Emptying THEN moved \cup {s} ELSE moved

(* Refused: not found, a constraint, a revision that has moved, no network. *)
Refused(p) ==
    /\ asked[p] # Nothing
    /\ Answered(p)
    /\ UNCHANGED <<row, labels, shown, logged, moved, overtaken>>

(* load, and a row of the list is opened.                                   *)
Load(p) ==
    /\ asked[p] = Nothing
    /\ \E s \in Secrets :
         /\ row[s].state = "live"
         /\ shown' = [shown EXCEPT ![p] = {[secret |-> s, row |-> row[s]]}]
    /\ overtaken' = overtaken \ {p}
    /\ UNCHANGED <<row, labels, asked, logged, moved>>

-----------------------------------------------------------------------------
(* POST /vaults/:vaultId/secrets: the tags are resolved, then the row and   *)
(* its tags are written, under their foreign keys.                          *)
CreateRead(p) ==
    \E s \in Secrets, where \in Choices, tags \in SUBSET Tags :
        /\ row[s].state = "unborn"
        /\ Stands(where, folder) /\ Stands(tags, tag)
        /\ Ask(p, [kind |-> "create", secrets |-> {s}, folder |-> where, tags |-> tags])

CreateCommit(p) ==
    /\ asked[p].kind = "create"
    /\ Stands(asked[p].folder, folder) /\ Stands(asked[p].tags, tag)
    /\ \E s \in asked[p].secrets :
         /\ row[s].state = "unborn"
         /\ row' = [row EXCEPT ![s] = [state |-> "live", revision |-> 1, basis |-> 1,
                                       folder |-> asked[p].folder, tags |-> asked[p].tags]]
         /\ MarkMoved(s)
    /\ Answered(p)
    /\ UNCHANGED <<labels, shown, logged, overtaken>>

(* A save of the form, or a filing from the list, which is a save of what   *)
(* the list shows: PUT /vaults/:vaultId/secrets/:secretId.                  *)
SaveRead(p) ==
    \E seen \in shown[p], where \in Choices, tags \in SUBSET Tags :
        /\ row[seen.secret].state = "live"
        /\ Stands(tags, tag)
        /\ Ask(p, [kind |-> "save", secrets |-> {seen.secret}, folder |-> where, tags |-> tags])

Replaced(p, seen) ==
    [state |-> "live", revision |-> row[seen.secret].revision + 1, basis |-> seen.row.basis + 1,
     folder |-> asked[p].folder, tags |-> asked[p].tags]

(* Mutant: the revision is not in the WHERE clause. *)
SaveBlindly(p) ==
    /\ asked[p].kind = "save"
    /\ Stands(asked[p].folder, folder) /\ Stands(asked[p].tags, tag)
    /\ \E seen \in shown[p] :
         /\ row[seen.secret].state = "live"
         /\ row[seen.secret].revision < MaxRevision
         /\ row' = [row EXCEPT ![seen.secret] = Replaced(p, seen)]
         /\ MarkMoved(seen.secret)
         /\ shown' = [shown EXCEPT ![p] = {}]
    /\ Answered(p)
    /\ overtaken' = overtaken \ {p}
    /\ UNCHANGED <<labels, logged>>

(* Mutant: no foreign key from secret_tag to tag. *)
SaveUnchecked(p) ==
    /\ asked[p].kind = "save"
    /\ Stands(asked[p].folder, folder)
    /\ \E seen \in shown[p] :
         /\ row[seen.secret].state = "live"
         /\ row[seen.secret].revision = seen.row.revision
         /\ row[seen.secret].revision < MaxRevision
         /\ row' = [row EXCEPT ![seen.secret] = Replaced(p, seen)]
         /\ MarkMoved(seen.secret)
         /\ shown' = [shown EXCEPT ![p] = {}]
    /\ Answered(p)
    /\ overtaken' = overtaken \ {p}
    /\ UNCHANGED <<labels, logged>>

(* The revision is compared by the statement that writes.                   *)
SaveCommit(p) ==
    /\ asked[p].kind = "save"
    /\ Stands(asked[p].folder, folder) /\ Stands(asked[p].tags, tag)
    /\ \E seen \in shown[p] :
         /\ row[seen.secret].state = "live"
         /\ row[seen.secret].revision = seen.row.revision
         /\ row[seen.secret].revision < MaxRevision
         /\ row' = [row EXCEPT ![seen.secret] = Replaced(p, seen)]
         /\ MarkMoved(seen.secret)
         /\ shown' = [shown EXCEPT ![p] = {}]
    /\ Answered(p)
    /\ overtaken' = overtaken \ {p}
    /\ UNCHANGED <<labels, logged>>

(* toggleTag: the set shown, but for one tag, replaces the set stored.      *)
RetagRead(p) ==
    \E seen \in shown[p], t \in Tags :
        LET tags == IF t \in seen.row.tags THEN seen.row.tags \ {t} ELSE seen.row.tags \cup {t}
        IN /\ row[seen.secret].state = "live"
           /\ Stands(tags, tag)
           /\ Ask(p, [kind |-> "retag", secrets |-> {seen.secret}, folder |-> {}, tags |-> tags])

RetagCommit(p) ==
    /\ asked[p].kind = "retag"
    /\ Stands(asked[p].tags, tag)
    /\ \E s \in asked[p].secrets :
         /\ row[s].state = "live"
         /\ row' = [row EXCEPT ![s].tags = asked[p].tags]
         /\ Overtake(p, s)
    /\ Answered(p)
    /\ shown' = [shown EXCEPT ![p] = {}]
    /\ UNCHANGED <<labels, logged, moved>>

-----------------------------------------------------------------------------
(* DELETE /vaults/:vaultId/secrets/:secretId *)
DeleteRead(p) ==
    \E seen \in shown[p] :
        /\ row[seen.secret].state = "live"
        /\ Ask(p, [Nothing EXCEPT !.kind = "delete", !.secrets = {seen.secret}])

(* Mutant: the row is kept, and marked. *)
DeletedSoftly(s) == [row[s] EXCEPT !.state = "trashed", !.folder = {}, !.tags = {}]

Deleted(s) == [row[s] EXCEPT !.state = "deleted", !.folder = {}, !.tags = {}]

DeleteCommit(p) ==
    /\ asked[p].kind = "delete"
    /\ \E s \in asked[p].secrets :
         /\ row[s].state = "live"
         /\ row' = [row EXCEPT ![s] = Deleted(s)]
         /\ logged' = logged \cup {s}
         /\ MarkMoved(s)
    /\ Answered(p)
    /\ shown' = [shown EXCEPT ![p] = {}]
    /\ UNCHANGED <<labels, overtaken>>

CreateLabel(p) ==
    /\ asked[p] = Nothing
    /\ \/ /\ \E f \in Folders : folder[f] = "unborn" /\ folder' = [folder EXCEPT ![f] = "live"]
          /\ UNCHANGED tag
       \/ /\ \E t \in Tags : tag[t] = "unborn" /\ tag' = [tag EXCEPT ![t] = "live"]
          /\ UNCHANGED folder
    /\ UNCHANGED <<row, shown, asked, logged, moved, overtaken>>

(* DELETE /vaults/:vaultId/tags/:tagId: the label goes, the secrets stay.   *)
DeleteTag(p) ==
    /\ asked[p] = Nothing
    /\ \E t \in Tags :
         /\ tag[t] = "live"
         /\ tag' = [tag EXCEPT ![t] = "deleted"]
         /\ row' = [s \in Secrets |-> [row[s] EXCEPT !.tags = @ \ {t}]]
         /\ overtaken' = overtaken \cup
                {q \in Pages : \E seen \in shown[q] : t \in row[seen.secret].tags}
    /\ UNCHANGED <<folder, shown, asked, logged, moved>>

(* DELETE /vaults/:vaultId/folders/:folderId?disposition=...: the folder is *)
(* looked up, then it goes, with its contents or without.                   *)
FolderRead(p) ==
    \E f \in Folders, disposition \in {"orphan", "cascade"} :
        /\ folder[f] = "live"
        /\ Ask(p, [Nothing EXCEPT !.kind = disposition, !.folder = {f}])

OrphanCommit(p) ==
    /\ asked[p].kind = "orphan"
    /\ Stands(asked[p].folder, folder)
    /\ \E f \in asked[p].folder :
         /\ folder' = [folder EXCEPT ![f] = "deleted"]
         /\ row' = [s \in Secrets |-> [row[s] EXCEPT !.folder = @ \ {f}]]
         /\ overtaken' = overtaken \cup
                {q \in Pages : \E seen \in shown[q] : f \in row[seen.secret].folder}
    /\ Answered(p)
    /\ UNCHANGED <<tag, shown, logged, moved>>

(* The transaction lists the secrets it is about to delete ...              *)
CascadeList(p) ==
    /\ asked[p].kind = "cascade"
    /\ asked' = [asked EXCEPT ![p].kind = "emptying",
                              ![p].secrets = UNION {Inside(f) : f \in asked[p].folder}]
    /\ UNCHANGED <<row, labels, shown, logged, moved, overtaken>>

(* Mutant: the folder's own deletion is all that is left to do. *)
CascadeUnlogged(p) ==
    /\ asked[p].kind = "emptying"
    /\ Stands(asked[p].folder, folder)
    /\ \E f \in asked[p].folder :
         /\ folder' = [folder EXCEPT ![f] = "deleted"]
         /\ row' = [s \in Secrets |-> IF s \in Inside(f) THEN Deleted(s) ELSE row[s]]
    /\ Answered(p)
    /\ UNCHANGED <<tag, shown, logged, moved, overtaken>>

(* ... and deletes those that are there now, but logs those it has listed.  *)
CascadeCommit(p) ==
    /\ asked[p].kind = "emptying"
    /\ Stands(asked[p].folder, folder)
    /\ \E f \in asked[p].folder :
         /\ folder' = [folder EXCEPT ![f] = "deleted"]
         /\ row' = [s \in Secrets |-> IF s \in Inside(f) THEN Deleted(s) ELSE row[s]]
    /\ logged' = logged \cup asked[p].secrets
    /\ Answered(p)
    /\ UNCHANGED <<tag, shown, moved, overtaken>>

Next ==
    \E p \in Pages :
        \/ Load(p) \/ CreateRead(p) \/ CreateCommit(p) \/ SaveRead(p) \/ SaveCommit(p)
        \/ RetagRead(p) \/ RetagCommit(p) \/ DeleteRead(p) \/ DeleteCommit(p)
        \/ CreateLabel(p) \/ DeleteTag(p) \/ FolderRead(p) \/ OrphanCommit(p)
        \/ CascadeList(p) \/ CascadeCommit(p) \/ Refused(p)

Spec == Init /\ [][Next]_vars

-----------------------------------------------------------------------------
(* Properties *)

TypeOK ==
    /\ row \in [Secrets -> Row]
    /\ folder \in [Folders -> States] /\ tag \in [Tags -> States]
    /\ shown \in [Pages -> SUBSET [secret : Secrets, row : Row]]
    /\ asked \in [Pages -> Asked]
    /\ logged \subseteq Secrets /\ moved \subseteq Secrets /\ overtaken \subseteq Pages

(* No accepted save discards another: the text of a secret has taken in     *)
(* every save of it.  (secrets.routes.ts:160-171, SecretList.tsx:320)       *)
EverySaveCounts == \A s \in Secrets : row[s].basis = row[s].revision

(* A save takes nothing back that the page was not shown: the row it        *)
(* replaces is filed and tagged as shown, unless somebody has tagged it or  *)
(* deleted its folder or tag since, none of which moves the revision.       *)
(* (SecretList.tsx:333-350)                                                 *)
SavesReplaceWhatIsShown ==
    [][\A p \in Pages : \A seen \in shown[p] :
          /\ asked[p].kind = "save"
          /\ row'[seen.secret].revision > row[seen.secret].revision
          /\ asked'[p] = Nothing
          => row[seen.secret] = seen.row \/ p \in overtaken]_vars

(* A live secret is in a folder and has tags that are there.                *)
(* (organise.routes.ts:55-59, 123-126)                                      *)
NothingDangles ==
    \A s \in Secrets : Stands(row[s].folder, folder) /\ Stands(row[s].tags, tag)

(* The log names the secrets that were deleted and no others, whichever way *)
(* they went, but for those written while their folder was being emptied.   *)
(* (organise.routes.ts:82-83, FR-079)                                       *)
LogMatchesDeletions ==
    \A s \in Secrets \ moved : s \in logged <=> row[s].state = "deleted"
=============================================================================
