------------------------------- MODULE Backup -------------------------------
(***************************************************************************)
(* The backup of one vault: the export, which reads the vault table by     *)
(* table while it is used, the file, and its restore as a vault of its own.*)
(*                                                                         *)
(* The file carries what the server holds: rows labelled with the          *)
(* generation that sealed them, the wraps of its owner, folders and types. *)
(* A restore hands over the first of those wraps, which the new vault      *)
(* keeps as generation 1; the rows keep the labels they had.  Tags are     *)
(* remapped as folders are and left out.                                   *)
(* (backend/src/modules/backup/export.route.ts, import.route.ts,           *)
(* frontend/src/features/settings/backup.tsx)                              *)
(***************************************************************************)
EXTENDS Integers, FiniteSets, FiniteSetsExt

CONSTANTS
    Rows,        \* ids of secrets, all written under one custom type
    Folders,     \* ids of folders
    MaxKey       \* bound: no rotation opens beyond this generation

VARIABLES
    kind,        \* vault.kind
    wraps,       \* the generations its owner holds a wrap of
    row,         \* the secrets: none, or a label and a folder
    folder,      \* the folders: an id serves once
    type,        \* the template version the rows are written under
    export,      \* GET export in flight: what it has read
    file,        \* the file downloaded last
    restored,    \* the vault of the last restore, none where it was refused
    crossed      \* history: what changed under the export in flight

vault == <<kind, wraps, row, folder, type>>
vars  == <<vault, export, file, restored, crossed>>

-----------------------------------------------------------------------------
Unfiled == "unfiled"

Row == [key : 1..MaxKey, folder : Folders \cup {Unfiled}]

Tables == {"secrets", "folders", "wraps"}

Events == {"rotation", "member", "folder", "type"}

Bundle == [kind : {"personal", "standard"}, secrets : [Rows -> SUBSET Row],
           folders : SUBSET Folders, wraps : SUBSET (1..MaxKey),
           types : BOOLEAN, crossed : SUBSET Events]

NoSecrets == [r \in Rows |-> {}]

Empty(b) == \A r \in Rows : b.secrets[r] = {}

Written == {r \in Rows : row[r] # {}}

Filed(f) == {r \in Rows : \E x \in row[r] : x.folder = f}

There == {f \in Folders : folder[f] = "there"}

(* A rotation runs while there are two generations. *)
Current == Max(wraps)

Running == Cardinality(wraps) = 2

Member == wraps # {}

Init ==
    /\ kind \in {"personal", "standard"}
    /\ wraps = {1}
    /\ row = NoSecrets
    /\ folder = [f \in Folders |-> "new"]
    /\ type = TRUE
    /\ export = {} /\ file = {} /\ restored = {} /\ crossed = {}

Cross(e) == crossed' = IF export = {} THEN crossed ELSE crossed \cup {e}

(* Once a file is taken it is of no account what becomes of the vault, but *)
(* for its type.                                                           *)
Busy == file = {}

-----------------------------------------------------------------------------
(* The vault in use.  Labels are those of the moment: the writes that      *)
(* overlap a rotation are in VaultRotation.                                *)

Write(r) ==
    /\ Busy /\ Member /\ type /\ row[r] = {}
    /\ \E f \in There \cup {Unfiled} :
         row' = [row EXCEPT ![r] = {[key |-> Current, folder |-> f]}]
    /\ UNCHANGED <<kind, wraps, folder, type, export, file, restored, crossed>>

Delete(r) ==
    /\ row[r] # {}
    /\ row' = [row EXCEPT ![r] = {}]
    /\ UNCHANGED <<kind, wraps, folder, type, export, file, restored, crossed>>

AddFolder(f) ==
    /\ Busy /\ folder[f] = "new"
    /\ folder' = [folder EXCEPT ![f] = "there"]
    /\ Cross("folder")
    /\ UNCHANGED <<kind, wraps, row, type, export, file, restored>>

(* Its secrets are unfiled, or deleted with it. *)
RemoveFolder(f) ==
    /\ Busy /\ folder[f] = "there"
    /\ folder' = [folder EXCEPT ![f] = "gone"]
    /\ \E kept \in {{}, Filed(f)} :
         row' = [r \in Rows |-> IF r \in Filed(f) \ kept THEN {}
                                ELSE {IF x.folder = f THEN [x EXCEPT !.folder = Unfiled] ELSE x
                                        : x \in row[r]}]
    /\ Cross("folder")
    /\ UNCHANGED <<kind, wraps, type, export, file, restored>>

(* DELETE of a type, refused while a secret is written under it. *)
RemoveType ==
    /\ type /\ Written = {}
    /\ type' = FALSE
    /\ Cross("type")
    /\ UNCHANGED <<kind, wraps, row, folder, export, file, restored>>

(* A rotation starts with a revocation, which a personal vault has none of. *)
OpenRotation ==
    /\ Busy /\ kind = "standard" /\ Member /\ ~Running /\ Current < MaxKey
    /\ wraps' = wraps \cup {Current + 1}
    /\ Cross("rotation")
    /\ UNCHANGED <<kind, row, folder, type, export, file, restored>>

Reseal(r) ==
    /\ Busy /\ Running
    /\ \E x \in row[r] :
         /\ x.key # Current
         /\ row' = [row EXCEPT ![r] = {[x EXCEPT !.key = Current]}]
    /\ UNCHANGED <<kind, wraps, folder, type, export, file, restored, crossed>>

CloseRotation ==
    /\ Busy /\ Running
    /\ \A r \in Rows : \A x \in row[r] : x.key = Current
    /\ wraps' = {Current}
    /\ Cross("rotation")
    /\ UNCHANGED <<kind, row, folder, type, export, file, restored>>

(* Another owner revokes this one, and the wraps go. *)
Revoked ==
    /\ Busy /\ kind = "standard" /\ Member
    /\ wraps' = {}
    /\ Cross("member")
    /\ UNCHANGED <<kind, row, folder, type, export, file, restored>>

-----------------------------------------------------------------------------
(* GET /:vaultId/export *)

(* The caller is an owner; the five reads are then under way at once. *)
ExportBegin ==
    /\ Busy /\ Member /\ export = {}
    /\ export' = {[left |-> Tables, secrets |-> NoSecrets, folders |-> {}, wraps |-> {}]}
    /\ crossed' = {}
    /\ UNCHANGED <<vault, file, restored>>

(* Mutant: the wrap of the vault's own generation and no other. *)
ReadCurrent(t) ==
    /\ \E e \in export :
         /\ t \in e.left
         /\ export' = {[left    |-> e.left \ {t},
                        secrets |-> IF t = "secrets" THEN row ELSE e.secrets,
                        folders |-> IF t = "folders" THEN There ELSE e.folders,
                        wraps   |-> IF t = "wraps" /\ Member THEN {Current} ELSE e.wraps]}
    /\ UNCHANGED <<vault, file, restored, crossed>>

(* Each of the reads sees the tables as they are when it is served. *)
Read(t) ==
    /\ \E e \in export :
         /\ t \in e.left
         /\ export' = {[left    |-> e.left \ {t},
                        secrets |-> IF t = "secrets" THEN row ELSE e.secrets,
                        folders |-> IF t = "folders" THEN There ELSE e.folders,
                        wraps   |-> IF t = "wraps" THEN wraps ELSE e.wraps]}
    /\ UNCHANGED <<vault, file, restored, crossed>>

(* The types of those secrets are read last. *)
Bundled(e) == [kind |-> kind, secrets |-> e.secrets, folders |-> e.folders,
               wraps |-> e.wraps, types |-> type /\ ~Empty(e), crossed |-> crossed]

(* download writes the file. *)
Download ==
    /\ \E e \in export : e.left = {} /\ file' = {Bundled(e)}
    /\ export' = {} /\ crossed' = {}
    /\ UNCHANGED <<vault, restored>>

-----------------------------------------------------------------------------
(* POST /vaults/import *)

(* Types the server does not have are made anew from the file, in the same *)
(* transaction; a secret whose type is in neither makes all of it fail.    *)
Renders(f) == Empty(f) \/ type \/ f.types

(* The label the key is kept under is 1, whatever generation it was. *)
Opened(f, x) == f.kind = "standard" /\ Min(f.wraps) = x.key /\ x.key = 1

(* Mutant: the secrets are written before the folders they are mapped to. *)
ImportedSecretsFirst(f) ==
    IF Renders(f)
    THEN {[r \in Rows |-> {[x EXCEPT !.folder = Unfiled] : x \in f.secrets[r]}]}
    ELSE {}

(* The new vault.  A folder the file does not have is dropped from the     *)
(* rows filed in it.                                                       *)
Imported(f) ==
    IF Renders(f)
    THEN {[r \in Rows |-> {IF x.folder \in f.folders THEN x ELSE [x EXCEPT !.folder = Unfiled]
                             : x \in f.secrets[r]}]}
    ELSE {}

(* restore: refused without a wrap. *)
Restore ==
    /\ \E f \in file :
         /\ f.wraps # {}
         /\ restored' = Imported(f)
         /\ type' = (type \/ f.types)
    /\ UNCHANGED <<kind, wraps, row, folder, export, file, crossed>>

Next ==
    \/ \E r \in Rows : Write(r) \/ Delete(r) \/ Reseal(r)
    \/ \E f \in Folders : AddFolder(f) \/ RemoveFolder(f)
    \/ RemoveType \/ OpenRotation \/ CloseRotation \/ Revoked
    \/ ExportBegin \/ (\E t \in Tables : Read(t)) \/ Download
    \/ Restore

Spec == Init /\ [][Next]_vars

-----------------------------------------------------------------------------
(* Every variable has its type. *)
TypeOK ==
    /\ kind \in {"personal", "standard"}
    /\ wraps \subseteq 1..MaxKey /\ Cardinality(wraps) <= 2
    /\ row \in [Rows -> SUBSET Row]
    /\ folder \in [Folders -> {"new", "there", "gone"}]
    /\ type \in BOOLEAN
    /\ \A r \in Rows : \A x \in row[r] : x.folder \in There \cup {Unfiled}
    /\ file \subseteq Bundle
    /\ restored \subseteq [Rows -> SUBSET Row]
    /\ crossed \subseteq Events

(* A file holds the key of every row in it, also when it is taken half-way *)
(* through a rotation: the export reads the rows and the wraps in separate *)
(* statements, and only a rotation that opens or closes between them, or   *)
(* the loss of the membership, can part a row from its wrap.               *)
BundleHoldsItsKeys ==
    \A f \in file :
        f.crossed \cap {"rotation", "member"} = {} =>
            \A r \in Rows : \A x \in f.secrets[r] : x.key \in f.wraps

(* A restore brings back every row of the file, filed as it was, unless a  *)
(* folder or the type went during the export; and the rows of a vault that *)
(* was never rotated open in it.  Those of a personal vault do not, whose  *)
(* wrap is of the wrong sort, nor those of one that was rotated, whose     *)
(* first wrap is kept as generation 1 under rows that say otherwise.       *)
RestoreIsWhole ==
    \A f \in file : f.wraps # {} =>
        /\ Renders(f) \/ "type" \in f.crossed
        /\ \A x \in restored : \A r \in Rows :
             /\ Cardinality(x[r]) = Cardinality(f.secrets[r])
             /\ "folder" \in f.crossed \/ x[r] = f.secrets[r]
             /\ f.kind = "standard" /\ f.wraps = {1} /\ "rotation" \notin f.crossed
                  => \A y \in x[r] : Opened(f, y)
=============================================================================
