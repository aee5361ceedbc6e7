----------------------------- MODULE VaultTables -----------------------------
(***************************************************************************)
(* The rows the server keeps about ONE vault, and the requests in flight.  *)
(*                                                                         *)
(* A handler of backend/src/modules/vaults and .../secrets reads what it   *)
(* checks, decides, and then writes in one transaction.  PostgreSQL runs   *)
(* at READ COMMITTED, and most reads are made before the transaction       *)
(* opens, so other requests commit between the two halves.  Every handler  *)
(* is therefore two actions, ...Read and ...Commit, and request[r] is what *)
(* the handler remembers from the first to the second.                     *)
(*                                                                         *)
(* Identifiers are never reused: a user who declines and is invited again  *)
(* gets a fresh membership row, which is another element of Users here,    *)
(* and a row created after a deletion is another element of Items.         *)
(***************************************************************************)
EXTENDS Integers, FiniteSets

CONSTANTS
    Users,       \* the users a membership row may be written for
    Creator,     \* the user who created the vault
    Secrets,     \* ids of secrets
    Folders,     \* ids of folders
    Tags,        \* ids of tags
    VaultName,   \* stands for the vault's own encrypted name
    Requests,    \* handlers that may be in flight at once
    Roles,       \* the roles an owner hands out: a subset of AllRoles
    Handlers,    \* the kinds of request the clients send
    MaxVersion   \* bound: no rotation opens beyond this generation

Items == Secrets \cup Folders \cup Tags \cup {VaultName}

AllRoles == {"viewer", "editor", "owner"}

Kinds == {"open", "batch", "close", "create", "rename", "delete",
          "invite", "complete", "accept", "decline", "revoke", "role"}

ASSUME CreatorAssumption == Creator \in Users

ASSUME ItemAssumption ==
    /\ VaultName \notin Secrets \cup Folders \cup Tags
    /\ Secrets \cap Folders = {}
    /\ Secrets \cap Tags = {}
    /\ Folders \cap Tags = {}

ASSUME InputAssumption == Roles \subseteq AllRoles /\ Handlers \subseteq Kinds

ASSUME VersionAssumption == MaxVersion \in Nat

VARIABLES
    keyVersion,    \* vault.keyVersion: the highest generation
    rowVersion,    \* keyVersion of every secret, folder, tag; nameKeyVersion
    membership,    \* vault_membership, one row per user
    keyWraps,      \* vault_key_wrap: the generations each membership holds
    rotation,      \* the latest vault_rotation row
    request,       \* what each handler in flight has read
    lateRows,      \* history: rows labelled from an outdated read
    lateMembers,   \* history: members written from an outdated read
    rewound        \* history: a rotation opened from an outdated read

tables  == <<keyVersion, rowVersion, membership, keyWraps, rotation>>
history == <<lateRows, lateMembers, rewound>>
vars    == <<tables, request, history>>

-----------------------------------------------------------------------------
(* Rows *)

Unborn  == 0     \* the row has not been created yet
Deleted == -1    \* the row has been deleted

Status == {"none", "invited", "active", "revoked", "deleted"}

NoMembership == [status |-> "none", role |-> "viewer"]

Idle == [kind |-> "idle", subject |-> Creator, role |-> "viewer",
         version |-> 0, rotationId |-> 0, members |-> {}, items |-> {}]

RequestType ==
    [kind : Kinds \cup {"idle"}, subject : Users, role : AllRoles,
     version : Nat, rotationId : Nat,
     members : SUBSET Users, items : SUBSET Items]

Exists(i) == rowVersion[i] > 0

Existing == {i \in Items : Exists(i)}

HasRow(u) == membership[u].status \in {"invited", "active", "revoked"}

(* The members a rotation must wrap its new key for. *)
Live(u) == membership[u].status \in {"active", "invited"}

LiveUsers == {u \in Users : Live(u)}

(* requireMembership: an active member of at least the given role. *)
IsOwner(u) == membership[u].status = "active" /\ membership[u].role = "owner"

IsEditor(u) ==
    /\ membership[u].status = "active"
    /\ membership[u].role \in {"editor", "owner"}

SomeOwner == \E u \in Users : IsOwner(u)

SomeEditor == \E u \in Users : IsEditor(u)

(* The generations a row may legitimately be labelled with. *)
LiveVersions ==
    {keyVersion} \cup (IF rotation.running THEN {rotation.from} ELSE {})

-----------------------------------------------------------------------------
(* The life of a request *)

(* Request r starts: it remembers what it has read. *)
Begin(r, kind, reads) ==
    /\ kind \in Handlers
    /\ request[r] = Idle
    /\ request' = [request EXCEPT ![r] = reads]

(* Request r, of the given kind, ends as its transaction commits. *)
Finish(r, kind) ==
    /\ request[r].kind = kind
    /\ request' = [request EXCEPT ![r] = Idle]

(* The transaction is refused by a constraint or by a missing row, or the  *)
(* process dies before it commits: nothing it wrote survives.              *)
Fail(r) ==
    /\ request[r] # Idle
    /\ request' = [request EXCEPT ![r] = Idle]
    /\ UNCHANGED <<tables, history>>

(* POST /vaults: the creator is the only member and the only owner, and    *)
(* holds the one wrap there is, at generation 1.                           *)
Init ==
    /\ keyVersion = 1
    /\ rowVersion = [i \in Items |-> IF i = VaultName THEN 1 ELSE Unborn]
    /\ membership =
         [u \in Users |-> IF u = Creator THEN [status |-> "active", role |-> "owner"]
                                         ELSE NoMembership]
    /\ keyWraps = [u \in Users |-> IF u = Creator THEN {1} ELSE {}]
    /\ rotation = [id |-> 0, from |-> 0, running |-> FALSE]
    /\ request = [r \in Requests |-> Idle]
    /\ lateRows = {} /\ lateMembers = {} /\ rewound = FALSE

TypeOK ==
    /\ keyVersion \in Nat
    /\ rowVersion \in [Items -> Nat \cup {Deleted}]
    /\ membership \in [Users -> [status : Status, role : AllRoles]]
    /\ keyWraps \in [Users -> SUBSET Nat]
    /\ rotation \in [id : Nat, from : Nat, running : BOOLEAN]
    /\ request \in [Requests -> RequestType]
    /\ lateRows \subseteq Items
    /\ lateMembers \subseteq Users
    /\ rewound \in BOOLEAN
=============================================================================
