---------------------------- MODULE VaultRotation ----------------------------
(***************************************************************************)
(* The vault's key generations: a rotation is opened, rows are moved to    *)
(* the new generation in batches, and closing it destroys the old          *)
(* generation's wraps.  Meanwhile members come and go and rows are written.*)
(***************************************************************************)
EXTENDS VaultMembership

(* Mutant: folders, tags and the vault's name are forgotten. *)
OutstandingSecrets(v) == {i \in Secrets : rowVersion[i] = v}

(* Everything still labelled with a generation: secrets, folders, tags and *)
(* the vault's name.                                                       *)
Outstanding(v) == {i \in Items : rowVersion[i] = v}

-----------------------------------------------------------------------------
(* POST /:vaultId/rotation.  No rotation is running, toVersion is the next *)
(* generation, and a wrap is supplied for every active or invited member.  *)
OpenRead(r) ==
    /\ SomeOwner
    /\ ~rotation.running
    /\ keyVersion < MaxVersion
    /\ Begin(r, "open", [Idle EXCEPT !.kind = "open", !.version = keyVersion,
                                     !.members = LiveUsers])
    /\ UNCHANGED <<tables, history>>

(* Mutant: the new wrap replaces the old one while rows still need it. *)
OpenReplacesWraps(r) ==
    LET to == request[r].version + 1
    IN /\ Finish(r, "open")
       /\ ~rotation.running
       /\ rotation' = [id |-> rotation.id + 1, from |-> to - 1, running |-> TRUE]
       /\ keyWraps' = [u \in Users |-> IF u \in request[r].members THEN {to} ELSE keyWraps[u]]
       /\ keyVersion' = to
       /\ rewound' = (rewound \/ to - 1 # keyVersion)
       /\ UNCHANGED <<rowVersion, membership, lateRows, lateMembers>>

(* The row is refused while another rotation runs, and the wraps where the *)
(* membership row is gone or already holds that generation.  Nothing looks *)
(* at the status again: a member revoked since the read gets a wrap too.   *)
OpenCommit(r) ==
    LET from == request[r].version
        to   == from + 1
        mine == request[r].members
    IN /\ Finish(r, "open")
       /\ ~rotation.running
       /\ \A u \in mine : HasRow(u) /\ to \notin keyWraps[u]
       /\ rotation' = [id |-> rotation.id + 1, from |-> from, running |-> TRUE]
       /\ keyWraps' = [u \in Users |-> IF u \in mine THEN keyWraps[u] \cup {to}
                                                     ELSE keyWraps[u]]
       /\ keyVersion' = to
       /\ lateMembers' = lateMembers \cup (LiveUsers \ mine)
                                    \cup {u \in mine : membership[u].status = "revoked"}
       /\ rewound' = (rewound \/ from # keyVersion)
       /\ UNCHANGED <<rowVersion, membership, lateRows>>

-----------------------------------------------------------------------------
(* POST /:vaultId/rotation/batch.  The rows are whatever ids the worker     *)
(* sends: the server looks neither at their generation nor at their vault.  *)
BatchRead(r) ==
    /\ SomeOwner
    /\ rotation.running
    /\ \E rows \in (SUBSET Existing) \ {{}} :
         Begin(r, "batch", [Idle EXCEPT !.kind = "batch",
                                        !.version = rotation.from + 1,
                                        !.items = rows])
    /\ UNCHANGED <<tables, history>>

(* Nothing asks whether that rotation is still the one running. *)
BatchCommit(r) ==
    LET to   == request[r].version
        rows == request[r].items
    IN /\ Finish(r, "batch")
       /\ rows \subseteq Existing
       /\ rowVersion' = [i \in Items |-> IF i \in rows THEN to ELSE rowVersion[i]]
       /\ lateRows' = IF to = keyVersion THEN lateRows \ rows ELSE lateRows \cup rows
       /\ UNCHANGED <<keyVersion, membership, keyWraps, rotation, lateMembers, rewound>>

-----------------------------------------------------------------------------
(* Mutant: what is outstanding is not looked at. *)
CloseUnchecked(r) ==
    /\ SomeOwner
    /\ rotation.running
    /\ Begin(r, "close", [Idle EXCEPT !.kind = "close", !.version = rotation.from,
                                      !.rotationId = rotation.id])
    /\ UNCHANGED <<tables, history>>

(* POST /:vaultId/rotation/close, refused while any row is outstanding. *)
CloseRead(r) ==
    /\ SomeOwner
    /\ rotation.running
    /\ Outstanding(rotation.from) = {}
    /\ Begin(r, "close", [Idle EXCEPT !.kind = "close", !.version = rotation.from,
                                      !.rotationId = rotation.id])
    /\ UNCHANGED <<tables, history>>

(* Mutant: the wraps of members who have not accepted yet are forgotten. *)
CloseForActive(r) ==
    /\ Finish(r, "close")
    /\ keyWraps' = [u \in Users |-> IF membership[u].status = "active"
                                       THEN keyWraps[u] \ {request[r].version}
                                       ELSE keyWraps[u]]
    /\ rotation' = IF rotation.id = request[r].rotationId
                     THEN [rotation EXCEPT !.running = FALSE] ELSE rotation
    /\ UNCHANGED <<keyVersion, rowVersion, membership, history>>

(* The old generation's wraps go, for every membership of any status. *)
CloseCommit(r) ==
    /\ Finish(r, "close")
    /\ keyWraps' = [u \in Users |-> keyWraps[u] \ {request[r].version}]
    /\ rotation' = IF rotation.id = request[r].rotationId
                     THEN [rotation EXCEPT !.running = FALSE] ELSE rotation
    /\ UNCHANGED <<keyVersion, rowVersion, membership, history>>

-----------------------------------------------------------------------------
(* Row i is labelled with the generation the handler read. *)
Label(r, i) ==
    /\ rowVersion' = [rowVersion EXCEPT ![i] = request[r].version]
    /\ lateRows' = IF request[r].version = keyVersion THEN lateRows \ {i}
                                                      ELSE lateRows \cup {i}
    /\ UNCHANGED <<keyVersion, membership, keyWraps, rotation, lateMembers, rewound>>

(* POST of a secret, a folder or a tag. *)
CreateRead(r) ==
    \E i \in Items :
        /\ SomeEditor
        /\ rowVersion[i] = Unborn
        /\ \A q \in Requests : i \notin request[q].items
        /\ Begin(r, "create", [Idle EXCEPT !.kind = "create", !.items = {i},
                                           !.version = keyVersion])
        /\ UNCHANGED <<tables, history>>

CreateCommit(r) ==
    \E i \in request[r].items :
        /\ Finish(r, "create")
        /\ rowVersion[i] = Unborn
        /\ Label(r, i)

(* PATCH /:vaultId by an owner, PUT of a folder by an editor. *)
RenameRead(r) ==
    \E i \in Folders \cup {VaultName} :
        /\ IF i = VaultName THEN SomeOwner ELSE SomeEditor
        /\ Exists(i)
        /\ Begin(r, "rename", [Idle EXCEPT !.kind = "rename", !.items = {i},
                                           !.version = keyVersion])
        /\ UNCHANGED <<tables, history>>

RenameCommit(r) ==
    \E i \in request[r].items :
        /\ Finish(r, "rename")
        /\ Exists(i)
        /\ Label(r, i)

(* DELETE of a secret, a tag, or a folder together with any of the secrets  *)
(* (disposition=cascade: those filed in it).                                *)
Delete ==
    \E i \in Existing \ {VaultName} :
      \E filed \in SUBSET (IF i \in Folders THEN Existing \cap Secrets ELSE {}) :
        /\ "delete" \in Handlers
        /\ SomeEditor
        /\ rowVersion' = [j \in Items |-> IF j \in {i} \cup filed THEN Deleted
                                                                  ELSE rowVersion[j]]
        /\ lateRows' = lateRows \ ({i} \cup filed)
        /\ UNCHANGED <<keyVersion, membership, keyWraps, rotation, request,
                       lateMembers, rewound>>

RotationNext ==
    \E r \in Requests :
        \/ OpenRead(r)   \/ OpenCommit(r)
        \/ BatchRead(r)  \/ BatchCommit(r)
        \/ CloseRead(r)  \/ CloseCommit(r)
        \/ CreateRead(r) \/ CreateCommit(r)
        \/ RenameRead(r) \/ RenameCommit(r)

Next ==
    \/ MembershipNext
    \/ RotationNext
    \/ Delete
    \/ \E r \in Requests : Fail(r)

Spec == Init /\ [][Next]_vars

-----------------------------------------------------------------------------
(* Properties *)

(* No row is labelled with a generation whose wraps have been destroyed,   *)
(* except a row labelled from a read of vault.keyVersion (or of a running  *)
(* rotation) that a later rotation had overtaken.  The close precondition  *)
(* of rotation.routes.ts:229-252 is sound but for those requests.          *)
RowsStayOpenable ==
    ~rewound => \A i \in Existing \ lateRows : rowVersion[i] \in LiveVersions

(* Every member who is active or invited holds the key rows are written    *)
(* with, and no key of a retired generation, whatever opens, closes,       *)
(* invites, revocations and acceptances overlap: the exceptions are the    *)
(* members written from an outdated read.                                  *)
MembersHoldLiveKeys ==
    ~rewound => \A u \in LiveUsers \ lateMembers :
                    /\ keyVersion \in keyWraps[u]
                    /\ keyWraps[u] \subseteq LiveVersions

(* While a generation is live, no active or invited member's wrap of it is *)
(* taken away except by revoking, deleting or re-inviting that member.     *)
LiveKeysAreKept ==
    [][~rewound' => \A u \in LiveUsers \ (lateMembers \cup lateMembers') :
          \A v \in LiveVersions \cap LiveVersions' :
              v \in keyWraps[u] => \/ v \in keyWraps'[u]
                                   \/ membership'[u] # membership[u]]_vars

(* A generation some row is labelled with is one that every active member  *)
(* can open, also while a rotation runs.  (data-model.md:327-331)          *)
EveryRowOpensForEveryMember ==
    \A u \in Users : membership[u].status = "active" =>
        \A i \in Existing : rowVersion[i] \in keyWraps[u]

(* Writers use the vault's highest generation, so no row is ever written   *)
(* behind a rotation that retires the generation the row is labelled with. *)
(* (secrets.routes.ts:126-127, crypto-envelope.md:84-88)                   *)
NoRowIsWrittenBehind == \A i \in Existing : rowVersion[i] \in LiveVersions

(* What the requests above add up to when none of them reads something     *)
(* that is outdated by the time it commits: two generations at most, and   *)
(* none destroyed while a row needs it.                                    *)
TwoGen == INSTANCE TwoGenerations
            WITH FirstItem  <- VaultName,
                 generation <- keyVersion,
                 retiring   <- IF rotation.running THEN rotation.from ELSE 0,
                 label      <- rowVersion

(* Served one at a time, the vault's handlers implement TwoGenerations.    *)
ImplementsTwoGenerations == TwoGen!AbsSpec

-----------------------------------------------------------------------------
(* The inductive invariant behind the properties above. *)

VersionsAgree == keyVersion = rotation.from + 1

(* What a close in flight remembers: the rotation it read is the latest or *)
(* an older one, and the rows it found outstanding have not come back.     *)
ClosesAreSound ==
    \A r \in Requests : request[r].kind = "close" =>
        /\ request[r].rotationId <= rotation.id
        /\ request[r].rotationId = rotation.id =>
             /\ request[r].version = rotation.from
             /\ ~rewound => Outstanding(rotation.from) \subseteq lateRows
        /\ (request[r].rotationId < rotation.id /\ ~rewound) =>
             request[r].version < rotation.from

(* An invitation read at the present generation never meets a member who    *)
(* still holds the previous one.                                            *)
InvitesAreSound ==
    \A r \in Requests : (request[r].kind \in {"invite", "complete"} /\ ~rewound) =>
        LET u == request[r].subject
        IN /\ request[r].version <= keyVersion
           /\ (/\ request[r].version = keyVersion
               /\ rotation.running
               /\ Live(u)
               /\ u \notin lateMembers) => rotation.from \notin keyWraps[u]

IInv ==
    /\ TypeOK
    /\ VersionsAgree
    /\ ClosesAreSound
    /\ InvitesAreSound
    /\ RowsStayOpenable
    /\ MembersHoldLiveKeys
=============================================================================
