--------------------------- MODULE VaultMembership ---------------------------
(***************************************************************************)
(* Who is in the vault: invite, complete a ready invitation, accept,       *)
(* decline, revoke, change of role.                                        *)
(*                                                                         *)
(* None of the commits looks again at what the handler read: an accept     *)
(* writes status = 'active' by id whatever the status has become, and the  *)
(* count of the other owners is a statement of its own, which at READ      *)
(* COMMITTED locks nothing.                                                *)
(***************************************************************************)
EXTENDS VaultTables

(* Mutant: owners who are only invited, or were revoked, are counted too. *)
OtherOwnerRows(u) == {v \in Users \ {u} : membership[v].role = "owner"}

(* The owners other than u: what LAST_OWNER is decided on. *)
OtherOwners(u) == {v \in Users \ {u} : IsOwner(v)}

MayLoseOwner(u) == membership[u].role = "owner" => OtherOwners(u) # {}

-----------------------------------------------------------------------------
(* POST /:vaultId/members.  The recipient is not a member; the wrap will be *)
(* stored at the generation the vault is at now.                            *)
InviteRead(r) ==
    \E u \in Users, role \in Roles :
        /\ SomeOwner
        /\ membership[u].status \in {"none", "revoked"}
        /\ Begin(r, "invite", [Idle EXCEPT !.kind = "invite", !.subject = u,
                                           !.role = role, !.version = keyVersion])
        /\ UNCHANGED <<tables, history>>

(* A membership row is written as invited, with the one wrap. *)
Seat(r, kind) ==
    LET u == request[r].subject
        v == request[r].version
    IN /\ Finish(r, kind)
       /\ membership' = [membership EXCEPT ![u] = [status |-> "invited",
                                                   role |-> request[r].role]]
       /\ keyWraps' = [keyWraps EXCEPT ![u] = {v}]
       /\ lateMembers' = IF v = keyVersion THEN lateMembers \ {u}
                                           ELSE lateMembers \cup {u}
       /\ UNCHANGED <<keyVersion, rowVersion, rotation, lateRows, rewound>>

(* The upsert takes the row over in any status; all its wraps are replaced. *)
InviteCommit(r) ==
    /\ membership[request[r].subject].status # "deleted"
    /\ Seat(r, "invite")

(* POST /:vaultId/invitations/:invitationId/complete, once the invitee has  *)
(* registered: the wrap's generation must be the vault's, when it is read.  *)
CompleteRead(r) ==
    \E u \in Users, role \in Roles :
        /\ SomeOwner
        /\ membership[u].status = "none"
        /\ Begin(r, "complete", [Idle EXCEPT !.kind = "complete", !.subject = u,
                                             !.role = role, !.version = keyVersion])
        /\ UNCHANGED <<tables, history>>

(* create, not upsert: refused where the user has a row already. *)
CompleteCommit(r) ==
    /\ membership[request[r].subject].status = "none"
    /\ Seat(r, "complete")

-----------------------------------------------------------------------------
(* POST /:vaultId/members/accept, by the invited user. *)
AcceptRead(r) ==
    \E u \in Users :
        /\ membership[u].status = "invited"
        /\ Begin(r, "accept", [Idle EXCEPT !.kind = "accept", !.subject = u])
        /\ UNCHANGED <<tables, history>>

AcceptCommit(r) ==
    LET u == request[r].subject
    IN /\ Finish(r, "accept")
       /\ HasRow(u)
       /\ membership' = [membership EXCEPT ![u].status = "active"]
       /\ lateMembers' = IF membership[u].status = "revoked"
                           THEN lateMembers \cup {u} ELSE lateMembers
       /\ UNCHANGED <<keyVersion, rowVersion, keyWraps, rotation, lateRows, rewound>>

(* POST /:vaultId/members/decline deletes the row; its wraps cascade. *)
DeclineRead(r) ==
    \E u \in Users :
        /\ membership[u].status = "invited"
        /\ Begin(r, "decline", [Idle EXCEPT !.kind = "decline", !.subject = u])
        /\ UNCHANGED <<tables, history>>

DeclineCommit(r) ==
    LET u == request[r].subject
    IN /\ Finish(r, "decline")
       /\ HasRow(u)
       /\ membership' = [membership EXCEPT ![u] = [NoMembership EXCEPT !.status = "deleted"]]
       /\ keyWraps' = [keyWraps EXCEPT ![u] = {}]
       /\ lateMembers' = lateMembers \ {u}
       /\ UNCHANGED <<keyVersion, rowVersion, rotation, lateRows, rewound>>

-----------------------------------------------------------------------------
(* DELETE /:vaultId/members/:userId.  Find and count, then write: one       *)
(* transaction, but other transactions commit between its statements.       *)
RevokeRead(r) ==
    \E u \in Users :
        /\ SomeOwner
        /\ Live(u)
        /\ MayLoseOwner(u)
        /\ Begin(r, "revoke", [Idle EXCEPT !.kind = "revoke", !.subject = u])
        /\ UNCHANGED <<tables, history>>

(* Mutant: only the wrap of the present generation is deleted. *)
RevokeLeavesOldWrap(r) ==
    LET u == request[r].subject
    IN /\ Finish(r, "revoke")
       /\ HasRow(u)
       /\ membership' = [membership EXCEPT ![u].status = "revoked"]
       /\ keyWraps' = [keyWraps EXCEPT ![u] = @ \ {keyVersion}]
       /\ UNCHANGED <<keyVersion, rowVersion, rotation, history>>

RevokeCommit(r) ==
    LET u == request[r].subject
    IN /\ Finish(r, "revoke")
       /\ HasRow(u)
       /\ membership' = [membership EXCEPT ![u].status = "revoked"]
       /\ keyWraps' = [keyWraps EXCEPT ![u] = {}]
       /\ lateMembers' = lateMembers \ {u}
       /\ UNCHANGED <<keyVersion, rowVersion, rotation, lateRows, rewound>>

(* PATCH /:vaultId/members/:userId, for a row of any status. *)
RoleRead(r) ==
    \E u \in Users, role \in Roles :
        /\ SomeOwner
        /\ HasRow(u)
        /\ role # "owner" => MayLoseOwner(u)
        /\ Begin(r, "role", [Idle EXCEPT !.kind = "role", !.subject = u, !.role = role])
        /\ UNCHANGED <<tables, history>>

RoleCommit(r) ==
    LET u == request[r].subject
    IN /\ Finish(r, "role")
       /\ HasRow(u)
       /\ membership' = [membership EXCEPT ![u].role = request[r].role]
       /\ UNCHANGED <<keyVersion, rowVersion, keyWraps, rotation, history>>

MembershipNext ==
    \E r \in Requests :
        \/ InviteRead(r)  \/ InviteCommit(r)
        \/ CompleteRead(r) \/ CompleteCommit(r)
        \/ AcceptRead(r)  \/ AcceptCommit(r)
        \/ DeclineRead(r) \/ DeclineCommit(r)
        \/ RevokeRead(r)  \/ RevokeCommit(r)
        \/ RoleRead(r)    \/ RoleCommit(r)

-----------------------------------------------------------------------------
(* A vault always keeps an active owner, who can manage it.                 *)
(* (vaults.routes.ts:24-28, data-model.md:110-111)                          *)
AnActiveOwnerRemains == SomeOwner

(* A revoked member holds no wrap of any generation, whatever opens,       *)
(* closes, invitations, acceptances and role changes overlap the revoke,   *)
(* except one whom an open that had read the members before the revoke     *)
(* then gave a wrap of the new generation.  (revoke.ts:6-7, 16-20)         *)
RevokedHoldNoKey ==
    \A u \in Users \ lateMembers : membership[u].status = "revoked" => keyWraps[u] = {}

(* The same without the exception.  (revoke.ts:6-7, data-model.md:128-130) *)
RevokedHoldNothing ==
    \A u \in Users : membership[u].status = "revoked" => keyWraps[u] = {}
=============================================================================
