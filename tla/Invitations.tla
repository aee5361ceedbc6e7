----------------------------- MODULE Invitations -----------------------------
(***************************************************************************)
(* What the server knows of ONE email address: its account, the links that *)
(* prove control of the mailbox, the invitations addressed to it by the    *)
(* owners of vaults, and its membership row in each of these vaults.       *)
(*                                                                         *)
(* Like the handlers of VaultTables, each handler is a read half and a     *)
(* commit half, or several of them; only what is written in one statement  *)
(* or one transaction is one step.  Other handlers run in between.         *)
(* (backend/src/modules/vaults/invitation.service.ts, sharing.routes.ts,   *)
(* backend/src/modules/auth/verify.routes.ts, auth.routes.ts)              *)
(***************************************************************************)
CONSTANTS
    Vaults,      \* the vaults that invite this address
    Invites,     \* ids of invitation rows
    Links,       \* ids of verification links
    Requests,    \* handlers that may be in flight at once
    Anyone       \* a vault: the value of request[r].vault where none is meant

ASSUME AnyoneAssumption == Anyone \in Vaults

VARIABLES
    account,     \* the account of the address, and whether it is verified
    link,        \* email_verification
    invite,      \* vault_invitation
    overdue,     \* the invitations whose expiresAt has passed
    seat,        \* vault_membership, per vault
    request,     \* handlers in flight
    late         \* history: requests holding an invitation decided meanwhile

vars == <<account, link, invite, overdue, seat, request, late>>

-----------------------------------------------------------------------------
LinkStates == {"unborn", "live", "expired", "used", "superseded"}

SeatStates == {"none", "invited", "active", "revoked"}

InviteStates == {"unborn", "pending", "ready", "completed", "withdrawn", "expired"}

Kinds == {"idle", "invite", "seat", "drop", "create", "list", "promote",
          "verify", "complete", "withdraw", "sweep"}

Idle == [kind |-> "idle", vault |-> Anyone, todo |-> {}, links |-> {}, registering |-> FALSE]

Live(i) == invite[i].state \in {"pending", "ready"}

Decided(i) == invite[i].state \in {"completed", "withdrawn", "expired"}

LiveFor(v) == {i \in Invites : Live(i) /\ invite[i].vault = v}

(* Mutant: any account will do. *)
KeyServedToAnyAccount == account # "none"

(* GET /users/public-key answers for verified accounts only. *)
KeyServed == account = "verified"

Init ==
    /\ account = "none"
    /\ link = [l \in Links |-> "unborn"]
    /\ invite = [i \in Invites |-> [state |-> "unborn", vault |-> Anyone]]
    /\ overdue = {}
    /\ seat = [v \in Vaults |-> "none"]
    /\ request = [r \in Requests |-> Idle]
    /\ late = {}

-----------------------------------------------------------------------------
(* The life of a request *)

Begin(r, kind, reads) ==
    /\ request[r] = Idle
    /\ request' = [request EXCEPT ![r] = [reads EXCEPT !.kind = kind]]

Finish(r) ==
    /\ request' = [request EXCEPT ![r] = Idle]
    /\ late' = late \ {r}

(* The handler throws, its transaction is refused, or the process dies. *)
Fail(r) ==
    /\ request[r] # Idle
    /\ Finish(r)
    /\ UNCHANGED <<account, link, invite, overdue, seat>>

(* Those that hold invitation i, which is decided under their hands. *)
Holding(i) == {q \in Requests : i \in request[q].todo}

(* The row of invitation i is written by id, whatever its state is now.    *)
(* The partial unique index allows one live invitation per vault.          *)
WriteState(i, state) ==
    /\ state = "ready" => LiveFor(invite[i].vault) \subseteq {i}
    /\ invite' = [invite EXCEPT ![i].state = state]

-----------------------------------------------------------------------------
(* POST /vaults/:vaultId/members.  While the address has no verified account *)
(* the invitation is written as pending, and nothing is shared.             *)
InviteRead(r) ==
    \E v \in Vaults :
        /\ account # "verified"
        /\ LiveFor(v) = {}
        /\ Begin(r, "invite", [Idle EXCEPT !.vault = v])
        /\ UNCHANGED <<account, link, invite, overdue, seat, late>>

(* Mutant: a database without the partial unique index. *)
InviteUnindexed(r) ==
    LET v == request[r].vault
    IN /\ request[r].kind = "invite"
       /\ \E i \in Invites :
            /\ invite[i].state = "unborn"
            /\ invite' = [invite EXCEPT ![i] = [state |-> "pending", vault |-> v]]
       /\ Finish(r)
       /\ UNCHANGED <<account, link, overdue, seat>>

(* Mutant: the invitation is taken for one to an account. *)
InviteReady(r) ==
    LET v == request[r].vault
    IN /\ request[r].kind = "invite"
       /\ LiveFor(v) = {}
       /\ \E i \in Invites :
            /\ invite[i].state = "unborn"
            /\ invite' = [invite EXCEPT ![i] = [state |-> "ready", vault |-> v]]
       /\ Finish(r)
       /\ UNCHANGED <<account, link, overdue, seat>>

InviteCommit(r) ==
    LET v == request[r].vault
    IN /\ request[r].kind = "invite"
       /\ LiveFor(v) = {}
       /\ \E i \in Invites :
            /\ invite[i].state = "unborn"
            /\ invite' = [invite EXCEPT ![i] = [state |-> "pending", vault |-> v]]
       /\ Finish(r)
       /\ UNCHANGED <<account, link, overdue, seat>>

(* The same request for a verified account: the client has wrapped the vault *)
(* key to the public key it was served.                                     *)
SeatRead(r) ==
    \E v \in Vaults :
        /\ KeyServed
        /\ seat[v] \in {"none", "revoked"}
        /\ Begin(r, "seat", [Idle EXCEPT !.vault = v])
        /\ UNCHANGED <<account, link, invite, overdue, seat, late>>

(* An upsert: it takes over the row in whatever status it is. *)
SeatCommit(r) ==
    /\ request[r].kind = "seat"
    /\ seat' = [seat EXCEPT ![request[r].vault] = "invited"]
    /\ Finish(r)
    /\ UNCHANGED <<account, link, invite, overdue>>

-----------------------------------------------------------------------------
(* POST /auth/register: the account is committed first; then a link is      *)
(* issued, whose failure is ignored; then the waiting invitations are       *)
(* promoted one by one.                                                     *)
Register(r) ==
    /\ account = "none"
    /\ account' = "unverified"
    /\ Begin(r, "drop", [Idle EXCEPT !.registering = TRUE])
    /\ UNCHANGED <<link, invite, overdue, seat, late>>

(* POST /auth/verify/resend, signed in. *)
Resend(r) ==
    /\ account = "unverified"
    /\ Begin(r, "drop", Idle)
    /\ UNCHANGED <<account, link, invite, overdue, seat, late>>

(* issueVerification: outstanding links are deleted, then one is created.   *)
DropLinks(r) ==
    /\ request[r].kind = "drop"
    /\ link' = [l \in Links |-> IF link[l] \in {"live", "expired"} THEN "superseded" ELSE link[l]]
    /\ request' = [request EXCEPT ![r].kind = "create"]
    /\ UNCHANGED <<account, invite, overdue, seat, late>>

CreateLink(r) ==
    /\ request[r].kind = "create"
    /\ \E l \in Links :
         /\ link[l] = "unborn"
         /\ link' = [link EXCEPT ![l] = "live"]
    /\ request' = [request EXCEPT ![r] = IF @.registering THEN [@ EXCEPT !.kind = "list"] ELSE Idle]
    /\ UNCHANGED <<account, invite, overdue, seat, late>>

(* .catch(() => {}): registration goes on without a link. *)
SkipLink(r) ==
    /\ request[r].kind \in {"drop", "create"}
    /\ request[r].registering
    /\ request' = [request EXCEPT ![r].kind = "list"]
    /\ UNCHANGED <<account, link, invite, overdue, seat, late>>

(* promotePendingInvitations *)
ListWaiting(r) ==
    /\ request[r].kind = "list"
    /\ request' = [request EXCEPT ![r] =
                     [@ EXCEPT !.kind = "promote",
                               !.todo = {i \in Invites : invite[i].state = "pending"}]]
    /\ UNCHANGED <<account, link, invite, overdue, seat, late>>

Promote(r) ==
    /\ request[r].kind = "promote"
    /\ \E i \in request[r].todo :
         /\ WriteState(i, "ready")
         /\ request' = [request EXCEPT ![r].todo = @ \ {i}]
    /\ UNCHANGED <<account, link, overdue, seat, late>>

(* POST /auth/verify: the token is matched against the outstanding links ... *)
VerifyRead(r) ==
    \E l \in Links :
        /\ link[l] = "live"
        /\ Begin(r, "verify", [Idle EXCEPT !.links = {l}])
        /\ UNCHANGED <<account, link, invite, overdue, seat, late>>

(* Mutant: the link is not required to be still unused. *)
VerifyAnyway(r) ==
    /\ request[r].kind = "verify"
    /\ \E l \in request[r].links : link' = [link EXCEPT ![l] = "used"]
    /\ account' = "verified"
    /\ Finish(r)
    /\ UNCHANGED <<invite, overdue, seat>>

(* ... and used up by an update that matches only while it is unused.       *)
VerifyCommit(r) ==
    /\ request[r].kind = "verify"
    /\ \E l \in request[r].links :
         /\ link[l] \in {"live", "expired"}
         /\ link' = [link EXCEPT ![l] = "used"]
    /\ account' = "verified"
    /\ Finish(r)
    /\ UNCHANGED <<invite, overdue, seat>>

-----------------------------------------------------------------------------
(* The owner completes a ready invitation, with a wrap to the key served.   *)
CompleteRead(r) ==
    \E i \in Invites :
        /\ KeyServed
        /\ invite[i].state = "ready"
        /\ Begin(r, "complete", [Idle EXCEPT !.todo = {i}])
        /\ UNCHANGED <<account, link, invite, overdue, seat, late>>

(* create, not upsert: refused where there is a membership row. *)
CompleteCommit(r) ==
    /\ request[r].kind = "complete"
    /\ \E i \in request[r].todo :
         /\ seat[invite[i].vault] = "none"
         /\ seat' = [seat EXCEPT ![invite[i].vault] = "invited"]
         /\ WriteState(i, "completed")
         /\ request' = [request EXCEPT ![r] = Idle]
         /\ late' = (late \cup Holding(i)) \ {r}
    /\ UNCHANGED <<account, link, overdue>>

(* Mutant: the state of the invitation is not looked at. *)
WithdrawAny(r) ==
    \E i \in Invites :
        /\ invite[i].state # "unborn"
        /\ Begin(r, "withdraw", [Idle EXCEPT !.todo = {i}])
        /\ UNCHANGED <<account, link, invite, overdue, seat, late>>

(* DELETE /vaults/:vaultId/invitations/:invitationId *)
WithdrawRead(r) ==
    \E i \in Invites :
        /\ Live(i)
        /\ Begin(r, "withdraw", [Idle EXCEPT !.todo = {i}])
        /\ UNCHANGED <<account, link, invite, overdue, seat, late>>

WithdrawCommit(r) ==
    /\ request[r].kind = "withdraw"
    /\ \E i \in request[r].todo :
         /\ WriteState(i, "withdrawn")
         /\ request' = [request EXCEPT ![r] = Idle]
         /\ late' = (late \cup Holding(i)) \ {r}
    /\ UNCHANGED <<account, link, overdue, seat>>

(* expireStaleInvitations: the overdue ones are listed, then expired one by *)
(* one.  The server never schedules it; whoever operates the server may.    *)
SweepRead(r) ==
    /\ \E i \in overdue : Live(i)
    /\ Begin(r, "sweep", [Idle EXCEPT !.todo = {i \in overdue : Live(i)}])
    /\ UNCHANGED <<account, link, invite, overdue, seat, late>>

SweepOne(r) ==
    /\ request[r].kind = "sweep"
    /\ \E i \in request[r].todo :
         /\ WriteState(i, "expired")
         /\ request' = [request EXCEPT ![r].todo = @ \ {i}]
         /\ late' = late \cup (Holding(i) \ {r})
    /\ UNCHANGED <<account, link, overdue, seat>>

(* The loop over the invitations is done. *)
AllWritten(r) ==
    /\ request[r].kind \in {"promote", "sweep"}
    /\ request[r].todo = {}
    /\ Finish(r)
    /\ UNCHANGED <<account, link, invite, overdue, seat>>

-----------------------------------------------------------------------------
(* Time passes, and the recipient and the owner act on the membership row   *)
(* (VaultMembership has these handlers in two halves).                      *)

InviteFallsDue ==
    \E i \in Invites \ overdue :
        /\ Live(i)
        /\ overdue' = overdue \cup {i}
        /\ UNCHANGED <<account, link, invite, seat, request, late>>

LinkExpires ==
    \E l \in Links :
        /\ link[l] = "live"
        /\ link' = [link EXCEPT ![l] = "expired"]
        /\ UNCHANGED <<account, invite, overdue, seat, request, late>>

MoveSeat(from, to) ==
    /\ \E v \in Vaults :
         /\ seat[v] \in from
         /\ seat' = [seat EXCEPT ![v] = to]
    /\ UNCHANGED <<account, link, invite, overdue, request, late>>

Accept  == MoveSeat({"invited"}, "active")
Decline == MoveSeat({"invited"}, "none")
Revoke  == MoveSeat({"invited", "active"}, "revoked")

Handle(r) ==
    \/ InviteCommit(r) \/ SeatCommit(r)
    \/ DropLinks(r) \/ CreateLink(r) \/ SkipLink(r)
    \/ ListWaiting(r) \/ Promote(r) \/ AllWritten(r)
    \/ VerifyCommit(r) \/ CompleteCommit(r) \/ WithdrawCommit(r) \/ SweepOne(r)

Arrive(r) ==
    \/ InviteRead(r) \/ SeatRead(r) \/ Register(r) \/ Resend(r)
    \/ VerifyRead(r) \/ CompleteRead(r) \/ WithdrawRead(r) \/ SweepRead(r)

NextUnfailing ==
    \/ \E r \in Requests : Handle(r) \/ Arrive(r)
    \/ InviteFallsDue \/ LinkExpires
    \/ Accept \/ Decline \/ Revoke

Next == NextUnfailing \/ \E r \in Requests : Fail(r)

Spec == Init /\ [][Next]_vars

(* Nothing fails, and a handler that was started goes on.                   *)
FairSpec ==
    /\ Init /\ [][NextUnfailing]_vars
    /\ \A r \in Requests : WF_vars(Handle(r))

-----------------------------------------------------------------------------
(* Properties *)

TypeOK ==
    /\ account \in {"none", "unverified", "verified"}
    /\ link \in [Links -> LinkStates]
    /\ invite \in [Invites -> [state : InviteStates, vault : Vaults]]
    /\ overdue \subseteq Invites
    /\ seat \in [Vaults -> SeatStates]
    /\ request \in [Requests -> [kind : Kinds, vault : Vaults, todo : SUBSET Invites,
                                 links : SUBSET Links, registering : BOOLEAN]]
    /\ late \subseteq Requests

(* Nobody has a membership row before their address is verified, by either  *)
(* way into a vault and whatever is in flight. (verify.routes.ts:6-10,      *)
(* spec.md:586)                                                             *)
SharedOnlyWithVerified == \A v \in Vaults : seat[v] # "none" => account = "verified"

(* An invitation is ready, or completed, only once its address has an       *)
(* account. (FR-068, data-model.md:150-160)                                 *)
ReadyMeansRegistered ==
    \A i \in Invites : invite[i].state \in {"ready", "completed"} => account # "none"

(* A vault has at most one live invitation to an address, although every    *)
(* handler's own check is outdated when it writes. (data-model.md:166)      *)
AtMostOneLive == \A v \in Vaults : \A i, j \in LiveFor(v) : i = j

(* A decided invitation is touched only by a request that held it when it   *)
(* was decided: nothing that starts later reopens it.                       *)
(* (data-model.md:150-164)                                                  *)
OnlyOverlapsReopen ==
    [][\A i \in Invites :
          (Decided(i) /\ invite'[i] # invite[i]) => Holding(i) \cap late # {}]_vars

(* An address becomes verified, and a link used, by a link that nobody has  *)
(* used and no newer link has replaced. (verify.routes.ts:20-24, 107)       *)
VerifiedByAnOutstandingLink ==
    [][(\E l \in Links : link[l] # "used" /\ link'[l] = "used") \/ account' # account =>
          \/ account' = "unverified"
          \/ \E l \in Links : link[l] \in {"live", "expired"} /\ link'[l] = "used"]_vars

(* Someone invited, who then proves the address, is not left waiting: the   *)
(* invitation can be completed, or somebody decides against it.             *)
(* (data-model.md:41 and 150-160, Sharing.tsx:113-117)                      *)
WaitingIsAnswered ==
    \A i \in Invites :
        (invite[i].state = "pending" /\ account = "verified") ~> invite[i].state # "pending"
=============================================================================
