------------------------------ MODULE Accounts ------------------------------
(***************************************************************************)
(* The account of Sessions and SecondFactor, with the requests to delete   *)
(* it, and what the whole promises.  A deletion token is a row of the      *)
(* table of backup codes.                                                  *)
(* (backend/src/modules/auth/account.routes.ts)                            *)
(***************************************************************************)
EXTENDS SecondFactor

(* POST /account/deletion-request, by anybody: a token is mailed. *)
RequestDeletion ==
    /\ \E c \in Codes :
         /\ code[c].state = "unborn"
         /\ code' = [code EXCEPT ![c] = [state |-> "live", deletion |-> TRUE, seed |-> 0]]
    /\ UNCHANGED <<password, session, enrolment, now, request, late, history>>

(* POST /account/deletion-confirm with the token, or DELETE /account from a *)
(* session.                                                                 *)
ConfirmRead(r) ==
    /\ \/ \E c \in Codes : code[c].state = "live" /\ code[c].deletion
       \/ \E s \in SessionIds : Admitted(s)
    /\ Begin(r, [Idle EXCEPT !.kind = "delete"])
    /\ UNCHANGED <<tables, now, late, history>>

(* deleteAccount never commits: deleting a vault cascades to its activity   *)
(* log, where the row written when the vault was created refuses it; and a  *)
(* vault with other members is refused before that.                         *)
deleteAccount(r) ==
    /\ request[r].kind = "delete"
    /\ Finish(r)
    /\ UNCHANGED <<tables, now, history>>

Handle(r) ==
    \/ LoginFactor(r) \/ issueSession(r) \/ ChangeCommit(r) \/ ReauthCommit(r)
    \/ issueBackupCodes(r) \/ StepSpend(r) \/ redeemBackupCode(r) \/ ClearPending(r)
    \/ RemoveCommit(r) \/ deleteAccount(r)

Arrive(r) ==
    \/ LoginRead(r) \/ ChangeRead(r) \/ ReauthRead(r) \/ EnrolCommit(r) \/ RenewRead(r)
    \/ StepRead(r) \/ RedeemRead(r) \/ RemoveRead(r) \/ ConfirmRead(r)

Next ==
    \/ \E r \in Requests : Handle(r) \/ Arrive(r) \/ Fail(r)
    \/ revokeAllExcept \/ SessionExpires \/ RequestDeletion \/ Tick

Spec == Init /\ [][Next]_vars

-----------------------------------------------------------------------------
(* Properties *)

TypeOK ==
    /\ password \in Nat /\ now \in Nat
    /\ session \in [SessionIds -> [state : SessionStates, pending : BOOLEAN, reauth : BOOLEAN,
                                   knows : Nat, proof : Proof]]
    /\ enrolment \in [on : BOOLEAN, seed : Nat, last : Nat]
    /\ code \in [Codes -> [state : CodeStates, deletion : BOOLEAN, seed : Nat]]
    /\ request \in [Requests -> [kind : Kinds, session : SessionIds, knows : Nat,
                                 pending : BOOLEAN, proof : Proof]]
    /\ late \subseteq Requests
    /\ stale \subseteq SessionIds /\ loose \subseteq Nat \X Nat /\ orphans \subseteq Codes
    /\ cutOff \in BOOLEAN

(* After the master password has changed, no session that knows an older    *)
(* one is admitted, except those let in by a login or a re-authentication   *)
(* that had compared the old one when it changed.                           *)
(* (session.ts:61-65, FR-072)                                               *)
SessionsKnowThePassword ==
    \A s \in SessionIds :
        AdmittedPending(s) /\ session[s].knows # password => s \in stale

(* A backup code lets in one session, however many present it at once.      *)
(* (backup-codes.ts:59-60)                                                  *)
BackupCodesServeOnce ==
    \A s, t \in SessionIds :
        session[s].proof = session[t].proof /\ session[s].proof.code # NoCode => s = t

(* A time step lets in one session, unless it is among those that two       *)
(* overlapping verifications have freed by writing lastUsedStep back.       *)
(* (totp.routes.ts:145-147, FR-013)                                         *)
StepsServeOnce ==
    \A s, t \in SessionIds :
        /\ session[s].proof = session[t].proof
        /\ session[s].proof.step # 0
        => s = t \/ <<session[s].proof.seed, session[s].proof.step>> \in loose

(* A backup code works for the factor it was issued under and no other,     *)
(* unless the new set is on its way, or was cut off before it was issued,   *)
(* or the code was issued behind a removal.                                 *)
(* (backup-codes.ts:45-46, totp.routes.ts:193)                              *)
CodesBelongToTheFactor ==
    \A c \in Codes :
        code[c].state = "live" /\ ~code[c].deletion =>
            \/ enrolment.on /\ code[c].seed = enrolment.seed
            \/ c \in orphans \/ cutOff
            \/ \E r \in Requests : request[r].kind = "codes"
=============================================================================
