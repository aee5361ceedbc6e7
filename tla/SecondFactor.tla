---------------------------- MODULE SecondFactor ----------------------------
(***************************************************************************)
(* The second factor of the account of Sessions: enrolment, time steps,    *)
(* backup codes, removal.  The server cannot check a TOTP code, since the  *)
(* seed is sealed: the client names the time step it has verified, and the *)
(* server refuses those that are spent or far from now.                    *)
(* One id of a code stands for the ten that are issued at a time.          *)
(* (backend/src/modules/auth/totp.routes.ts, backup-codes.ts)              *)
(***************************************************************************)
EXTENDS Sessions

(* The rows of backup_code after all of them, deletion tokens included, are *)
(* deleted.                                                                 *)
NoCodesLeft ==
    [c \in Codes |-> IF code[c].state = "unborn" THEN code[c]
                                                 ELSE [code[c] EXCEPT !.state = "deleted"]]

(* POST /auth/totp/enrol: the enrolment is committed, then codes are issued *)
(* in a transaction of their own.                                           *)
EnrolCommit(r) ==
    /\ \E s \in SessionIds : Admitted(s)
    /\ enrolment.seed < MaxFactor
    /\ enrolment' = [on |-> TRUE, seed |-> enrolment.seed + 1, last |-> 0]
    /\ Begin(r, [Idle EXCEPT !.kind = "codes"])
    /\ UNCHANGED <<password, session, code, now, late, history>>

(* POST /auth/totp/backup-codes, with the master password. *)
RenewRead(r) ==
    /\ \E s \in SessionIds : Admitted(s)
    /\ enrolment.on
    /\ Begin(r, [Idle EXCEPT !.kind = "codes"])
    /\ UNCHANGED <<tables, now, late, history>>

issueBackupCodes(r) ==
    /\ request[r].kind = "codes"
    /\ \E c \in Codes :
         /\ code[c].state = "unborn"
         /\ code' = [NoCodesLeft EXCEPT ![c] = [state |-> "live", deletion |-> FALSE,
                                                seed |-> enrolment.seed]]
         /\ orphans' = IF r \in late THEN orphans \cup {c} ELSE orphans
    /\ Finish(r)
    /\ UNCHANGED <<password, session, enrolment, now, stale, loose, cutOff>>

-----------------------------------------------------------------------------
(* Mutant: only the distance from now is looked at. *)
RecentStep(step) == step \in (now - 1)..(now + 1) /\ step > 0

(* Neither spent, as far as the enrolment read says, nor far from now.      *)
FreshStep(step) == step \in (now - 1)..(now + 1) /\ step > 0 /\ step > enrolment.last

(* POST /auth/totp/verify with a time step. *)
StepRead(r) ==
    \E s \in SessionIds, step \in 1..MaxStep :
        /\ AdmittedPending(s)
        /\ enrolment.on
        /\ FreshStep(step)
        /\ Begin(r, [Idle EXCEPT !.kind = "step", !.session = s,
                        !.proof = [seed |-> enrolment.seed, step |-> step, code |-> NoCode]])
        /\ UNCHANGED <<tables, now, late, history>>

(* What a spending that is behind frees: the step itself, and those that    *)
(* lastUsedStep is taken back over.                                         *)
FreedBy(proof) ==
    {<<proof.seed, proof.step>>} \cup ({enrolment.seed} \X (proof.step..enrolment.last))

(* lastUsedStep is overwritten, by a smaller one too. *)
StepSpend(r) ==
    LET proof == request[r].proof
    IN /\ request[r].kind = "step"
       /\ enrolment.on
       /\ enrolment' = [enrolment EXCEPT !.last = proof.step]
       /\ request' = [request EXCEPT ![r].kind = "clear"]
       /\ late' = (late \cup At(r, "step")) \ {r}
       /\ loose' = IF r \in late THEN loose \cup FreedBy(proof) ELSE loose
       /\ UNCHANGED <<password, session, code, now, stale, orphans, cutOff>>

(* ... or with a backup code: it is matched against those unused ...        *)
RedeemRead(r) ==
    \E s \in SessionIds, c \in Codes :
        /\ AdmittedPending(s)
        /\ enrolment.on
        /\ code[c].state = "live" /\ ~code[c].deletion
        /\ Begin(r, [Idle EXCEPT !.kind = "redeem", !.session = s,
                                 !.proof = [NoProof EXCEPT !.code = c]])
        /\ UNCHANGED <<tables, now, late, history>>

(* Mutant: marked used whether or not it is already. *)
RedeemAnyway(r) ==
    LET c == request[r].proof.code
    IN /\ request[r].kind = "redeem"
       /\ code' = [code EXCEPT ![c].state = "used"]
       /\ request' = [request EXCEPT ![r].kind = "clear"]
       /\ UNCHANGED <<password, session, enrolment, now, late, history>>

(* ... and marked used by an update that matches only while it is unused.   *)
redeemBackupCode(r) ==
    LET c == request[r].proof.code
    IN /\ request[r].kind = "redeem"
       /\ code[c].state = "live"
       /\ code' = [code EXCEPT ![c].state = "used"]
       /\ request' = [request EXCEPT ![r].kind = "clear"]
       /\ UNCHANGED <<password, session, enrolment, now, late, history>>

(* The session is let in.  Its proof is the one that has let it in first.   *)
ClearPending(r) ==
    LET s == request[r].session
    IN /\ request[r].kind = "clear"
       /\ session' = [session EXCEPT ![s].pending = FALSE,
                                     ![s].proof = IF session[s].pending THEN request[r].proof ELSE @]
       /\ Finish(r)
       /\ UNCHANGED <<password, enrolment, code, now, history>>

-----------------------------------------------------------------------------
(* DELETE /auth/totp, with the master password: the enrolment and every     *)
(* code go in one transaction.                                              *)
RemoveRead(r) ==
    /\ \E s \in SessionIds : Admitted(s)
    /\ enrolment.on
    /\ Begin(r, [Idle EXCEPT !.kind = "remove"])
    /\ UNCHANGED <<tables, now, late, history>>

(* Mutant: the codes stay. *)
RemoveOnlyFactor(r) ==
    /\ request[r].kind = "remove"
    /\ enrolment.on
    /\ enrolment' = [enrolment EXCEPT !.on = FALSE, !.last = 0]
    /\ request' = [request EXCEPT ![r] = Idle]
    /\ late' = (late \cup At(r, "codes")) \ {r}
    /\ UNCHANGED <<password, session, code, now, history>>

RemoveCommit(r) ==
    /\ request[r].kind = "remove"
    /\ enrolment.on
    /\ enrolment' = [enrolment EXCEPT !.on = FALSE, !.last = 0]
    /\ code' = NoCodesLeft
    /\ request' = [request EXCEPT ![r] = Idle]
    /\ late' = (late \cup At(r, "codes")) \ {r}
    /\ UNCHANGED <<password, session, now, history>>

Tick ==
    /\ now < MaxStep
    /\ now' = now + 1
    /\ UNCHANGED <<tables, request, late, history>>
=============================================================================
