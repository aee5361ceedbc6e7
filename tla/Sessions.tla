------------------------------ MODULE Sessions ------------------------------
(***************************************************************************)
(* One account and its sessions: who may call what, login, a change of the *)
(* master password and what it does to the sessions of other devices, and  *)
(* re-authentication.                                                      *)
(*                                                                         *)
(* Handlers are cut where other handlers can run: at the awaits between    *)
(* two statements that no transaction holds together.  A password is named *)
(* by its generation.  The user key is wrapped under a new password in the *)
(* transaction that stores its digest, so one variable stands for both.    *)
(* (backend/src/middleware/session.ts, backend/src/modules/auth/session.ts,*)
(* auth.routes.ts)                                                         *)
(***************************************************************************)
EXTENDS Integers, FiniteSets

CONSTANTS
    SessionIds,   \* ids of sessions
    Codes,        \* ids of backup codes and of deletion tokens
    Requests,     \* handlers that may be in flight at once
    Anyone,       \* a session: the value of request[r].session before there is one
    NoCode,       \* not a code: in the proof of a session cleared by a time step
    MaxPassword,  \* bound: the password is not changed beyond this generation
    MaxFactor,    \* bound: no second factor is enrolled beyond this one
    MaxStep       \* bound: time stops at this TOTP step

ASSUME AccountAssumption ==
    /\ Anyone \in SessionIds
    /\ NoCode \notin Codes
    /\ MaxPassword \in Nat /\ MaxFactor \in Nat /\ MaxStep \in Nat

VARIABLES
    password,     \* user.authHashDigest, and what userKeyring is wrapped under
    session,      \* session
    enrolment,    \* totp_enrolment: whether it is there, its seed, lastUsedStep
    code,         \* backup_code
    now,          \* the present TOTP time step
    request,      \* handlers in flight
    late,         \* history: requests that hold a read another has outdated
    stale,        \* history: sessions let in by such a request
    loose,        \* history: time steps that such a request has freed again
    orphans,      \* history: codes issued by such a request
    cutOff        \* history: a request has failed before issuing its codes

tables  == <<password, session, enrolment, code>>
history == <<stale, loose, orphans, cutOff>>
vars    == <<tables, now, request, late, history>>

-----------------------------------------------------------------------------
SessionStates == {"unborn", "live", "over"}

CodeStates == {"unborn", "live", "used", "deleted"}

Kinds == {"idle", "login", "issue", "change", "reauth", "codes", "step", "redeem",
          "clear", "remove", "delete"}

(* What has cleared a session: a time step of a seed, or a backup code.     *)
Proof == [seed : Nat, step : Nat, code : Codes \cup {NoCode}]

NoProof == [seed |-> 0, step |-> 0, code |-> NoCode]

Unborn == [state |-> "unborn", pending |-> FALSE, reauth |-> FALSE, knows |-> 0,
           proof |-> NoProof]

NoFactor == [on |-> FALSE, seed |-> 0, last |-> 0]

Idle == [kind |-> "idle", session |-> Anyone, knows |-> 0, pending |-> FALSE,
         proof |-> NoProof]

NoRow == [state |-> "unborn", deletion |-> FALSE, seed |-> 0]

(* The account is registered; its second factor may be enrolled already.    *)
Init ==
    /\ password = 1
    /\ session = [s \in SessionIds |-> Unborn]
    /\ \/ /\ enrolment = NoFactor
          /\ code = [c \in Codes |-> NoRow]
       \/ /\ enrolment = [on |-> TRUE, seed |-> 1, last |-> 0]
          /\ \E first \in Codes :
               code = [c \in Codes |-> IF c = first THEN [NoRow EXCEPT !.state = "live", !.seed = 1]
                                                    ELSE NoRow]
    /\ now = 1
    /\ request = [r \in Requests |-> Idle]
    /\ late = {}
    /\ stale = {} /\ loose = {} /\ orphans = {} /\ cutOff = FALSE

-----------------------------------------------------------------------------
(* sessionGuard: any route that a session needs ...                         *)
Admitted(s) ==
    session[s].state = "live" /\ ~session[s].reauth /\ ~session[s].pending

(* ... /auth/totp/challenge, /auth/totp/verify and /auth/sessions ...       *)
AdmittedPending(s) == session[s].state = "live" /\ ~session[s].reauth

(* ... and /auth/reauth.                                                    *)
AdmittedFlagged(s) == session[s].state = "live" /\ ~session[s].pending

Begin(r, reads) ==
    /\ request[r] = Idle
    /\ request' = [request EXCEPT ![r] = reads]

Finish(r) ==
    /\ request' = [request EXCEPT ![r] = Idle]
    /\ late' = late \ {r}

(* Requests other than r that have compared a password, or are at a step.   *)
Compared(r) == {q \in Requests \ {r} : request[q].knows # 0}
At(r, kind) == {q \in Requests \ {r} : request[q].kind = kind}

(* The handler throws, its transaction is refused, or the process dies.     *)
Fail(r) ==
    /\ request[r] # Idle
    /\ Finish(r)
    /\ cutOff' = (cutOff \/ request[r].kind = "codes")
    /\ UNCHANGED <<tables, now, stale, loose, orphans>>

-----------------------------------------------------------------------------
(* POST /auth/login: the password is compared; then, in another statement,  *)
(* the second factor is looked up; then the session is created.             *)
LoginRead(r) ==
    /\ Begin(r, [Idle EXCEPT !.kind = "login", !.knows = password])
    /\ UNCHANGED <<tables, now, late, history>>

LoginFactor(r) ==
    /\ request[r].kind = "login"
    /\ request' = [request EXCEPT ![r].kind = "issue", ![r].pending = enrolment.on]
    /\ UNCHANGED <<tables, now, late, history>>

issueSession(r) ==
    /\ request[r].kind = "issue"
    /\ \E s \in SessionIds :
         /\ session[s].state = "unborn"
         /\ session' = [session EXCEPT ![s] =
                          [state |-> "live", pending |-> request[r].pending, reauth |-> FALSE,
                           knows |-> request[r].knows, proof |-> NoProof]]
         /\ stale' = IF r \in late THEN stale \cup {s} ELSE stale
    /\ Finish(r)
    /\ UNCHANGED <<password, enrolment, code, now, loose, orphans, cutOff>>

(* PUT /auth/master-password, with the current password. *)
ChangeRead(r) ==
    \E s \in SessionIds :
        /\ Admitted(s)
        /\ Begin(r, [Idle EXCEPT !.kind = "change", !.session = s, !.knows = password])
        /\ UNCHANGED <<tables, now, late, history>>

(* Mutant: sessions that wait for their second factor are not flagged. *)
markEstablishedSiblings(mine) ==
    [s \in SessionIds |-> IF s = mine \/ session[s].state = "unborn" \/ session[s].pending
                          THEN session[s] ELSE [session[s] EXCEPT !.reauth = TRUE]]

(* A session that is over is flagged or not, which nobody can tell.         *)
markSiblingsForReauth(mine) ==
    [s \in SessionIds |-> IF s = mine \/ session[s].state # "live"
                          THEN session[s] ELSE [session[s] EXCEPT !.reauth = TRUE]]

ChangeCommit(r) ==
    LET mine == request[r].session
    IN /\ request[r].kind = "change"
       /\ password < MaxPassword
       /\ password' = password + 1
       /\ session' = [markSiblingsForReauth(mine) EXCEPT ![mine].knows = password + 1]
       /\ request' = [request EXCEPT ![r] = Idle]
       /\ late' = (late \cup Compared(r)) \ {r}
       /\ stale' = stale \ {mine}
       /\ UNCHANGED <<enrolment, code, now, loose, orphans, cutOff>>

(* POST /auth/reauth *)
ReauthRead(r) ==
    \E s \in SessionIds :
        /\ AdmittedFlagged(s)
        /\ Begin(r, [Idle EXCEPT !.kind = "reauth", !.session = s, !.knows = password])
        /\ UNCHANGED <<tables, now, late, history>>

(* The flag is cleared, whoever has set it since. *)
ReauthCommit(r) ==
    LET s == request[r].session
    IN /\ request[r].kind = "reauth"
       /\ session' = [session EXCEPT ![s].reauth = FALSE, ![s].knows = request[r].knows]
       /\ stale' = IF r \in late THEN stale \cup {s} ELSE stale \ {s}
       /\ Finish(r)
       /\ UNCHANGED <<password, enrolment, code, now, loose, orphans, cutOff>>

(* DELETE /auth/sessions: every session but the caller's is revoked. *)
revokeAllExcept ==
    /\ \E s \in SessionIds :
         /\ AdmittedPending(s)
         /\ session' = [o \in SessionIds |-> IF o = s \/ session[o].state = "unborn"
                                     THEN session[o] ELSE [session[o] EXCEPT !.state = "over"]]
    /\ UNCHANGED <<password, enrolment, code, now, request, late, history>>

(* expiresAt passes. *)
SessionExpires ==
    /\ \E s \in SessionIds :
         /\ session[s].state = "live"
         /\ session' = [session EXCEPT ![s].state = "over"]
    /\ UNCHANGED <<password, enrolment, code, now, request, late, history>>
=============================================================================
