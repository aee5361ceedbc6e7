----------------------------- MODULE AccountKeys -----------------------------
(***************************************************************************)
(* What a master password opens.  The server has a hash that shows that the*)
(* password is known, and two envelopes that it cannot open: the user key, *)
(* under the password, and the seed of the second factor, under the user   *)
(* key.  Pages make all of them and put them together from three places:   *)
(* the password that is typed, the keys and the keyring of the last        *)
(* sign-in, and the cookie, which pages of one browser share and which     *)
(* tells the server whose account it is.                                   *)
(* A read of the server and what it is compared with are one step; a change*)
(* of the password is written in a later one, and answers come when they   *)
(* come, or not at all.                                                    *)
(* (frontend/src/vault/session.ts, crypto, settings, unlock;               *)
(* backend/src/modules/auth)                                               *)
(***************************************************************************)
EXTENDS Naturals, FiniteSets

CONSTANTS
    Accounts,
    Pages,
    MaxPassword,   \* bound: the passwords are 1..MaxPassword
    MaxSessions,   \* bound: the sessions that are issued
    MaxCalls       \* bound: the requests and answers on their way

VARIABLES
    together,      \* the pages are of one browser, and share its cookie
    digest,        \* user.authHashDigest
    keyring,       \* user_keyring.wrappedUserKey
    seed,          \* totp_enrolment.wrappedSecret
    session,
    cookie,        \* the number of the session that a page's browser holds
    page,
    calls

server == <<digest, keyring, seed>>
vars   == <<together, server, session, cookie, page, calls>>

-----------------------------------------------------------------------------
(* The derivations, each told from any other, and the keys *)

Nothing == <<>>

deriveMasterKey(email, password) == <<email, password>>

deriveAuthHash(master) == <<"auth hash", master>>

deriveStretchedMasterKey(master) == <<"stretched", master>>

(* It is made once, with the account. *)
UserKey(a) == <<"user key", a>>

(* An envelope is opened by the key it was sealed with, and by no other.    *)
encrypt(key, what) == [by |-> key, what |-> what]
Opens(key, sealed) == sealed # Nothing /\ sealed.by = key

wrapUserKey(master, userKey) == encrypt(deriveStretchedMasterKey(master), userKey)
Unwraps(master, sealed)      == Opens(deriveStretchedMasterKey(master), sealed)

Passwords == 1..MaxPassword
Masters   == {deriveMasterKey(a, n) : a \in Accounts, n \in Passwords}
UserKeys  == {UserKey(a) : a \in Accounts}
Wraps     == {wrapUserKey(m, k) : m \in Masters, k \in UserKeys}

-----------------------------------------------------------------------------
NoSession == [of |-> Nothing, pending |-> FALSE, flagged |-> FALSE]

(* email: App's.  master: the address and password held for the second      *)
(* factor.  key: the user key in memory.  ring: currentKeyring.             *)
Blank == [at |-> "locked", email |-> Nothing, master |-> Nothing, key |-> Nothing,
          ring |-> Nothing]

Page == [at     : {"locked", "factor", "verified", "open", "reauth"},
         email  : Accounts \cup {Nothing},
         master : Masters \cup {Nothing},
         key    : UserKeys \cup {Nothing},
         ring   : Wraps \cup {Nothing}]

(* in: an answer that lets a page in.  change: a password has been compared.*)
(* changed: its answer.  from is Nothing when the page has gone.            *)
Call == [kind   : {"in", "change", "changed"},
         from   : Pages \cup {Nothing},
         token  : 0..MaxSessions,
         master : Masters,
         wrap   : Wraps \cup {Nothing}]

(* Some accounts are registered, some of them with a second factor.         *)
Init ==
    /\ together \in BOOLEAN
    /\ \E there \in SUBSET Accounts : \E guarded \in SUBSET there :
         LET master(a) == deriveMasterKey(a, 1)
             Of(S, a, x) == IF a \in S THEN x ELSE Nothing
         IN  /\ digest = [a \in Accounts |-> Of(there, a, deriveAuthHash(master(a)))]
             /\ keyring = [a \in Accounts |-> Of(there, a, wrapUserKey(master(a), UserKey(a)))]
             /\ seed = [a \in Accounts |-> Of(guarded, a, encrypt(UserKey(a), "seed"))]
    /\ session = [t \in 1..MaxSessions |-> NoSession]
    /\ cookie = [p \in Pages |-> 0]
    /\ page = [p \in Pages |-> Blank]
    /\ calls = {}

(* The session that a request of the page comes with, and whose it is.      *)
Mine(p)  == IF cookie[p] = 0 THEN NoSession ELSE session[cookie[p]]
Whose(p) == Mine(p).of

Admitted(p)        == Whose(p) # Nothing /\ ~Mine(p).pending /\ ~Mine(p).flagged
AdmittedPending(p) == Whose(p) # Nothing /\ ~Mine(p).flagged
AdmittedFlagged(p) == Whose(p) # Nothing /\ ~Mine(p).pending

issueSession(t, a, pending) ==
    /\ session[t] = NoSession /\ \A u \in 1..(t - 1) : session[u] # NoSession
    /\ session' = [session EXCEPT ![t] = [of |-> a, pending |-> pending, flagged |-> FALSE]]

Send(c) ==
    /\ Cardinality(calls) < MaxCalls
    /\ calls' = calls \cup {c}

(* A form that is busy does not send again. *)
Free(p) == \A c \in calls : ~(c.kind = "in" /\ c.from = p)

-----------------------------------------------------------------------------
(* Signing in *)

(* register, with buildRegistrationRequest: the hash and the key are sent,  *)
(* and the page will go on with what it has made.                           *)
Register(p, a, n) ==
    LET master == deriveMasterKey(a, n)
        wrap   == wrapUserKey(master, UserKey(a))
    IN  /\ page[p].at = "locked" /\ Free(p)
        /\ digest[a] = Nothing
        /\ digest' = [digest EXCEPT ![a] = deriveAuthHash(master)]
        /\ keyring' = [keyring EXCEPT ![a] = wrap]
        /\ \E t \in 1..MaxSessions :
             /\ issueSession(t, a, FALSE)
             /\ Send([kind |-> "in", from |-> p, token |-> t, master |-> master, wrap |-> wrap])
        /\ UNCHANGED <<together, seed, cookie, page>>

(* signIn.  The keyring is not given before the second factor. *)
Login(p, a, n) ==
    LET master == deriveMasterKey(a, n)
        factor == seed[a] # Nothing
    IN  /\ page[p].at = "locked" /\ Free(p)
        /\ digest[a] = deriveAuthHash(master)
        /\ \E t \in 1..MaxSessions :
             /\ issueSession(t, a, factor)
             /\ Send([kind |-> "in", from |-> p, token |-> t, master |-> master,
                      wrap |-> IF factor THEN Nothing ELSE keyring[a]])
        /\ UNCHANGED <<together, server, cookie, page>>

(* reauthenticate: for the address that App has. *)
Reauth(p, n) ==
    LET master == deriveMasterKey(page[p].email, n)
    IN  /\ page[p].at = "reauth" /\ page[p].email # Nothing /\ Free(p)
        /\ AdmittedFlagged(p)
        /\ digest[Whose(p)] = deriveAuthHash(master)
        /\ session' = [session EXCEPT ![cookie[p]].flagged = FALSE]
        /\ Send([kind |-> "in", from |-> p, token |-> 0, master |-> master,
                 wrap |-> keyring[Whose(p)]])
        /\ UNCHANGED <<together, server, cookie, page>>

(* unlockFromKeyring: the keyring is kept first.  What the page shows if it *)
(* does not open is up to the caller.                                       *)
Unlocked(p, master, wrap, else) ==
    page' = [page EXCEPT ![p] =
               IF Unwraps(master, wrap)
               THEN [at |-> "open", email |-> master[1], master |-> Nothing,
                     key |-> wrap.what, ring |-> wrap]
               ELSE [@ EXCEPT !.at = else, !.ring = wrap]]

(* A page that meets a session that is flagged. *)
Flagged(p) ==
    page' = [page EXCEPT ![p].at = "reauth", ![p].key = Nothing, ![p].master = Nothing]

(* The challenge, fetched with the new cookie: the key for the second factor.*)
Challenged(c, p) ==
    LET s == session[c.token]
    IN  \/ s.flagged /\ Flagged(p)
        \/ /\ ~s.flagged
           /\ page' = IF Unwraps(c.master, keyring[s.of])
                      THEN [page EXCEPT ![p].at = "factor", ![p].master = c.master,
                                        ![p].key = keyring[s.of].what]
                      ELSE page

In(c) ==
    /\ c \in calls /\ c.kind = "in" /\ c.from # Nothing
    /\ calls' = calls \ {c}
    /\ cookie' = [q \in Pages |-> IF c.token # 0 /\ (together \/ q = c.from) THEN c.token
                                                                          ELSE cookie[q]]
    /\ IF c.wrap # Nothing THEN Unlocked(c.from, c.master, c.wrap, page[c.from].at)
                           ELSE Challenged(c, c.from)
    /\ UNCHANGED <<together, server, session>>

(* TotpStep: a code, for which the seed must open, or a backup code. *)
Verify(p, backup) ==
    /\ page[p].at = "factor"
    /\ AdmittedPending(p) /\ seed[Whose(p)] # Nothing
    /\ backup \/ Opens(page[p].key, seed[Whose(p)])
    /\ session' = [session EXCEPT ![cookie[p]].pending = FALSE]
    /\ page' = [page EXCEPT ![p].at = "verified"]
    /\ UNCHANGED <<together, server, cookie, calls>>

(* completeAfterTotp.  If it fails the step for the code is still there.    *)
Complete(p) ==
    /\ page[p].at = "verified"
    /\ \/ Admitted(p) /\ Unlocked(p, page[p].master, keyring[Whose(p)], "factor")
       \/ Mine(p).flagged /\ Flagged(p)
       \/ Mine(p).pending /\ ~Mine(p).flagged /\ page' = [page EXCEPT ![p].at = "factor"]
    /\ UNCHANGED <<together, server, session, cookie, calls>>

-----------------------------------------------------------------------------
(* The account's keys *)

(* changeMasterPassword, up to the comparison in PUT /auth/master-password: *)
(* the user key is taken from the keyring of the last sign-in, if the       *)
(* current password, as typed, opens it, and wrapped under the new one.     *)
NewWrap(p, old, new, ok) ==
    LET mine == deriveMasterKey(page[p].email, old)
        next == deriveMasterKey(page[p].email, new)
    IN  /\ page[p].at = "open" /\ Unwraps(mine, page[p].ring)
        /\ Admitted(p) /\ ok
        /\ Send([kind |-> "change", from |-> p, token |-> cookie[p], master |-> next,
                 wrap |-> wrapUserKey(next, page[p].ring.what)])
        /\ UNCHANGED <<together, server, session, cookie, page>>

(* Mutant: a session is enough to change the password. *)
ChangeUnchecked(p, old, new) == NewWrap(p, old, new, TRUE)

Change(p, old, new) ==
    NewWrap(p, old, new,
            digest[Whose(p)] = deriveAuthHash(deriveMasterKey(page[p].email, old)))

(* ... and its transaction, which flags the other sessions. *)
Changed(c) ==
    /\ c \in calls /\ c.kind = "change"
    /\ LET a == session[c.token].of
       IN  /\ digest' = [digest EXCEPT ![a] = deriveAuthHash(c.master)]
           /\ keyring' = [keyring EXCEPT ![a] = c.wrap]
           /\ session' = [t \in 1..MaxSessions |->
                            IF session[t].of = a /\ t # c.token
                            THEN [session[t] EXCEPT !.flagged = TRUE] ELSE session[t]]
    /\ calls' = (calls \ {c}) \cup {[c EXCEPT !.kind = "changed"]}
    /\ UNCHANGED <<together, seed, cookie, page>>

Lock(p) ==
    /\ page[p].at \in {"open", "factor"}
    /\ page' = [page EXCEPT ![p].at = "locked", ![p].key = Nothing, ![p].master = Nothing]

(* The page's timer, its owner, or the way back from the second factor.     *)
Leave(p) ==
    /\ Lock(p)
    /\ UNCHANGED <<together, server, session, cookie, calls>>

(* onChanged: whatever the page is at by then, its keys are dropped. *)
ChangeHeard(c) ==
    /\ c \in calls /\ c.kind = "changed" /\ c.from # Nothing
    /\ calls' = calls \ {c}
    /\ IF page[c.from].at = "open" THEN Lock(c.from) ELSE UNCHANGED page
    /\ UNCHANGED <<together, server, session, cookie>>

(* TwoFactor: confirm, with POST /auth/totp/enrol. *)
Enrol(p) ==
    /\ page[p].at = "open" /\ Admitted(p)
    /\ seed' = [seed EXCEPT ![Whose(p)] = encrypt(page[p].key, "seed")]
    /\ UNCHANGED <<together, digest, keyring, session, cookie, page, calls>>

(* TwoFactor: remove, with DELETE /auth/totp. *)
Remove(p, n) ==
    /\ page[p].at = "open" /\ Admitted(p) /\ seed[Whose(p)] # Nothing
    /\ digest[Whose(p)] = deriveAuthHash(deriveMasterKey(page[p].email, n))
    /\ seed' = [seed EXCEPT ![Whose(p)] = Nothing]
    /\ UNCHANGED <<together, digest, keyring, session, cookie, page, calls>>

-----------------------------------------------------------------------------
(* A request of an open page meets a session that is flagged.               *)
Refused(p) ==
    /\ page[p].at = "open" /\ Mine(p).flagged
    /\ Flagged(p)
    /\ UNCHANGED <<together, server, session, cookie, calls>>

(* A handler fails, or an answer is lost. *)
Lost(c) ==
    /\ c \in calls
    /\ calls' = calls \ {c}
    /\ UNCHANGED <<together, server, session, cookie, page>>

(* The page is closed and opened again; nothing takes back what it has sent.*)
Reload(p) ==
    /\ page' = [page EXCEPT ![p] = Blank]
    /\ calls' = {IF c.from = p THEN [c EXCEPT !.from = Nothing] ELSE c : c \in calls}
    /\ UNCHANGED <<together, server, session, cookie>>

Next ==
    \/ \E p \in Pages :
         \/ \E a \in Accounts, n \in Passwords : Register(p, a, n) \/ Login(p, a, n)
         \/ \E n \in Passwords : Reauth(p, n) \/ Remove(p, n)
         \/ \E o, n \in Passwords : Change(p, o, n)
         \/ \E b \in BOOLEAN : Verify(p, b)
         \/ Complete(p) \/ Leave(p) \/ Enrol(p) \/ Refused(p) \/ Reload(p)
    \/ \E c \in calls : In(c) \/ Changed(c) \/ ChangeHeard(c) \/ Lost(c)

Spec == Init /\ [][Next]_vars

-----------------------------------------------------------------------------
TypeOK ==
    /\ together \in BOOLEAN
    /\ digest \in [Accounts -> {deriveAuthHash(m) : m \in Masters} \cup {Nothing}]
    /\ keyring \in [Accounts -> Wraps \cup {Nothing}]
    /\ seed \in [Accounts -> {encrypt(k, "seed") : k \in UserKeys} \cup {Nothing}]
    /\ session \in [1..MaxSessions -> [of : Accounts \cup {Nothing}, pending : BOOLEAN,
                                       flagged : BOOLEAN]]
    /\ cookie \in [Pages -> 0..MaxSessions]
    /\ page \in [Pages -> Page]
    /\ calls \subseteq Call

(* There is no recovery, so the password that an account accepts must open  *)
(* what the account has: its own user key, and with that the seed of its    *)
(* second factor.  It holds however changes of two pages, sign-ins, stale   *)
(* keyrings and lost answers fall together, and when the cookie is another  *)
(* account's; except for the seed where pages of one browser share the      *)
(* cookie: a page seals the seed under its own keys, for that other account.*)
PasswordOpensTheAccount ==
    \A a \in Accounts : digest[a] # Nothing =>
        \E n \in Passwords :
            LET master == deriveMasterKey(a, n)
            IN  /\ digest[a] = deriveAuthHash(master)
                /\ keyring[a] = wrapUserKey(master, UserKey(a))
                /\ seed[a] = Nothing \/ Opens(UserKey(a), seed[a]) \/ together
=============================================================================
