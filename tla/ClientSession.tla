---------------------------- MODULE ClientSession ---------------------------
(***************************************************************************)
(* One page of the application: the keys it holds in memory, the screen it *)
(* shows, and the sign-ins and entries into the workbench in flight.       *)
(*                                                                         *)
(* Nothing in the page is cancelled: what was started under one account    *)
(* goes on after a lock, beside the sign-in of another, and its requests   *)
(* carry whichever session the cookie names by then.  An account that may  *)
(* be absent is a set, empty where there is none.  What the device keeps   *)
(* is in OfflineCopy; here a copy may be there to open, or not.            *)
(* (frontend/src/App.tsx, vault/session.ts, vault/keyring.ts,              *)
(* vault/auto-lock.ts, vault/offline-session.ts, api/client.ts,            *)
(* features/unlock)                                                        *)
(***************************************************************************)
EXTENDS FiniteSets

CONSTANTS
    Accounts,    \* who uses this page
    Flows        \* bound: the chains of requests in flight at once

VARIABLES
    keys,        \* keyring.ts: whose keys are in memory
    armed,       \* auto-lock.ts: the timer runs
    email,       \* App.tsx: email, emailRef
    names,       \* App.tsx: whose vaults it has decrypted names of
    screen,      \* App.tsx: screen
    pending,     \* App.tsx: pendingTotp, who has yet to give a second factor
    reauth,      \* App.tsx: reauthNeeded
    rendered,    \* what App returned when React last called it
    flow,        \* the chains of requests: a form's submit, and what follows
    session,     \* the session that the cookie names, as the server sees it
    behind,      \* history: a lock has left a screen, or an entry, behind
    mixed        \* history: since the last lock that left nothing behind, an
                 \* account's keys have taken the place of another's

vars == <<keys, armed, email, names, screen, pending, reauth, rendered, flow, session,
          behind, mixed>>

-----------------------------------------------------------------------------
Someone == {{}} \cup {{a} : a \in Accounts}

Workbench == {"vault", "organise", "sharing", "settings"}

(* of: whose keyring, or whose vaults, the server has sent.                 *)
Flow == [phase : {"idle", "login", "keyring", "derive", "load",
                  "enter", "name", "templates", "open", "reread"},
         kind : {"unlock", "register", "totp", "reauth", "again"}, who : Someone, of : Someone]

Idle == [phase |-> "idle", kind |-> "unlock", who |-> {}, of |-> {}]

(* The keys are unlocked, the workbench not yet entered.                    *)
Entering(f) == flow[f].phase \in {"load", "enter", "name", "templates", "reread"}

(* The screen that App returns.                                             *)
View ==
    CASE pending # {}                       -> "totp"
      [] pending = {} /\ reauth             -> "reauth"
      [] pending = {} /\ ~reauth /\ screen = "register" -> "register"
      [] pending = {} /\ ~reauth /\ (screen = "unlock" \/ (keys = {} /\ screen # "register"))
                                              -> "unlock"
      [] OTHER                              -> "workbench"

(* React calls App whenever a state of its changes.                         *)
Render == rendered' = View'

Good == session.who # {} /\ session.state = "good"

Init ==
    /\ keys = {} /\ armed = FALSE /\ email = {} /\ names = {}
    /\ screen = "unlock" /\ pending = {} /\ reauth = FALSE /\ rendered = "unlock"
    /\ flow = [f \in Flows |-> Idle]
    /\ session = [who |-> {}, state |-> "good"]
    /\ behind = FALSE /\ mixed = FALSE

-----------------------------------------------------------------------------
(* Locking *)

(* Mutant: a lock leaves the settings where they are. *)
LeaveVault == IF keys # {} /\ screen = "vault" THEN "unlock" ELSE screen

(* What the listener makes of the screen when the keys go.                  *)
Leave == IF keys # {} /\ screen \in {"vault", "settings"} THEN "unlock" ELSE screen

(* A lock that leaves the screen at s.                                      *)
Disturb(s) ==
    /\ behind' = (behind \/ (keys # {} /\ (s # "unlock" \/ \E f \in Flows : Entering(f))))
    /\ mixed' = (mixed /\ behind')

(* Keys of someone come, which may be while another's are in memory: a form *)
(* that was left, or is done, has a chain of requests still going.          *)
Replace(who) ==
    /\ mixed' = (mixed \/ (keys # {} /\ keys # who))
    /\ UNCHANGED behind

(* The timer of auto-lock.ts: React hears of it only if the screen changes. *)
AutoLock ==
    /\ armed
    /\ armed' = FALSE
    /\ keys' = {} /\ screen' = Leave
    /\ Disturb(Leave)
    /\ UNCHANGED <<email, names, pending, reauth, flow, session>>
    /\ IF screen' # screen THEN Render ELSE UNCHANGED rendered

(* The Lock button, or a change of the master password that was accepted.   *)
LockButton ==
    /\ rendered = "workbench"
    /\ keys' = {} /\ screen' = "unlock"
    /\ Disturb("unlock")
    /\ UNCHANGED <<armed, email, names, pending, reauth, flow, session>>
    /\ Render

(* A request is answered REAUTH_REQUIRED: clear first, prompt second.       *)
ReauthRequired ==
    /\ session.who # {} /\ session.state = "reauth"
    /\ \/ rendered = "workbench" /\ UNCHANGED flow
       \/ \E f \in Flows : /\ flow[f].phase \in {"keyring", "load", "enter", "templates"}
                           /\ flow' = [flow EXCEPT ![f] = Idle]
    /\ keys' = {} /\ screen' = Leave /\ reauth' = TRUE
    /\ Disturb(Leave)
    /\ UNCHANGED <<armed, email, names, pending, session>>
    /\ Render

(* The user does something: reset() arms the timer if there are keys, and   *)
(* stops it if there are none.                                              *)
Activity ==
    /\ armed' = (keys # {})
    /\ UNCHANGED <<keys, email, names, screen, pending, reauth, rendered, flow, session,
                   behind, mixed>>

(* App is called for some other reason: a badge, a count, a choice.         *)
Repaint ==
    /\ UNCHANGED <<keys, armed, email, names, screen, pending, reauth, flow, session,
                   behind, mixed>>
    /\ Render

Navigate(s) ==
    /\ \/ rendered = "workbench" /\ s \in Workbench
       \/ rendered \in {"unlock", "register"} /\ s \in {"unlock", "register"}
    /\ screen' = s
    /\ UNCHANGED <<keys, armed, email, names, pending, reauth, flow, session, behind, mixed>>
    /\ Render

-----------------------------------------------------------------------------
(* Signing in *)

Begin(f, phase, kind, who, of) ==
    /\ flow[f] = Idle
    /\ flow' = [flow EXCEPT ![f] = [phase |-> phase, kind |-> kind, who |-> who, of |-> of]]

Advance(f, phase, of) == flow' = [flow EXCEPT ![f].phase = phase, ![f].of = of]

End(f) == flow' = [flow EXCEPT ![f] = Idle]

(* Unlock or Register submits; leaving the form forgets that it was busy.   *)
Submit(f) ==
    /\ rendered \in {"unlock", "register"}
    /\ \E a \in Accounts : Begin(f, "login", rendered, {a}, {})
    /\ UNCHANGED <<keys, armed, email, names, screen, pending, reauth, rendered, session,
                   behind, mixed>>

(* The server answers the password with the keyring, or with a session that *)
(* waits for the second factor.                                             *)
LoginAnswered(f) ==
    /\ flow[f].phase = "login"
    /\ \/ /\ session' = [who |-> flow[f].who, state |-> "good"]
          /\ Advance(f, "derive", flow[f].who)
          /\ UNCHANGED pending
       \/ /\ flow[f].kind = "unlock"
          /\ session' = [who |-> flow[f].who, state |-> "factor"]
          /\ End(f)
          /\ pending' = flow[f].who
    /\ UNCHANGED <<keys, armed, email, names, screen, reauth, behind, mixed>>
    /\ IF pending' # pending THEN Render ELSE UNCHANGED rendered

(* TotpStep: a code is accepted, and the keyring asked for ...              *)
Verify(f) ==
    /\ rendered = "totp"
    /\ session = [who |-> pending, state |-> "factor"]
    /\ session' = [session EXCEPT !.state = "good"]
    /\ Begin(f, "keyring", "totp", pending, {})
    /\ UNCHANGED <<keys, armed, email, names, screen, pending, reauth, rendered, behind, mixed>>

(* ... which is that of whoever the cookie names by then.                   *)
KeyringAnswered(f) ==
    /\ flow[f].phase = "keyring"
    /\ Good
    /\ Advance(f, "derive", session.who)
    /\ UNCHANGED <<keys, armed, email, names, screen, pending, reauth, rendered, session,
                   behind, mixed>>

(* The step is cancelled; what it has sent is not.                          *)
Cancel ==
    /\ rendered = "totp"
    /\ pending' = {}
    /\ UNCHANGED <<keys, armed, email, names, screen, reauth, flow, session, behind, mixed>>
    /\ Render

(* ReauthPrompt: the new password of the address that the page has.         *)
Reauthenticate(f) ==
    /\ rendered = "reauth"
    /\ email # {} /\ session.who = email /\ session.state # "factor"
    /\ session' = [session EXCEPT !.state = "good"]
    /\ Begin(f, "derive", "reauth", email, email)
    /\ UNCHANGED <<keys, armed, email, names, screen, pending, reauth, rendered, behind, mixed>>

(* Mutant: the keys of whatever keyring came are taken. *)
UnlockedUnchecked(f) ==
    /\ flow[f].phase = "derive"
    /\ keys' = flow[f].of /\ armed' = TRUE
    /\ Replace(flow[f].of)
    /\ Advance(f, "load", {})
    /\ UNCHANGED <<email, names, screen, pending, reauth, rendered, session>>

(* unlock(): a keyring opens with the password of its owner only.           *)
Unlocked(f) ==
    /\ flow[f].phase = "derive"
    /\ flow[f].of = flow[f].who
    /\ keys' = flow[f].of /\ armed' = TRUE
    /\ Replace(flow[f].of)
    /\ Advance(f, "load", {})
    /\ UNCHANGED <<email, names, screen, pending, reauth, rendered, session>>

(* loadVaults: the vaults of whoever the cookie names, a personal one among *)
(* them, whose wraps open under their owner's keys only.  The form is done, *)
(* and enterVault begins.                                                   *)
Loaded(f) ==
    /\ flow[f].phase = "load"
    /\ Good /\ keys = session.who
    /\ email' = flow[f].who
    /\ pending' = IF flow[f].kind = "totp" THEN {} ELSE pending
    /\ reauth' = (reauth /\ flow[f].kind # "reauth")
    /\ Advance(f, "enter", {})
    /\ UNCHANGED <<keys, armed, names, screen, session, behind, mixed>>
    /\ Render

(* A step fails: refused, not opened by the keys at hand, not reached.      *)
(* When Unlock cannot reach the server it may find a copy to open.          *)
Fail(f) ==
    /\ flow[f] # Idle
    /\ \/ End(f)
       \/ flow[f].kind = "unlock" /\ flow[f].phase \in {"login", "load"} /\ Advance(f, "open", {})
    /\ UNCHANGED <<keys, armed, email, names, screen, pending, reauth, rendered, session,
                   behind, mixed>>

-----------------------------------------------------------------------------
(* Entering the workbench *)

(* refreshVaults again: an invitation answered, a vault created, a restore. *)
Again(f) ==
    /\ rendered = "workbench"
    /\ Begin(f, "enter", "again", {}, {})
    /\ UNCHANGED <<keys, armed, email, names, screen, pending, reauth, rendered, session,
                   behind, mixed>>

(* loadVaults: the list of whoever the cookie names comes, and its wraps    *)
(* open under their owner's keys.                                           *)
Listed(f) ==
    /\ flow[f].phase = "enter"
    /\ Good /\ keys = session.who
    /\ Advance(f, "name", session.who)
    /\ UNCHANGED <<keys, armed, email, names, screen, pending, reauth, rendered, session,
                   behind, mixed>>

(* Then the names, as far as their keys are still there; a name that does   *)
(* not open stops nothing.                                                  *)
Named(f) ==
    /\ flow[f].phase = "name"
    /\ names' = flow[f].of \cap keys
    /\ IF flow[f].kind = "again" THEN End(f) ELSE Advance(f, "templates", {})
    /\ UNCHANGED <<keys, armed, email, screen, pending, reauth, session, behind, mixed>>
    /\ Render

Entered(f) ==
    /\ flow[f].phase = "templates"
    /\ Good
    /\ screen' = "vault"
    /\ End(f)
    /\ UNCHANGED <<keys, armed, email, names, pending, reauth, session, behind, mixed>>
    /\ Render

(* Mutant: a copy that opens leaves the timer as it was. *)
OpenedUnarmed(f) ==
    /\ flow[f].phase = "open"
    /\ keys' = flow[f].who
    /\ Replace(flow[f].who)
    /\ email' = flow[f].who
    /\ Advance(f, "reread", {})
    /\ UNCHANGED <<armed, names, screen, pending, reauth, session>>
    /\ Render

(* unlockOffline opens the copy of the address, and enterVault begins.  A   *)
(* copy whose vault keys do not open leaves the keys and arms no timer.     *)
Opened(f) ==
    /\ flow[f].phase = "open"
    /\ keys' = flow[f].who
    /\ Replace(flow[f].who)
    /\ \/ /\ armed' = TRUE /\ email' = flow[f].who
          /\ Advance(f, "reread", {})
       \/ End(f) /\ UNCHANGED <<armed, email>>
    /\ UNCHANGED <<names, screen, pending, reauth, session>>
    /\ IF email' # email THEN Render ELSE UNCHANGED rendered

(* It reads the copy once more, which may be gone by then.                  *)
Reread(f) ==
    /\ flow[f].phase = "reread"
    /\ names' \in {{}, flow[f].who}
    /\ screen' = "vault"
    /\ End(f)
    /\ UNCHANGED <<keys, armed, email, pending, reauth, session, behind, mixed>>
    /\ Render

(* The password is changed on another device.                               *)
ChangedElsewhere ==
    /\ Good
    /\ session' = [session EXCEPT !.state = "reauth"]
    /\ UNCHANGED <<keys, armed, email, names, screen, pending, reauth, rendered, flow,
                   behind, mixed>>

Next ==
    \/ \E f \in Flows :
         \/ Submit(f) \/ LoginAnswered(f) \/ Verify(f) \/ KeyringAnswered(f) \/ Reauthenticate(f)
         \/ Unlocked(f) \/ Loaded(f) \/ Fail(f) \/ Again(f) \/ Listed(f) \/ Named(f) \/ Entered(f)
         \/ Opened(f) \/ Reread(f)
    \/ \E s \in Workbench \cup {"unlock", "register"} : Navigate(s)
    \/ AutoLock \/ LockButton \/ ReauthRequired \/ Activity \/ Repaint \/ Cancel \/ ChangedElsewhere

Spec == Init /\ [][Next]_vars

-----------------------------------------------------------------------------
(* Properties *)

TypeOK ==
    /\ {keys, email, names, pending} \subseteq Someone
    /\ {armed, reauth, behind, mixed} \subseteq BOOLEAN
    /\ screen \in Workbench \cup {"unlock", "register"}
    /\ rendered \in {"unlock", "register", "totp", "reauth", "workbench"}
    /\ flow \in [Flows -> Flow]
    /\ session \in [who : Someone, state : {"good", "factor", "reauth"}]

(* Once the keys are gone the workbench is not shown, except that a lock    *)
(* leaves the two screens which its listener does not name on display.      *)
(* (App.tsx:175-184)                                                        *)
LockHidesVault == keys = {} /\ rendered = "workbench" => screen \in {"organise", "sharing"}

(* The workbench shows the vaults and the address of the account whose keys *)
(* are held, whatever is cancelled, navigated or asked again meanwhile;     *)
(* unless two sign-ins overlapped so that one account's keys replaced the   *)
(* other's, or a lock has left a screen, or an entry that then went on.     *)
(* (App.tsx:175-177, 189-271; session.ts:102)                               *)
WorkbenchShowsItsOwner ==
    rendered = "workbench" /\ keys # {} /\ ~behind /\ ~mixed => names \subseteq keys /\ email = keys

(* A vault on display has its timer running, however it was opened and      *)
(* whoever else signs in, unless a lock has left its screen, or an entry,   *)
(* behind.  (auto-lock.ts:21-31, 75-76)                                     *)
OpenIsArmed == rendered = "workbench" /\ keys # {} /\ ~behind => armed
=============================================================================
