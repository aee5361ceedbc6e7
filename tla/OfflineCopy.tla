----------------------------- MODULE OfflineCopy ----------------------------
(***************************************************************************)
(* The encrypted copy of the vaults that one page keeps on its device, the *)
(* switch that forbids it, and the refreshes that write it.                *)
(*                                                                         *)
(* A refresh takes the address, the wrapped keyring and the vaults from    *)
(* three places that change at different times, and is never cancelled:    *)
(* its requests carry whichever session the cookie names by then.  An      *)
(* account that may be absent is a set, empty where there is none.         *)
(* (frontend/src/vault/offline-cache.ts, vault/offline-session.ts,         *)
(* vault/session.ts, App.tsx, features/settings/OfflineAccess.tsx)         *)
(***************************************************************************)
EXTENDS FiniteSets, Naturals

CONSTANTS
    Accounts,    \* who uses this device
    Flows,       \* bound: the sign-ins, and refreshes of the list, in flight at once
    MaxCopies    \* bound: refreshes of the copy in flight at once

VARIABLES
    enabled,     \* the device's switch
    copy,        \* the device's snapshot: at most one
    switching,   \* the switch was turned off, the copy not yet removed
    held,        \* session.ts: whose wrapped keyring was fetched last
    unlocked,    \* keyring.ts: whose keys are in memory
    email,       \* App.tsx: emailRef
    listed,      \* App.tsx: whose vaults vaultsRef has
    offline,     \* App.tsx: offlineRef
    open,        \* App.tsx: its screen is one of the workbench
    mounted,     \* what React last rendered is the workbench, its list mounted
    entering,    \* the sign-ins and refreshes of the list in flight
    copying,     \* the refreshes of the copy in flight
    cookie,      \* whose session the requests carry
    torn,        \* history: a switch was cut short, or a save overlapped it
    stray        \* history: the entries of two accounts have overlapped, the copy of
                 \* someone not signed in was opened, or a list or address was mounted
                 \* beside the keys of someone else

screen == <<offline, open, mounted>>
page   == <<held, unlocked, email, listed, screen, entering>>
device == <<enabled, copy, switching, torn>>
vars   == <<page, device, copying, cookie, stray>>

-----------------------------------------------------------------------------
Someone == {{}} \cup {{a} : a \in Accounts}

Snapshot == [email : Someone, keyring : Someone, vaults : Someone]

Refresh == [phase : {"contents", "check", "write"}, copy : Snapshot]

(* of: whose vaults the server has listed; again: it enters nothing new.    *)
Entry == [phase : {"idle", "login", "derive", "load", "enter", "name", "show", "open"},
          again : BOOLEAN, who : Someone, of : Someone]

Idle == [phase |-> "idle", again |-> FALSE, who |-> {}, of |-> {}]

Init ==
    /\ enabled = TRUE /\ copy = {} /\ switching = FALSE
    /\ held = {} /\ unlocked = {} /\ email = {} /\ listed = {}
    /\ offline = FALSE /\ open = FALSE /\ mounted = FALSE
    /\ entering = [f \in Flows |-> Idle]
    /\ copying = {} /\ cookie = {}
    /\ torn = FALSE /\ stray = FALSE

-----------------------------------------------------------------------------
(* The page *)

(* A workbench that is not of the account whose keys are in memory.         *)
Misfit == mounted /\ (unlocked # email \/ (~offline /\ listed # email))

(* React calls App.                                                         *)
Render ==
    /\ mounted' = (open' /\ unlocked' # {})
    /\ stray' = (stray \/ Misfit')

(* Past its sign-in, f is not the only one: another is of somebody else.    *)
Beyond(f) == entering[f].phase \in {"derive", "load", "enter", "name", "show"}

Crosses(f, who) == \E g \in Flows \ {f} : Beyond(g) /\ entering[g].who # who

Begin(f, phase, again, who) ==
    /\ entering[f] = Idle
    /\ entering' =
         [entering EXCEPT ![f] = [phase |-> phase, again |-> again, who |-> who, of |-> {}]]

Advance(f, phase) == entering' = [entering EXCEPT ![f].phase = phase]

End(f) == entering' = [entering EXCEPT ![f] = Idle]

(* Unlock or Register submits, or the prompt for a changed password; a form *)
(* that was left, or that was done with, leaves its requests in flight.     *)
SignIn(f, a) ==
    /\ ~mounted \/ email = {a}
    /\ Begin(f, "login", FALSE, {a})
    /\ UNCHANGED <<held, unlocked, email, listed, screen, device, copying, cookie, stray>>

(* The server's answer names the session, and unlockFromKeyring keeps the   *)
(* keyring before it has opened anything ...                                *)
Keep(f, who) ==
    /\ held' = who
    /\ stray' = (stray \/ Crosses(f, who) \/ (open /\ (mounted \/ unlocked # {}) /\ email # who))
    /\ UNCHANGED <<unlocked, email, listed, screen, device, copying>>

LoginAnswered(f) ==
    /\ entering[f].phase = "login"
    /\ cookie' = entering[f].who
    /\ Advance(f, "derive")
    /\ Keep(f, entering[f].who)

(* ... which after a second factor is that of whoever the cookie names by   *)
(* then, and opens with the password of its owner only.                     *)
KeyringAnswered(f) ==
    /\ entering[f].phase = "login"
    /\ cookie # {} /\ UNCHANGED cookie
    /\ IF cookie = entering[f].who THEN Advance(f, "derive") ELSE End(f)
    /\ Keep(f, cookie)

Unlocked(f) ==
    /\ entering[f].phase = "derive"
    /\ unlocked' = entering[f].who
    /\ Advance(f, "load")
    /\ UNCHANGED <<held, email, listed, screen, device, copying, cookie, stray>>

(* Mutant: the address of the page is not yet the one that signed in. *)
LoadedLate(f) ==
    /\ entering[f].phase = "load"
    /\ cookie # {} /\ unlocked = cookie
    /\ offline' = FALSE
    /\ Advance(f, "enter")
    /\ UNCHANGED <<held, unlocked, email, listed, open, device, copying, cookie>>
    /\ Render

(* loadVaults has opened what the server listed of whoever the cookie names *)
(* by then, with the keys in memory by then; and enterVault begins.         *)
Loaded(f) ==
    /\ entering[f].phase = "load"
    /\ cookie # {} /\ unlocked = cookie
    /\ email' = entering[f].who /\ offline' = FALSE
    /\ Advance(f, "enter")
    /\ UNCHANGED <<held, unlocked, listed, open, device, copying, cookie>>
    /\ Render

(* A step fails; Unlock looks for a copy if the server was not reached.     *)
EntryFails(f) ==
    /\ entering[f] # Idle
    /\ \/ End(f)
       \/ /\ entering[f].phase \in {"login", "load"}
          /\ Advance(f, "open")
    /\ UNCHANGED <<held, unlocked, email, listed, screen, device, copying, cookie, stray>>

(* refreshOfflineCache begins; nothing does while the device is off.        *)
StartCopy(vaults) ==
    copying' =
        IF enabled /\ held # {} /\ Cardinality(copying) < MaxCopies
        THEN copying \cup {[phase |-> "contents",
                            copy |-> [email |-> email, keyring |-> held, vaults |-> vaults]]}
        ELSE copying

(* refreshVaults again: a vault was created, an invitation answered, a      *)
(* backup restored.                                                         *)
Again(f) ==
    /\ mounted
    /\ Begin(f, "enter", TRUE, email)
    /\ UNCHANGED <<held, unlocked, email, listed, screen, device, copying, cookie, stray>>

(* refreshVaults: the list comes, and its personal vault opens, as above ... *)
Listed(f) ==
    /\ entering[f].phase = "enter"
    /\ cookie # {} /\ unlocked = cookie
    /\ entering' = [entering EXCEPT ![f].phase = "name", ![f].of = cookie]
    /\ UNCHANGED <<held, unlocked, email, listed, screen, device, copying, cookie, stray>>

(* ... and once it has its names it is taken up, and a copy begun of what   *)
(* the page holds at that moment.                                           *)
Named(f) ==
    /\ entering[f].phase = "name"
    /\ listed' = entering[f].of
    /\ StartCopy(entering[f].of)
    /\ IF entering[f].again THEN End(f) ELSE Advance(f, "show")
    /\ UNCHANGED <<held, unlocked, email, offline, open, device, cookie>>
    /\ Render

(* The server is not reached and the copy is opened instead, for the        *)
(* address it is filed under and with the password of its keyring.          *)
OpenCopy(f) ==
    /\ entering[f].phase = "open"
    /\ enabled
    /\ \E c \in copy : c.email = entering[f].who /\ c.keyring = entering[f].who
    /\ unlocked' = entering[f].who /\ email' = entering[f].who
    /\ offline' = TRUE
    /\ Advance(f, "show")
    /\ UNCHANGED <<held, listed, open, device, copying, cookie>>
    /\ mounted' = open
    /\ stray' = (stray \/ Crosses(f, email') \/ held # email')

(* The types of secret have come, or the copy was read once more.           *)
Entered(f) ==
    /\ entering[f].phase = "show"
    /\ open' = TRUE
    /\ End(f)
    /\ UNCHANGED <<held, unlocked, email, listed, offline, device, copying, cookie>>
    /\ Render

(* handleDataChanged: the list on display has loaded.                       *)
DataChanged ==
    /\ mounted /\ ~offline
    /\ StartCopy(listed)
    /\ UNCHANGED <<page, device, cookie, stray>>

(* Auto-lock, the Lock button, REAUTH_REQUIRED: the keys go, the copy       *)
(* stays.  A screen that the listener does not name is left as it is, and   *)
(* on display until App is called again.                                    *)
Lock ==
    /\ unlocked' = {}
    /\ open' \in {FALSE, open}
    /\ mounted' \in {FALSE, mounted /\ open'}
    /\ UNCHANGED <<held, email, listed, offline, entering, device, copying, cookie, stray>>

(* App is called for some other reason, or a link of the form is followed.  *)
Repaint ==
    /\ open' \in {open, open /\ mounted}
    /\ UNCHANGED <<held, unlocked, email, listed, offline, entering, device, copying, cookie>>
    /\ Render

(* The page is reloaded, and what it had begun is cut off.                  *)
Reload ==
    /\ held' = {} /\ unlocked' = {} /\ email' = {} /\ listed' = {}
    /\ offline' = FALSE /\ open' = FALSE /\ mounted' = FALSE
    /\ entering' = [f \in Flows |-> Idle]
    /\ copying' = {}
    /\ switching' = FALSE
    /\ torn' = (torn \/ switching)
    /\ UNCHANGED <<enabled, copy, cookie, stray>>

(* Another tab of the browser signs in.                                     *)
OtherTab(a) ==
    /\ cookie' = {a}
    /\ UNCHANGED <<page, device, copying, stray>>

-----------------------------------------------------------------------------
(* A refresh *)

Becomes(r, phase) == copying' = (copying \ {r}) \cup {[r EXCEPT !.phase = phase]}

(* The contents of every vault, which the server gives to a member; only    *)
(* its owner is a member of a personal vault.                               *)
Contents(r) ==
    /\ r.phase = "contents"
    /\ cookie # {} /\ r.copy.vaults \in {{}, cookie}
    /\ Becomes(r, "check")
    /\ UNCHANGED <<page, device, cookie, stray>>

(* Mutant: the switch is read when the refresh begins, and no more. *)
SaveUnasked(r) ==
    /\ r.phase = "check"
    /\ Becomes(r, "write")
    /\ UNCHANGED <<page, device, cookie, stray>>

(* saveSnapshot: the switch is read ...                                     *)
SaveChecked(r) ==
    /\ r.phase = "check"
    /\ IF enabled THEN Becomes(r, "write") ELSE copying' = copying \ {r}
    /\ UNCHANGED <<page, device, cookie, stray>>

(* ... and the copy replaced, in another transaction of the device.         *)
SaveWritten(r) ==
    /\ r.phase = "write"
    /\ copy' = {r.copy}
    /\ copying' = copying \ {r}
    /\ UNCHANGED <<page, enabled, switching, torn, cookie, stray>>

(* Refused, not reached, or no room on the device.                          *)
CopyFails(r) ==
    /\ copying' = copying \ {r}
    /\ UNCHANGED <<page, device, cookie, stray>>

-----------------------------------------------------------------------------
(* The switch.  setOfflineEnabled writes it, then removes the copy.         *)
SwitchOn ==
    /\ mounted
    /\ enabled' = TRUE
    /\ UNCHANGED <<page, copy, switching, torn, copying, cookie, stray>>

SwitchOff ==
    /\ mounted
    /\ enabled' = FALSE /\ switching' = TRUE
    /\ torn' = (torn \/ \E r \in copying : r.phase = "write")
    /\ UNCHANGED <<page, copy, copying, cookie, stray>>

SwitchedOff ==
    /\ switching
    /\ copy' = {} /\ switching' = FALSE
    /\ UNCHANGED <<page, enabled, torn, copying, cookie, stray>>

(* loadSnapshot removes a copy that has gone stale.                         *)
CopyExpires ==
    /\ enabled
    /\ copy' = {}
    /\ UNCHANGED <<page, enabled, switching, torn, copying, cookie, stray>>

Next ==
    \/ \E a \in Accounts : OtherTab(a) \/ \E f \in Flows : SignIn(f, a)
    \/ \E f \in Flows :
         \/ LoginAnswered(f) \/ KeyringAnswered(f) \/ Unlocked(f) \/ Loaded(f) \/ EntryFails(f)
         \/ Again(f) \/ Listed(f) \/ Named(f) \/ OpenCopy(f) \/ Entered(f)
    \/ DataChanged \/ Lock \/ Repaint \/ Reload
    \/ \E r \in copying : Contents(r) \/ SaveChecked(r) \/ SaveWritten(r) \/ CopyFails(r)
    \/ SwitchOn \/ SwitchOff \/ SwitchedOff \/ CopyExpires

Spec == Init /\ [][Next]_vars

-----------------------------------------------------------------------------
(* Properties *)

TypeOK ==
    /\ {enabled, switching, offline, open, mounted, torn, stray} \subseteq BOOLEAN
    /\ {held, unlocked, email, listed, cookie} \subseteq Someone
    /\ copy \subseteq Snapshot /\ \A c, d \in copy : c = d
    /\ entering \in [Flows -> Entry]
    /\ copying \subseteq Refresh

(* The copy is of one account: the vaults of the address it is filed under, *)
(* and the keyring that opens them, whatever locks, tabs and sign-ins a     *)
(* refresh outlived.  It is not once the entries of two accounts overlapped *)
(* in the page, or one was entered over the workbench of another, left by a *)
(* lock; or a copy was opened over another's keyring.                       *)
(* (App.tsx:124-132, 189-208, session.ts:102, offline-session.ts:104-109)   *)
CopyIsOneAccounts ==
    ~stray => \A c \in copy : c.email # {} /\ c.keyring = c.email /\ c.vaults = c.email

(* Switched off, the device holds no copy and will get none, unless a save  *)
(* overlapped the switch or the page was closed in the middle of it.        *)
(* (offline-cache.ts:160-179, FR-059)                                       *)
OffMeansNoCopy == ~enabled /\ ~switching /\ ~torn => copy = {}
=============================================================================
