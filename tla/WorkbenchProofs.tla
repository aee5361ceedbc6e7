--------------------------- MODULE WorkbenchProofs ---------------------------
(***************************************************************************)
(* What the workbench's run checks of its nine parts, for every value of   *)
(* the constants: a step of the workbench is a step of one part and leaves *)
(* the others alone, so that what holds of a part by itself holds here.    *)
(***************************************************************************)
EXTENDS MCWorkbench, SecretStoreProofs, FiniteSetTheorems, SequenceTheorems, TLAPS

-----------------------------------------------------------------------------
(* The workbench runs each of its parts *)

LEMMA PartsInit ==
    SumInit => /\ Init /\ Types!Init /\ Client!Init /\ Copy!Init
               /\ Archive!Init /\ Board!Init /\ List!Init /\ Screens!Init /\ Pane!Init
  BY DEF SumInit

LEMMA StoreSteps == [SumNext]_all => [Next]_vars
  BY DEF SumNext, all

LEMMA TypesSteps == [SumNext]_all => [Types!Next]_(Types!vars)
  BY DEF SumNext, all, types, Types!vars

LEMMA ClientSteps == [SumNext]_all => [Client!Next]_(Client!vars)
  BY DEF SumNext, all, client, Client!vars

LEMMA CopySteps == [SumNext]_all => [Copy!Next]_(Copy!vars)
  BY DEF SumNext, all, device, Copy!vars, Copy!page, Copy!screen, Copy!device

LEMMA ArchiveSteps == [SumNext]_all => [Archive!Next]_(Archive!vars)
  BY DEF SumNext, all, backup, Archive!vars, Archive!vault

LEMMA BoardSteps == [SumNext]_all => [Board!Next]_(Board!vars)
  BY DEF SumNext, all, board, Board!vars

LEMMA ListSteps == [SumNext]_all => [List!Next]_(List!vars)
  BY DEF SumNext, all, list, List!vars, List!list

LEMMA ScreensSteps == [SumNext]_all => [Screens!Next]_(Screens!vars)
  BY DEF SumNext, all, house, Screens!vars, Screens!page, Screens!sharing

LEMMA PaneSteps == [SumNext]_all => [Pane!Next]_(Pane!vars)
  BY DEF SumNext, all, pane, Pane!vars, Pane!data, Pane!choice, Pane!history

LEMMA PartsRun ==
    SumSpec => /\ Spec /\ Types!Spec /\ Client!Spec /\ Copy!Spec
               /\ Archive!Spec /\ Board!Spec /\ List!Spec /\ Screens!Spec /\ Pane!Spec
  BY PartsInit, StoreSteps, TypesSteps, ClientSteps, CopySteps, ArchiveSteps, BoardSteps,
     ListSteps, ScreensSteps, PaneSteps, PTL
  DEF SumSpec, Spec, Types!Spec, Client!Spec, Copy!Spec, Archive!Spec, Board!Spec, List!Spec,
      Screens!Spec, Pane!Spec

-----------------------------------------------------------------------------
(* Types of secret and the page, proved in modules of their own *)

(* The version in use of a type is the newest, however many edits of it     *)
(* overlap.  (templates.routes.ts:204-225)                                  *)
THEOREM NewestIsInUse == SumSpec => []CurrentIsNewest
  <1>1. Types!Spec => []Types!CurrentIsNewest
    BY Types!NewestIsInUse DEF Types!NewestIsInUse
  <1>2. Types!CurrentIsNewest => CurrentIsNewest
    BY DEF CurrentIsNewest
  <1> QED
    BY <1>1, <1>2, PartsRun, PTL

(* Every secret keeps the version it was written under, with a field for    *)
(* every value.  (templates.routes.ts:200-203)                              *)
THEOREM OldSecretsRender == SumSpec => []SecretsRender
  <1>1. Types!Spec => []Types!SecretsRender
    BY Types!OldSecretsRender DEF Types!OldSecretsRender
  <1>2. Types!SecretsRender => SecretsRender
    BY DEF SecretsRender
  <1> QED
    BY <1>1, <1>2, PartsRun, PTL

(* No save of a type under a warning about its own draft hides a value that *)
(* the warning did not name, but one written after the last check.  A field *)
(* removed under the warning, or a late check of another draft, makes it a  *)
(* warning about another.  (TemplateEditor.tsx:102-150, 277-281)            *)
THEOREM NoSilentLoss == SumSpec => LossIsAnnounced
  <1>1. Types!Spec => Types!LossIsAnnounced
    BY Types!NoSilentLoss DEF Types!NoSilentLoss
  <1> QED
    BY <1>1, PartsRun DEF LossIsAnnounced

(* Without keys no screen of the workbench is on display but the two that   *)
(* the listener of a lock does not name.  (App.tsx:175-184)                 *)
THEOREM LockedIsHidden == SumSpec => []LockHidesVault
  <1>1. Client!Spec => []Client!LockHidesVault
    BY Client!LockedIsHidden DEF Client!LockedIsHidden
  <1>2. Client!LockHidesVault => LockHidesVault
    BY DEF LockHidesVault
  <1> QED
    BY <1>1, <1>2, PartsRun, PTL

(* The workbench shows the vaults and the address of the account whose keys *)
(* are held, unless a lock has left something behind, or two sign-ins have  *)
(* overlapped so that one account's keys replaced the other's.              *)
(* (App.tsx:189-271, session.ts:102)                                        *)
THEOREM ShowsItsOwner == SumSpec => []WorkbenchShowsItsOwner
  <1>1. Client!Spec => []Client!WorkbenchShowsItsOwner
    BY Client!ShowsItsOwner DEF Client!ShowsItsOwner
  <1>2. Client!WorkbenchShowsItsOwner => WorkbenchShowsItsOwner
    BY DEF WorkbenchShowsItsOwner
  <1> QED
    BY <1>1, <1>2, PartsRun, PTL

(* A vault on display has the timer running that will lock it, whosever     *)
(* sign-ins overlap, unless a lock has left a screen or an entry behind.    *)
(* (auto-lock.ts:21-31, 75-76)                                              *)
THEOREM ArmedWhenOpen == SumSpec => []OpenIsArmed
  <1>1. Client!Spec => []Client!OpenIsArmed
    BY Client!ArmedWhenOpen DEF Client!ArmedWhenOpen
  <1>2. Client!OpenIsArmed => OpenIsArmed
    BY DEF OpenIsArmed
  <1> QED
    BY <1>1, <1>2, PartsRun, PTL

-----------------------------------------------------------------------------
(* The offline copy *)

LEMMA SomeoneFacts ==
    /\ {} \in Copy!Someone
    /\ \A a \in Accounts : {a} \in Copy!Someone /\ {a} # {}
  BY DEF Copy!Someone

LEMMA StartKeepsTypes ==
    ASSUME Copy!TypeOK, NEW vaults \in Copy!Someone, Copy!StartCopy(vaults)
    PROVE  copying' \subseteq Copy!Refresh
  BY DEF Copy!TypeOK, Copy!StartCopy, Copy!Refresh, Copy!Snapshot

LEMMA BecomesKeepsTypes ==
    ASSUME Copy!TypeOK, NEW r \in copying, NEW phase \in {"check", "write"}, Copy!Becomes(r, phase)
    PROVE  copying' \subseteq Copy!Refresh
  BY DEF Copy!TypeOK, Copy!Becomes, Copy!Refresh

LEMMA IdleTyped == Copy!Idle \in Copy!Entry
  BY SomeoneFacts DEF Copy!Idle, Copy!Entry

CopyPhases == {"login", "derive", "load", "enter", "name", "show", "open"}

(* What becomes of the entries when f begins, advances or ends.             *)
LEMMA BeginKeeps ==
    ASSUME Copy!TypeOK, NEW f \in Flows, NEW phase \in CopyPhases, NEW again \in BOOLEAN,
           NEW who \in Copy!Someone, Copy!Begin(f, phase, again, who)
    PROVE  /\ entering' \in [Flows -> Copy!Entry]
           /\ entering'[f].phase = phase /\ entering'[f].who = who
           /\ \A g \in Flows \ {f} : entering'[g] = entering[g]
  BY SomeoneFacts DEF Copy!TypeOK, Copy!Begin, Copy!Entry, CopyPhases

LEMMA AdvanceKeeps ==
    ASSUME Copy!TypeOK, NEW f \in Flows, NEW phase \in CopyPhases, Copy!Advance(f, phase)
    PROVE  /\ entering' \in [Flows -> Copy!Entry]
           /\ entering'[f].phase = phase /\ entering'[f].who = entering[f].who
           /\ entering'[f].of = entering[f].of
           /\ \A g \in Flows \ {f} : entering'[g] = entering[g]
  BY DEF Copy!TypeOK, Copy!Advance, Copy!Entry, CopyPhases

LEMMA ListedKeeps ==
    ASSUME Copy!TypeOK, NEW f \in Flows, Copy!Listed(f)
    PROVE  /\ entering' \in [Flows -> Copy!Entry]
           /\ entering'[f].phase = "name" /\ entering'[f].who = entering[f].who
           /\ entering'[f].of = cookie
           /\ \A g \in Flows \ {f} : entering'[g] = entering[g]
  <1> DEFINE next == [entering[f] EXCEPT !.phase = "name", !.of = cookie]
  <1>1. entering' = [entering EXCEPT ![f] = next] /\ entering \in [Flows -> Copy!Entry]
    BY DEF Copy!TypeOK, Copy!Listed
  <1>2. next \in Copy!Entry /\ next.phase = "name" /\ next.who = entering[f].who /\ next.of = cookie
    BY <1>1 DEF Copy!TypeOK, Copy!Entry
  <1> HIDE DEF next
  <1> QED
    BY <1>1, <1>2

LEMMA EndKeeps ==
    ASSUME Copy!TypeOK, NEW f \in Flows, Copy!End(f)
    PROVE  /\ entering' \in [Flows -> Copy!Entry]
           /\ entering'[f].phase = "idle"
           /\ \A g \in Flows \ {f} : entering'[g] = entering[g]
  BY IdleTyped DEF Copy!TypeOK, Copy!End, Copy!Idle

LEMMA EntryTyped ==
    ASSUME Copy!TypeOK, NEW f \in Flows
    PROVE  entering[f].who \in Copy!Someone /\ entering[f].of \in Copy!Someone
  BY DEF Copy!TypeOK, Copy!Entry

LEMMA RenderTyped ==
    ASSUME Copy!TypeOK, Copy!Render, open' \in BOOLEAN
    PROVE  {mounted', stray'} \subseteq BOOLEAN
  BY DEF Copy!TypeOK, Copy!Render

LEMMA KeepTyped ==
    ASSUME Copy!TypeOK, NEW f \in Flows, NEW who, Copy!Keep(f, who)
    PROVE  stray' \in BOOLEAN
  BY DEF Copy!TypeOK, Copy!Keep

LEMMA CopyInitTyped == Copy!Init => Copy!TypeOK
  BY SomeoneFacts, IdleTyped DEF Copy!Init, Copy!TypeOK

(* Every step keeps the types: one of an entry, ...                         *)
LEMMA EntryStepTyped ==
    ASSUME Copy!TypeOK, NEW f \in Flows,
           \/ \E a \in Accounts : Copy!SignIn(f, a)
           \/ Copy!LoginAnswered(f) \/ Copy!KeyringAnswered(f) \/ Copy!Unlocked(f)
           \/ Copy!Loaded(f) \/ Copy!EntryFails(f) \/ Copy!Again(f) \/ Copy!Listed(f)
           \/ Copy!Named(f) \/ Copy!OpenCopy(f) \/ Copy!Entered(f)
    PROVE  Copy!TypeOK'
  <1> USE DEF CopyPhases
  <1>1. ASSUME NEW a \in Accounts, Copy!SignIn(f, a)
        PROVE  Copy!TypeOK'
    <2>1. entering' \in [Flows -> Copy!Entry]
      BY <1>1, SomeoneFacts, BeginKeeps DEF Copy!SignIn
    <2> QED
      BY <1>1, <2>1 DEF Copy!TypeOK, Copy!SignIn, Copy!screen, Copy!device
  <1>2. CASE Copy!LoginAnswered(f) \/ Copy!KeyringAnswered(f)
    <2>1. entering' \in [Flows -> Copy!Entry]
      BY <1>2, AdvanceKeeps, EndKeeps DEF Copy!LoginAnswered, Copy!KeyringAnswered
    <2>2. stray' \in BOOLEAN
      BY <1>2, KeepTyped DEF Copy!LoginAnswered, Copy!KeyringAnswered
    <2> QED
      BY <1>2, <2>1, <2>2, EntryTyped
      DEF Copy!TypeOK, Copy!LoginAnswered, Copy!KeyringAnswered, Copy!Keep, Copy!screen, Copy!device
  <1>3. CASE Copy!Unlocked(f)
    <2>1. entering' \in [Flows -> Copy!Entry]
      BY <1>3, AdvanceKeeps DEF Copy!Unlocked
    <2> QED
      BY <1>3, <2>1, EntryTyped DEF Copy!TypeOK, Copy!Unlocked, Copy!screen, Copy!device
  <1>4. CASE Copy!Loaded(f)
    <2>1. entering' \in [Flows -> Copy!Entry]
      BY <1>4, AdvanceKeeps DEF Copy!Loaded
    <2>2. {mounted', stray'} \subseteq BOOLEAN
      BY <1>4, RenderTyped DEF Copy!Loaded, Copy!TypeOK
    <2> QED
      BY <1>4, <2>1, <2>2, EntryTyped DEF Copy!TypeOK, Copy!Loaded, Copy!device
  <1>5. CASE Copy!EntryFails(f)
    <2>1. entering' \in [Flows -> Copy!Entry]
      BY <1>5, AdvanceKeeps, EndKeeps DEF Copy!EntryFails
    <2> QED
      BY <1>5, <2>1 DEF Copy!TypeOK, Copy!EntryFails, Copy!screen, Copy!device
  <1>6. CASE Copy!Again(f)
    <2>1. entering' \in [Flows -> Copy!Entry]
      BY <1>6, BeginKeeps DEF Copy!Again, Copy!TypeOK
    <2> QED
      BY <1>6, <2>1 DEF Copy!TypeOK, Copy!Again, Copy!screen, Copy!device
  <1>7. CASE Copy!Listed(f)
    BY <1>7, ListedKeeps DEF Copy!TypeOK, Copy!Listed, Copy!screen, Copy!device
  <1>8. CASE Copy!Named(f)
    <2>1. entering' \in [Flows -> Copy!Entry]
      BY <1>8, AdvanceKeeps, EndKeeps DEF Copy!Named
    <2>2. {mounted', stray'} \subseteq BOOLEAN
      BY <1>8, RenderTyped DEF Copy!Named, Copy!TypeOK
    <2>3. copying' \subseteq Copy!Refresh
      BY <1>8, EntryTyped, StartKeepsTypes DEF Copy!Named
    <2> QED
      BY <1>8, <2>1, <2>2, <2>3, EntryTyped DEF Copy!TypeOK, Copy!Named, Copy!device
  <1>9. CASE Copy!OpenCopy(f)
    <2>1. entering' \in [Flows -> Copy!Entry]
      BY <1>9, AdvanceKeeps DEF Copy!OpenCopy
    <2> QED
      BY <1>9, <2>1, EntryTyped DEF Copy!TypeOK, Copy!OpenCopy, Copy!device
  <1>10. CASE Copy!Entered(f)
    <2>1. entering' \in [Flows -> Copy!Entry]
      BY <1>10, EndKeeps DEF Copy!Entered
    <2>2. {mounted', stray'} \subseteq BOOLEAN
      BY <1>10, RenderTyped DEF Copy!Entered
    <2> QED
      BY <1>10, <2>1, <2>2 DEF Copy!TypeOK, Copy!Entered, Copy!device
  <1> QED
    BY <1>1, <1>2, <1>3, <1>4, <1>5, <1>6, <1>7, <1>8, <1>9, <1>10

(* ... or any other.                                                        *)
LEMMA CopyNextTyped == Copy!TypeOK /\ [Copy!Next]_(Copy!vars) => Copy!TypeOK'
  <1> SUFFICES ASSUME Copy!TypeOK, [Copy!Next]_(Copy!vars) PROVE Copy!TypeOK'
    OBVIOUS
  <1>1. ASSUME NEW a \in Accounts, Copy!OtherTab(a)
        PROVE  Copy!TypeOK'
    BY <1>1, SomeoneFacts DEF Copy!TypeOK, Copy!OtherTab, Copy!page, Copy!screen, Copy!device
  <1>2. CASE Copy!DataChanged
    BY <1>2, StartKeepsTypes
    DEF Copy!TypeOK, Copy!DataChanged, Copy!page, Copy!screen, Copy!device
  <1>3. CASE Copy!Lock
    BY <1>3, SomeoneFacts DEF Copy!TypeOK, Copy!Lock, Copy!device
  <1>4. CASE Copy!Repaint
    <2>1. {open', mounted', stray'} \subseteq BOOLEAN
      BY <1>4, RenderTyped DEF Copy!Repaint, Copy!TypeOK
    <2> QED
      BY <1>4, <2>1 DEF Copy!TypeOK, Copy!Repaint, Copy!device
  <1>5. CASE Copy!Reload
    BY <1>5, SomeoneFacts, IdleTyped DEF Copy!TypeOK, Copy!Reload
  <1>6. ASSUME NEW r \in copying, Copy!Contents(r)
        PROVE  Copy!TypeOK'
    BY <1>6, BecomesKeepsTypes DEF Copy!TypeOK, Copy!Contents, Copy!page, Copy!screen, Copy!device
  <1>7. ASSUME NEW r \in copying, Copy!SaveChecked(r)
        PROVE  Copy!TypeOK'
    <2>1. copying' \subseteq Copy!Refresh
      BY <1>7, BecomesKeepsTypes DEF Copy!SaveChecked, Copy!TypeOK
    <2> QED
      BY <1>7, <2>1 DEF Copy!TypeOK, Copy!SaveChecked, Copy!page, Copy!screen, Copy!device
  <1>8. ASSUME NEW r \in copying, Copy!SaveWritten(r)
        PROVE  Copy!TypeOK'
    BY <1>8 DEF Copy!TypeOK, Copy!SaveWritten, Copy!page, Copy!screen, Copy!Refresh
  <1>9. ASSUME NEW r \in copying, Copy!CopyFails(r)
        PROVE  Copy!TypeOK'
    BY <1>9 DEF Copy!TypeOK, Copy!CopyFails, Copy!page, Copy!screen, Copy!device
  <1>10. CASE Copy!SwitchOn \/ Copy!SwitchOff \/ Copy!SwitchedOff \/ Copy!CopyExpires
    BY <1>10
    DEF Copy!TypeOK, Copy!SwitchOn, Copy!SwitchOff, Copy!SwitchedOff, Copy!CopyExpires,
        Copy!page, Copy!screen
  <1>11. CASE UNCHANGED Copy!vars
    BY <1>11 DEF Copy!TypeOK, Copy!vars, Copy!page, Copy!screen, Copy!device
  <1> QED
    BY <1>1, <1>2, <1>3, <1>4, <1>5, <1>6, <1>7, <1>8, <1>9, <1>10, <1>11, EntryStepTyped
    DEF Copy!Next

(* Whatever the refreshes and the sign-ins, every variable of the page and  *)
(* of its device has its type, and the device one copy at most.             *)
(* (OfflineCopy, all of it)                                                 *)
LEMMA CopyTyped == Copy!Spec => []Copy!TypeOK
  BY CopyInitTyped, CopyNextTyped, PTL DEF Copy!Spec

-----------------------------------------------------------------------------
(* The switch *)

(* Nothing writes to a device that is off: a save reads the switch before   *)
(* it writes, and a switch that overlaps one is torn.                       *)
NoWriterWhenOff == ~enabled /\ ~torn => \A r \in copying : r.phase # "write"

SwitchInv == Copy!TypeOK /\ NoWriterWhenOff /\ Copy!OffMeansNoCopy

(* What a refresh becomes is in the phase it is given, its copy the same.   *)
LEMMA BecomesFacts ==
    ASSUME Copy!TypeOK, NEW r \in copying, NEW phase \in {"check", "write"}, Copy!Becomes(r, phase)
    PROVE  \A q \in copying' : q \in copying \/ (q.phase = phase /\ q.copy = r.copy)
  BY DEF Copy!TypeOK, Copy!Becomes, Copy!Refresh

(* A refresh that begins has yet to read the switch.                        *)
LEMMA StartFacts ==
    ASSUME NEW vaults, Copy!StartCopy(vaults)
    PROVE  \A q \in copying' :
             \/ q \in copying
             \/ /\ q.phase = "contents"
                /\ q.copy = [email |-> address, keyring |-> held, vaults |-> vaults]
  BY DEF Copy!StartCopy

LEMMA NextSwitch == SwitchInv /\ [Copy!Next]_(Copy!vars) => NoWriterWhenOff' /\ Copy!OffMeansNoCopy'
  <1> SUFFICES ASSUME SwitchInv, [Copy!Next]_(Copy!vars)
               PROVE  NoWriterWhenOff' /\ Copy!OffMeansNoCopy'
    OBVIOUS
  <1> USE DEF SwitchInv, NoWriterWhenOff, Copy!OffMeansNoCopy
  <1>1. CASE \/ \E a \in Accounts : Copy!OtherTab(a) \/ \E f \in Flows : Copy!SignIn(f, a)
             \/ \E f \in Flows : \/ Copy!LoginAnswered(f) \/ Copy!KeyringAnswered(f)
                                \/ Copy!Unlocked(f) \/ Copy!Loaded(f) \/ Copy!EntryFails(f)
                                \/ Copy!Again(f) \/ Copy!Listed(f) \/ Copy!OpenCopy(f)
                                \/ Copy!Entered(f)
             \/ Copy!Lock \/ Copy!Repaint
    <2>1. UNCHANGED <<enabled, copy, switching, torn, copying>>
      BY <1>1
      DEF Copy!SignIn, Copy!OtherTab, Copy!LoginAnswered, Copy!KeyringAnswered, Copy!Keep,
          Copy!Unlocked, Copy!Loaded, Copy!EntryFails, Copy!Again, Copy!Listed, Copy!OpenCopy,
          Copy!Entered, Copy!Lock, Copy!Repaint, Copy!device
    <2> QED
      BY <2>1
  <1>2. CASE (\E f \in Flows : Copy!Named(f)) \/ Copy!DataChanged
    <2>1. UNCHANGED <<enabled, copy, switching, torn>> /\ \E vaults : Copy!StartCopy(vaults)
      BY <1>2 DEF Copy!Named, Copy!DataChanged, Copy!device
    <2> QED
      BY <2>1, StartFacts
  <1>3. CASE Copy!Reload
    BY <1>3 DEF Copy!Reload
  <1>4. ASSUME NEW r \in copying, Copy!Contents(r)
        PROVE  NoWriterWhenOff' /\ Copy!OffMeansNoCopy'
    BY <1>4, BecomesFacts DEF Copy!Contents, Copy!page, Copy!device
  <1>5. ASSUME NEW r \in copying, Copy!SaveChecked(r)
        PROVE  NoWriterWhenOff' /\ Copy!OffMeansNoCopy'
    BY <1>5 DEF Copy!SaveChecked, Copy!page, Copy!device
  <1>6. ASSUME NEW r \in copying, Copy!SaveWritten(r)
        PROVE  NoWriterWhenOff' /\ Copy!OffMeansNoCopy'
    BY <1>6 DEF Copy!SaveWritten, Copy!page
  <1>7. ASSUME NEW r \in copying, Copy!CopyFails(r)
        PROVE  NoWriterWhenOff' /\ Copy!OffMeansNoCopy'
    BY <1>7 DEF Copy!CopyFails, Copy!page, Copy!device
  <1>8. CASE Copy!SwitchOn \/ Copy!SwitchOff \/ Copy!SwitchedOff \/ Copy!CopyExpires
    BY <1>8 DEF Copy!SwitchOn, Copy!SwitchOff, Copy!SwitchedOff, Copy!CopyExpires, Copy!page
  <1>9. CASE UNCHANGED Copy!vars
    BY <1>9 DEF Copy!vars, Copy!page, Copy!device
  <1> QED
    BY <1>1, <1>2, <1>3, <1>4, <1>5, <1>6, <1>7, <1>8, <1>9 DEF Copy!Next

(* Once the switch is off and the copy removed, there is none and none will *)
(* come, however many refreshes are in flight: unless a save was between    *)
(* its look at the switch and its write, or the page was closed before the  *)
(* removal.  (offline-cache.ts:160-179)                                     *)
THEOREM SwitchedOffStaysEmpty == SumSpec => []OffMeansNoCopy
  <1>1. Copy!Init => SwitchInv
    BY CopyInitTyped DEF Copy!Init, SwitchInv, NoWriterWhenOff, Copy!OffMeansNoCopy
  <1>2. SwitchInv /\ [Copy!Next]_(Copy!vars) => SwitchInv'
    BY CopyNextTyped, NextSwitch DEF SwitchInv
  <1>3. SwitchInv => OffMeansNoCopy
    BY DEF SwitchInv, OffMeansNoCopy
  <1> QED
    BY <1>1, <1>2, <1>3, PartsRun, PTL DEF Copy!Spec

-----------------------------------------------------------------------------
(* Whose copy it is *)

Whole(c) == c.email # {} /\ c.keyring = c.email /\ c.vaults = c.email

(* The keyring fetched last is that of whoever is past a sign-in; what the  *)
(* page holds becomes theirs in the order in which an entry sets it; and a  *)
(* workbench on display is of the address, whose keyring it was.            *)
EntriesAgree ==
    \A f \in Flows :
        /\ Copy!Beyond(f) => held = entering[f].who
        /\ entering[f].phase \in {"load", "enter", "name", "show"} => unlocked \in {{}, held}
        /\ entering[f].phase \in {"enter", "name", "show"} => address = held
        /\ entering[f].phase = "name" => entering[f].of = held

DisplayAgrees ==
    /\ (open /\ unlocked # {} /\ unlocked = address) => held = address
    /\ mounted => open /\ held = address /\ unlocked \in {{}, address}
    /\ (mounted /\ ~offline) => listed = address

CopiesAgree == (\A c \in copy : Whole(c)) /\ (\A r \in copying : Whole(r.copy))

OwnerInv == Copy!TypeOK /\ (~stray => CopiesAgree /\ EntriesAgree /\ DisplayAgrees)

LEMMA StrayStays ==
    ASSUME [Copy!Next]_(Copy!vars), ~stray'
    PROVE  ~stray
  BY
  DEF Copy!Next, Copy!vars, Copy!page, Copy!device, Copy!SignIn, Copy!OtherTab, Copy!LoginAnswered,
      Copy!KeyringAnswered, Copy!Keep, Copy!Unlocked, Copy!Loaded, Copy!EntryFails, Copy!Again,
      Copy!Listed, Copy!Named, Copy!OpenCopy, Copy!Entered, Copy!DataChanged, Copy!Lock,
      Copy!Repaint, Copy!Render, Copy!Reload, Copy!Contents, Copy!SaveChecked, Copy!SaveWritten,
      Copy!CopyFails, Copy!SwitchOn, Copy!SwitchOff, Copy!SwitchedOff, Copy!CopyExpires

LEMMA StartWhole ==
    ASSUME CopiesAgree, NEW vaults, Copy!StartCopy(vaults), held = address, vaults = address
    PROVE  \A r \in copying' : Whole(r.copy)
  <1>1. CASE held = {}
    BY <1>1 DEF CopiesAgree, Copy!StartCopy
  <1>2. CASE held # {}
    <2>1. Whole([email |-> address, keyring |-> held, vaults |-> vaults])
      BY <1>2 DEF Whole
    <2>2. \A r \in copying : Whole(r.copy)
      BY DEF CopiesAgree
    <2> QED
      BY <2>1, <2>2, StartFacts
  <1> QED
    BY <1>1, <1>2

(* App is called, and what it shows then is not at odds with the keys.      *)
LEMMA RenderAgrees ==
    ASSUME Copy!Render, ~stray',
           (open' /\ unlocked' # {} /\ unlocked' = address') => held' = address'
    PROVE  DisplayAgrees'
  BY DEF Copy!Render, Copy!Misfit, DisplayAgrees

(* A refresh of the copy, or the switch, is no matter of the page.          *)
LEMMA RefreshAgrees ==
    ASSUME Copy!TypeOK, CopiesAgree,
           \/ \E r \in copying : \/ Copy!Contents(r) \/ Copy!SaveChecked(r)
                               \/ Copy!SaveWritten(r) \/ Copy!CopyFails(r)
           \/ Copy!SwitchOn \/ Copy!SwitchOff \/ Copy!SwitchedOff \/ Copy!CopyExpires
    PROVE  UNCHANGED Copy!page /\ CopiesAgree'
  <1>1. ASSUME NEW r \in copying, Copy!Contents(r) \/ Copy!SaveChecked(r)
        PROVE  UNCHANGED Copy!page /\ CopiesAgree'
    <2>1. \A q \in copying' : Whole(q.copy)
      BY <1>1, BecomesFacts DEF Copy!Contents, Copy!SaveChecked, CopiesAgree, Whole
    <2> QED
      BY <1>1, <2>1 DEF CopiesAgree, Copy!Contents, Copy!SaveChecked, Copy!device
  <1>2. ASSUME NEW r \in copying, Copy!SaveWritten(r) \/ Copy!CopyFails(r)
        PROVE  UNCHANGED Copy!page /\ CopiesAgree'
    BY <1>2 DEF CopiesAgree, Copy!SaveWritten, Copy!CopyFails, Copy!device
  <1>3. CASE Copy!SwitchOn \/ Copy!SwitchOff \/ Copy!SwitchedOff \/ Copy!CopyExpires
    BY <1>3 DEF CopiesAgree, Copy!SwitchOn, Copy!SwitchOff, Copy!SwitchedOff, Copy!CopyExpires
  <1> QED
    BY <1>1, <1>2, <1>3

(* A sign-in is sent, answered, opens its keyring, or fails.                *)
LEMMA SignInAgrees ==
    ASSUME Copy!TypeOK, EntriesAgree, DisplayAgrees, ~stray', NEW f \in Flows,
           \/ \E a \in Accounts : Copy!SignIn(f, a)
           \/ Copy!LoginAnswered(f) \/ Copy!KeyringAnswered(f) \/ Copy!Unlocked(f)
           \/ Copy!EntryFails(f)
    PROVE  EntriesAgree' /\ DisplayAgrees' /\ UNCHANGED <<copy, copying>>
  <1> USE DEF CopyPhases, EntriesAgree, DisplayAgrees, Copy!Beyond
  <1>1. ASSUME NEW a \in Accounts, Copy!SignIn(f, a)
        PROVE  EntriesAgree' /\ DisplayAgrees' /\ UNCHANGED <<copy, copying>>
    <2>1. entering'[f].phase = "login" /\ \A g \in Flows \ {f} : entering'[g] = entering[g]
      BY <1>1, SomeoneFacts, BeginKeeps DEF Copy!SignIn
    <2> QED
      BY <1>1, <2>1 DEF Copy!SignIn, Copy!screen, Copy!device
  <1>2. ASSUME NEW who, Copy!Keep(f, who),
               /\ entering'[f].phase \in {"derive", "idle"}
               /\ entering'[f].phase = "derive" => entering'[f].who = who
               /\ \A g \in Flows \ {f} : entering'[g] = entering[g]
        PROVE  EntriesAgree' /\ DisplayAgrees' /\ UNCHANGED <<copy, copying>>
    <2>1. /\ held' = who
          /\ \A g \in Flows \ {f} : Copy!Beyond(g) => entering[g].who = who
          /\ open /\ (mounted \/ unlocked # {}) => address = who
      BY <1>2 DEF Copy!Keep, Copy!Crosses
    <2>2. UNCHANGED <<unlocked, address, listed, offline, open, mounted, copy, copying>>
      BY <1>2 DEF Copy!Keep, Copy!screen, Copy!device
    <2>3. EntriesAgree'
      BY <1>2, <2>1, <2>2
    <2>4. DisplayAgrees'
      BY <2>1, <2>2
    <2> QED
      BY <2>2, <2>3, <2>4
  <1>3. CASE Copy!LoginAnswered(f)
    <2>1. /\ Copy!Keep(f, entering[f].who)
          /\ entering'[f].phase = "derive" /\ entering'[f].who = entering[f].who
          /\ \A g \in Flows \ {f} : entering'[g] = entering[g]
      BY <1>3, AdvanceKeeps DEF Copy!LoginAnswered
    <2> QED
      BY <1>2, <2>1
  <1>4. CASE Copy!KeyringAnswered(f)
    <2>1. /\ Copy!Keep(f, cookie)
          /\ entering'[f].phase \in {"derive", "idle"}
          /\ entering'[f].phase = "derive" => entering'[f].who = cookie
          /\ \A g \in Flows \ {f} : entering'[g] = entering[g]
      BY <1>4, AdvanceKeeps, EndKeeps DEF Copy!KeyringAnswered
    <2> QED
      BY <1>2, <2>1
  <1>5. CASE Copy!Unlocked(f)
    <2>1. /\ entering[f].phase = "derive" /\ unlocked' = held
          /\ entering'[f].phase = "load" /\ entering'[f].who = entering[f].who
          /\ \A g \in Flows \ {f} : entering'[g] = entering[g]
      BY <1>5, AdvanceKeeps DEF Copy!Unlocked
    <2>2. UNCHANGED <<held, address, listed, offline, open, mounted, copy, copying>>
      BY <1>5 DEF Copy!Unlocked, Copy!screen, Copy!device
    <2> QED
      BY <2>1, <2>2
  <1>6. CASE Copy!EntryFails(f)
    <2>1. /\ entering'[f].phase \in {"idle", "open"}
          /\ \A g \in Flows \ {f} : entering'[g] = entering[g]
      BY <1>6, AdvanceKeeps, EndKeeps DEF Copy!EntryFails
    <2> QED
      BY <1>6, <2>1 DEF Copy!EntryFails, Copy!screen, Copy!device
  <1> QED
    BY <1>1, <1>3, <1>4, <1>5, <1>6

(* An entry, or a refresh of the list, goes on.                             *)
LEMMA EntryAgrees ==
    ASSUME Copy!TypeOK, CopiesAgree, EntriesAgree, DisplayAgrees, ~stray', NEW f \in Flows,
           \/ Copy!Loaded(f) \/ Copy!Again(f) \/ Copy!Listed(f) \/ Copy!Named(f)
           \/ Copy!OpenCopy(f) \/ Copy!Entered(f)
    PROVE  CopiesAgree' /\ EntriesAgree' /\ DisplayAgrees'
  <1> USE DEF CopyPhases, EntriesAgree, Copy!Beyond
  <1>1. CASE Copy!Loaded(f)
    <2>1. /\ entering[f].phase = "load" /\ entering'[f].phase = "enter"
          /\ entering'[f].who = entering[f].who
          /\ \A g \in Flows \ {f} : entering'[g] = entering[g]
      BY <1>1, AdvanceKeeps DEF Copy!Loaded
    <2>2. address' = held /\ UNCHANGED <<held, unlocked, copy, copying>> /\ Copy!Render
      BY <1>1, <2>1 DEF Copy!Loaded, Copy!device
    <2> QED
      BY <2>1, <2>2, RenderAgrees DEF CopiesAgree
  <1>2. CASE Copy!Again(f)
    <2>1. /\ entering'[f].phase = "enter" /\ entering'[f].who = address
          /\ \A g \in Flows \ {f} : entering'[g] = entering[g]
      BY <1>2, BeginKeeps DEF Copy!Again, Copy!TypeOK
    <2>2. UNCHANGED <<held, unlocked, address, listed, offline, open, mounted, copy, copying>>
      BY <1>2 DEF Copy!Again, Copy!screen, Copy!device
    <2> QED
      BY <1>2, <2>1, <2>2 DEF CopiesAgree, DisplayAgrees, Copy!Again
  <1>3. CASE Copy!Listed(f)
    <2>1. entering[f].phase = "enter" /\ cookie = held
      BY <1>3 DEF Copy!Listed
    <2>2. UNCHANGED <<held, unlocked, address, listed, offline, open, mounted, copy, copying>>
      BY <1>3 DEF Copy!Listed, Copy!screen, Copy!device
    <2> QED
      BY <1>3, <2>1, <2>2, ListedKeeps DEF CopiesAgree, DisplayAgrees
  <1>4. CASE Copy!Named(f)
    <2>1. entering[f].phase = "name" /\ address = held /\ entering[f].of = address
      BY <1>4 DEF Copy!Named
    <2>2. /\ entering'[f].phase \in {"idle", "show"}
          /\ entering'[f].phase = "show" => entering'[f].who = entering[f].who
          /\ \A g \in Flows \ {f} : entering'[g] = entering[g]
      BY <1>4, AdvanceKeeps, EndKeeps DEF Copy!Named
    <2>3. UNCHANGED <<held, unlocked, address, copy>> /\ Copy!Render
      BY <1>4 DEF Copy!Named, Copy!device
    <2>4. \A r \in copying' : Whole(r.copy)
      BY <1>4, <2>1, StartWhole DEF Copy!Named
    <2> QED
      BY <2>1, <2>2, <2>3, <2>4, RenderAgrees DEF CopiesAgree
  <1>5. CASE Copy!OpenCopy(f)
    <2>1. /\ entering'[f].phase = "show" /\ entering'[f].who = entering[f].who
          /\ \A g \in Flows \ {f} : entering'[g] = entering[g]
      BY <1>5, AdvanceKeeps DEF Copy!OpenCopy
    <2>2. /\ unlocked' = held /\ address' = held /\ entering[f].who = held
          /\ UNCHANGED <<held, open, copy, copying>> /\ offline' /\ mounted' = open
      BY <1>5 DEF Copy!OpenCopy, Copy!device
    <2>3. EntriesAgree'
      BY <2>1, <2>2
    <2> QED
      BY <2>2, <2>3 DEF CopiesAgree, DisplayAgrees
  <1>6. CASE Copy!Entered(f)
    <2>1. entering[f].phase = "show" /\ address = held
      BY <1>6 DEF Copy!Entered
    <2>2. entering'[f].phase = "idle" /\ \A g \in Flows \ {f} : entering'[g] = entering[g]
      BY <1>6, EndKeeps DEF Copy!Entered
    <2>3. UNCHANGED <<held, unlocked, address, copy, copying>> /\ Copy!Render
      BY <1>6 DEF Copy!Entered, Copy!device
    <2> QED
      BY <2>1, <2>2, <2>3, RenderAgrees DEF CopiesAgree
  <1> QED
    BY <1>1, <1>2, <1>3, <1>4, <1>5, <1>6

LEMMA NextOwner == OwnerInv /\ [Copy!Next]_(Copy!vars) => OwnerInv'
  <1> SUFFICES ASSUME OwnerInv, [Copy!Next]_(Copy!vars), ~stray'
               PROVE  CopiesAgree' /\ EntriesAgree' /\ DisplayAgrees'
    BY CopyNextTyped DEF OwnerInv
  <1>0. Copy!TypeOK /\ CopiesAgree /\ EntriesAgree /\ DisplayAgrees
    BY StrayStays DEF OwnerInv
  <1>1. ASSUME NEW f \in Flows,
               \/ \E a \in Accounts : Copy!SignIn(f, a)
               \/ Copy!LoginAnswered(f) \/ Copy!KeyringAnswered(f) \/ Copy!Unlocked(f)
               \/ Copy!EntryFails(f)
        PROVE  CopiesAgree' /\ EntriesAgree' /\ DisplayAgrees'
    BY <1>0, <1>1, SignInAgrees DEF CopiesAgree
  <1>2. ASSUME NEW f \in Flows,
               \/ Copy!Loaded(f) \/ Copy!Again(f) \/ Copy!Listed(f) \/ Copy!Named(f)
               \/ Copy!OpenCopy(f) \/ Copy!Entered(f)
        PROVE  CopiesAgree' /\ EntriesAgree' /\ DisplayAgrees'
    BY <1>0, <1>2, EntryAgrees
  <1>3. CASE \/ \E r \in copying : \/ Copy!Contents(r) \/ Copy!SaveChecked(r)
                                 \/ Copy!SaveWritten(r) \/ Copy!CopyFails(r)
             \/ Copy!SwitchOn \/ Copy!SwitchOff \/ Copy!SwitchedOff \/ Copy!CopyExpires
    BY <1>0, <1>3, RefreshAgrees
    DEF EntriesAgree, DisplayAgrees, Copy!Beyond, Copy!page, Copy!screen
  <1>4. CASE (\E a \in Accounts : Copy!OtherTab(a)) \/ UNCHANGED Copy!vars
    BY <1>0, <1>4
    DEF CopiesAgree, EntriesAgree, DisplayAgrees, Copy!Beyond, Copy!OtherTab, Copy!vars,
        Copy!page, Copy!screen, Copy!device
  <1>5. CASE Copy!DataChanged
    <2>1. listed = address /\ held = address /\ Copy!StartCopy(listed)
      BY <1>0, <1>5 DEF DisplayAgrees, Copy!DataChanged
    <2>2. \A r \in copying' : Whole(r.copy)
      BY <1>0, <2>1, StartWhole
    <2> QED
      BY <1>0, <1>5, <2>2
      DEF CopiesAgree, EntriesAgree, DisplayAgrees, Copy!Beyond, Copy!DataChanged, Copy!page,
          Copy!screen, Copy!device
  <1>6. CASE Copy!Lock
    BY <1>0, <1>6
    DEF CopiesAgree, EntriesAgree, DisplayAgrees, Copy!Beyond, Copy!Lock, Copy!device
  <1>7. CASE Copy!Repaint
    <2>1. /\ open' => open
          /\ UNCHANGED <<held, unlocked, address, entering, copy, copying>> /\ Copy!Render
      BY <1>0, <1>7 DEF Copy!TypeOK, Copy!Repaint, Copy!device
    <2>2. (open' /\ unlocked' # {} /\ unlocked' = address') => held' = address'
      BY <1>0, <2>1 DEF DisplayAgrees
    <2>3. DisplayAgrees'
      BY <2>1, <2>2, RenderAgrees
    <2> QED
      BY <1>0, <2>1, <2>3 DEF CopiesAgree, EntriesAgree, Copy!Beyond
  <1>8. CASE Copy!Reload
    <2>1. \A f \in Flows : entering'[f].phase = "idle"
      BY <1>8 DEF Copy!Reload, Copy!Idle
    <2> QED
      BY <1>0, <1>8, <2>1
      DEF CopiesAgree, EntriesAgree, DisplayAgrees, Copy!Beyond, Copy!Reload
  <1> QED
    BY <1>1, <1>2, <1>3, <1>4, <1>5, <1>6, <1>7, <1>8 DEF Copy!Next

LEMMA InitOwner == Copy!Init => OwnerInv
  <1> SUFFICES ASSUME Copy!Init
               PROVE  CopiesAgree /\ EntriesAgree /\ DisplayAgrees
    BY CopyInitTyped DEF OwnerInv
  <1>1. \A f \in Flows : entering[f].phase = "idle"
    BY DEF Copy!Init, Copy!Idle
  <1> QED
    BY <1>1 DEF Copy!Init, CopiesAgree, EntriesAgree, DisplayAgrees, Copy!Beyond

(* What a refresh writes is the vaults of the address it is filed under and *)
(* the keyring that opens them, though the three are read from places that  *)
(* change at different times and a refresh outlives the sign-in that began  *)
(* it; for any number of sign-ins in flight, as long as no two accounts are *)
(* past theirs at once, none is entered over another's workbench, and no    *)
(* copy is opened over another's keyring.                                   *)
(* (App.tsx:124-132, 189-208, session.ts:102, offline-session.ts:104-109)   *)
THEOREM CopyKeepsItsOwner == SumSpec => []CopyIsOneAccounts
  <1>1. OwnerInv => CopyIsOneAccounts
    BY DEF OwnerInv, CopiesAgree, Whole, CopyIsOneAccounts, Copy!CopyIsOneAccounts
  <1> QED
    BY <1>1, InitOwner, NextOwner, PartsRun, PTL DEF Copy!Spec

-----------------------------------------------------------------------------
(* The backup *)

(* Before, between and in the midst of rotations.                           *)
Shape ==
    \/ wraps = {}
    \/ \E k \in 1..MaxKey : wraps = {k}
    \/ \E k \in 1..MaxKey : k + 1 <= MaxKey /\ wraps = {k, k + 1}

LEMMA SameCount == \A S : Archive!Cardinality(S) = Cardinality(S)
  BY DEF Archive!Cardinality, Cardinality

LEMMA OneWrap ==
    ASSUME NEW k \in Nat, wraps = {k}
    PROVE  Archive!Current = k /\ ~Archive!Running
  <1>1. Archive!Current = k
    BY DEF Archive!Current, Archive!Max
  <1>2. Cardinality(wraps) = 1
    BY FS_Singleton
  <1> QED
    BY <1>1, <1>2, SameCount DEF Archive!Running

LEMMA TwoWraps ==
    ASSUME NEW k \in Nat, wraps = {k, k + 1}
    PROVE  Archive!Current = k + 1 /\ Archive!Running
  <1>1. Archive!Current = k + 1
    BY DEF Archive!Current, Archive!Max
  <1>2. IsFiniteSet({k}) /\ Cardinality({k}) = 1
    BY FS_Singleton
  <1>3. k + 1 \notin {k}
    OBVIOUS
  <1>4. Cardinality({k} \cup {k + 1}) = 2
    BY <1>2, <1>3, FS_AddElement
  <1>5. {k} \cup {k + 1} = wraps
    OBVIOUS
  <1> QED
    BY <1>1, <1>4, <1>5, SameCount DEF Archive!Running

LEMMA NoWraps == wraps = {} => ~Archive!Running
  BY FS_EmptySet, SameCount DEF Archive!Running

LEMMA ShapeFacts ==
    ASSUME MaxKey \in Nat, Shape
    PROVE  /\ wraps \subseteq 1..MaxKey /\ Cardinality(wraps) <= 2
           /\ wraps # {} => Archive!Current \in wraps
           /\ Archive!Running => \E k \in 1..MaxKey : wraps = {k, k + 1} /\ Archive!Current = k + 1
           /\ Archive!Member /\ ~Archive!Running => wraps = {Archive!Current}
  <1>1. CASE wraps = {}
    BY <1>1, NoWraps, FS_EmptySet DEF Archive!Member
  <1>2. ASSUME NEW k \in 1..MaxKey, wraps = {k}
        PROVE  /\ wraps \subseteq 1..MaxKey /\ Cardinality(wraps) <= 2
               /\ Archive!Current = k /\ ~Archive!Running
    BY <1>2, OneWrap, FS_Singleton
  <1>3. ASSUME NEW k \in 1..MaxKey, k + 1 <= MaxKey, wraps = {k, k + 1}
        PROVE  /\ wraps \subseteq 1..MaxKey /\ Cardinality(wraps) <= 2
               /\ Archive!Current = k + 1 /\ Archive!Running
    BY <1>3, TwoWraps, SameCount DEF Archive!Running
  <1> QED
    BY <1>1, <1>2, <1>3 DEF Shape, Archive!Member

(* A row is one or none; it is filed in a folder there is, and no row is of *)
(* a type that is gone.                                                     *)
Thin(t) == \A r \in Pages : t[r] = {} \/ \E x \in Archive!Row : t[r] = {x}

RowsOK ==
    /\ sealed \in [Pages -> SUBSET Archive!Row] /\ Thin(sealed)
    /\ drawer \in [Secrets -> {"new", "there", "gone"}] /\ type \in BOOLEAN
    /\ \A r \in Pages : \A x \in sealed[r] : x.folder \in Archive!There \cup {Archive!Unfiled}
    /\ ~type => sealed = Archive!NoSecrets

(* The owner holds the key of every row.                                    *)
LabelsHeld == wraps # {} => \A r \in Pages : \A x \in sealed[r] : x.key \in wraps

Export == [left    : SUBSET Archive!Tables, secrets : [Pages -> SUBSET Archive!Row],
           folders : SUBSET Secrets, wraps : SUBSET (1..MaxKey)]

(* What has been read so far fits what there still is, but for what has     *)
(* changed since the export began.                                          *)
TypeRead(e) == "type" \notin crossed => Archive!Empty(e) \/ type

FoldersRead(e) ==
    "folder" \notin crossed =>
        /\ "folders" \notin e.left => e.folders = Archive!There
        /\ \A r \in Pages : \A x \in e.secrets[r] :
             x.folder \in Archive!There \cup {Archive!Unfiled}

WrapsRead(e) ==
    /\ "member" \notin crossed => wraps # {}
    /\ "rotation" \notin crossed /\ "wraps" \in e.left /\ wraps # {} =>
          \A r \in Pages : \A x \in e.secrets[r] : x.key \in wraps
    /\ "rotation" \notin crossed /\ "wraps" \notin e.left =>
          /\ wraps = {} \/ wraps = e.wraps
          /\ e.wraps # {}
               => \A r \in Pages : \A x \in sealed[r] \cup e.secrets[r] : x.key \in e.wraps

Reading ==
    \A e \in export : e \in Export /\ Thin(e.secrets) /\ TypeRead(e) /\ FoldersRead(e)
        /\ WrapsRead(e)

(* The rows of a file as a restore brings them back.                        *)
Kept(f, r) ==
    {IF x.folder \in f.folders THEN x ELSE [x EXCEPT !.folder = Archive!Unfiled] :
        x \in f.secrets[r]}

(* A file is what was read, and a restore is made of the file there is.     *)
FileFits(f) ==
    /\ f \in Archive!Bundle /\ Thin(f.secrets)
    /\ "type" \notin f.crossed => Archive!Empty(f) \/ f.types
    /\ "folder" \notin f.crossed =>
          \A r \in Pages : \A x \in f.secrets[r] : x.folder \in f.folders \cup {Archive!Unfiled}
    /\ "rotation" \notin f.crossed /\ (f.wraps # {} \/ "member" \notin f.crossed) =>
          \A r \in Pages : \A x \in f.secrets[r] : x.key \in f.wraps
    /\ \A x \in restored : x = [r \in Pages |-> Kept(f, r)]

Files ==
    /\ \A f \in file : FileFits(f) /\ file = {f}
    /\ file = {} => restored = {}
    /\ export # {} => file = {}

BackupInv ==
    /\ kind \in {"personal", "standard"} /\ crossed \subseteq Archive!Events
    /\ Shape /\ RowsOK /\ LabelsHeld /\ Reading /\ Files

(* Filing a row anew leaves the rest of it.                                 *)
LEMMA Unfiling ==
    ASSUME NEW x \in Archive!Row
    PROVE  LET y == [x EXCEPT !.folder = Archive!Unfiled]
           IN  y \in Archive!Row /\ y.key = x.key /\ y.folder = Archive!Unfiled
               /\ (x.folder = Archive!Unfiled => y = x)
  BY DEF Archive!Row

LEMMA KeptFacts ==
    ASSUME NEW f \in Archive!Bundle, Thin(f.secrets), NEW r \in Pages
    PROVE  /\ Kept(f, r) \subseteq Archive!Row
           /\ Cardinality(Kept(f, r)) = Cardinality(f.secrets[r])
           /\ (\A x \in f.secrets[r] : x.folder \in f.folders \cup {Archive!Unfiled})
                => Kept(f, r) = f.secrets[r]
           /\ \A y \in Kept(f, r) : \E x \in f.secrets[r] : y.key = x.key
  <1> DEFINE K(x) == IF x.folder \in f.folders THEN x ELSE [x EXCEPT !.folder = Archive!Unfiled]
  <1>1. \A x \in Archive!Row : K(x) \in Archive!Row /\ K(x).key = x.key
    BY Unfiling
  <1>2. \A x \in Archive!Row : x.folder \in f.folders \cup {Archive!Unfiled} => K(x) = x
    BY Unfiling
  <1>3. Kept(f, r) = {K(x) : x \in f.secrets[r]}
    BY DEF Kept
  <1> HIDE DEF K
  <1>4. CASE f.secrets[r] = {}
    BY <1>3, <1>4
  <1>5. ASSUME NEW x \in Archive!Row, f.secrets[r] = {x}
        PROVE  /\ Kept(f, r) \subseteq Archive!Row
               /\ Cardinality(Kept(f, r)) = Cardinality(f.secrets[r])
               /\ (\A z \in f.secrets[r] : z.folder \in f.folders \cup {Archive!Unfiled}) =>
                     Kept(f, r) = f.secrets[r]
               /\ \A y \in Kept(f, r) : \E z \in f.secrets[r] : y.key = z.key
    <2>1. Kept(f, r) = {K(x)}
      BY <1>3, <1>5
    <2>2. Cardinality(Kept(f, r)) = Cardinality(f.secrets[r])
      BY <1>5, <2>1, FS_Singleton
    <2> QED
      BY <1>1, <1>2, <1>5, <2>1, <2>2
  <1> QED
    BY <1>4, <1>5 DEF Thin

LEMMA BackupStarts == MaxKey \in Nat \ {0} /\ Archive!Init => BackupInv
  BY DEF Archive!Init, BackupInv, Shape, RowsOK, Thin, Archive!NoSecrets, Archive!There,
         Archive!Unfiled, LabelsHeld, Reading, Files, Archive!Events, Archive!Row

(* The invariant says what the runs ask of a backup.                        *)
LEMMA BackupTyped == MaxKey \in Nat \ {0} /\ BackupInv => Archive!TypeOK
  <1> SUFFICES ASSUME MaxKey \in Nat \ {0}, BackupInv PROVE Archive!TypeOK
    OBVIOUS
  <1>1. \A f \in file : \A x \in restored : x \in [Pages -> SUBSET Archive!Row]
    BY KeptFacts DEF BackupInv, Files, FileFits
  <1>2. file = {} => restored = {}
    BY DEF BackupInv, Files
  <1>3. file \subseteq Archive!Bundle
    BY DEF BackupInv, Files, FileFits
  <1>4. wraps \subseteq 1..MaxKey /\ Cardinality(wraps) <= 2
    BY ShapeFacts DEF BackupInv
  <1> QED
    BY <1>1, <1>2, <1>3, <1>4, SameCount DEF BackupInv, RowsOK, Archive!TypeOK

LEMMA BackupHoldsItsKeys == BackupInv => Archive!BundleHoldsItsKeys
  BY DEF BackupInv, Files, FileFits, Archive!BundleHoldsItsKeys

LEMMA BackupIsWhole == MaxKey \in Nat \ {0} /\ BackupInv => Archive!RestoreIsWhole
  <1> SUFFICES ASSUME MaxKey \in Nat \ {0}, BackupInv, NEW f \in file, f.wraps # {}
               PROVE  /\ Archive!Renders(f) \/ "type" \in f.crossed
                      /\ \A x \in restored : \A r \in Pages :
                           /\ Cardinality(x[r]) = Cardinality(f.secrets[r])
                           /\ "folder" \in f.crossed \/ x[r] = f.secrets[r]
                           /\ f.kind = "standard" /\ f.wraps = {1} /\ "rotation" \notin f.crossed
                                => \A y \in x[r] : Archive!Opened(f, y)
    BY SameCount DEF Archive!RestoreIsWhole
  <1>0. FileFits(f)
    BY DEF BackupInv, Files
  <1>1. Archive!Renders(f) \/ "type" \in f.crossed
    BY <1>0 DEF FileFits, Archive!Renders
  <1>2. ASSUME NEW x \in restored, NEW r \in Pages
        PROVE  /\ Cardinality(x[r]) = Cardinality(f.secrets[r])
               /\ "folder" \in f.crossed \/ x[r] = f.secrets[r]
               /\ f.kind = "standard" /\ f.wraps = {1} /\ "rotation" \notin f.crossed
                    => \A y \in x[r] : Archive!Opened(f, y)
    <2>1. x[r] = Kept(f, r)
      BY <1>0 DEF FileFits
    <2>2. f \in Archive!Bundle /\ Thin(f.secrets)
      BY <1>0 DEF FileFits
    <2>3. /\ Cardinality(x[r]) = Cardinality(f.secrets[r])
          /\ (\A z \in f.secrets[r] : z.folder \in f.folders \cup {Archive!Unfiled})
               => x[r] = f.secrets[r]
          /\ \A y \in x[r] : \E z \in f.secrets[r] : y.key = z.key
      BY <2>1, <2>2, KeptFacts
    <2>4. "folder" \in f.crossed \/ x[r] = f.secrets[r]
      BY <1>0, <2>3 DEF FileFits
    <2>5. ASSUME f.kind = "standard", f.wraps = {1}, "rotation" \notin f.crossed, NEW y \in x[r]
          PROVE  Archive!Opened(f, y)
      <3>1. y.key = 1
        BY <1>0, <2>3, <2>5 DEF FileFits
      <3>2. Archive!Min(f.wraps) = 1
        BY <2>5 DEF Archive!Min
      <3> QED
        BY <2>5, <3>1, <3>2 DEF Archive!Opened
    <2> QED
      BY <2>3, <2>4, <2>5
  <1> QED
    BY <1>1, <1>2

Quiet == UNCHANGED <<kind, wraps, drawer, type, export, file, restored, crossed>>

(* A row that is written or sealed anew is labelled with a wrap that is     *)
(* held; one that is deleted asks for nothing.                              *)
LEMMA RowWritten ==
    ASSUME BackupInv, Quiet, NEW r \in Pages, NEW new \in SUBSET Archive!Row,
           new = {} \/ \E x \in Archive!Row : new = {x},
           \A x \in new : x.folder \in Archive!There \cup {Archive!Unfiled} /\ x.key \in wraps,
           new # {} => type, sealed' = [sealed EXCEPT ![r] = new]
    PROVE  BackupInv'
  <1> USE DEF Quiet
  <1>1. \A q \in Pages : sealed'[q] = IF q = r THEN new ELSE sealed[q]
    BY DEF BackupInv, RowsOK
  <1>2. Archive!There' = Archive!There
    BY DEF Archive!There
  <1>3. RowsOK'
    BY <1>1, <1>2 DEF BackupInv, RowsOK, Thin, Archive!NoSecrets
  <1>4. LabelsHeld'
    BY <1>1 DEF BackupInv, LabelsHeld
  <1>5. ASSUME NEW e \in export
        PROVE  /\ e \in Export /\ Thin(e.secrets) /\ TypeRead(e)' /\ FoldersRead(e)'
               /\ WrapsRead(e)'
    <2>1. e \in Export /\ Thin(e.secrets) /\ TypeRead(e) /\ FoldersRead(e) /\ WrapsRead(e)
      BY DEF BackupInv, Reading
    <2>2. TypeRead(e)' /\ FoldersRead(e)'
      BY <1>2, <2>1 DEF TypeRead, FoldersRead
    <2>3. WrapsRead(e)'
      BY <1>1, <2>1 DEF WrapsRead
    <2> QED
      BY <2>1, <2>2, <2>3
  <1>6. Reading'
    BY <1>5 DEF Reading
  <1>7. Files'
    BY DEF BackupInv, Files, FileFits
  <1>8. Shape'
    BY DEF BackupInv, Shape
  <1> QED
    BY <1>3, <1>4, <1>6, <1>7, <1>8 DEF BackupInv

LEMMA RowSteps ==
    ASSUME MaxKey \in Nat \ {0}, BackupInv, NEW r \in Pages,
           Archive!Write(r) \/ Archive!Delete(r) \/ Archive!Reseal(r)
    PROVE  BackupInv'
  <1>0. wraps \subseteq 1..MaxKey /\ (wraps # {} => Archive!Current \in wraps)
    BY ShapeFacts DEF BackupInv
  <1>1. CASE Archive!Write(r)
    <2>1. PICK f \in Archive!There \cup {Archive!Unfiled} :
                   sealed' = [sealed EXCEPT ![r] = {[key |-> Archive!Current, folder |-> f]}]
      BY <1>1 DEF Archive!Write
    <2> DEFINE x == [key |-> Archive!Current, folder |-> f]
    <2>2. x \in Archive!Row /\ x.key \in wraps /\ x.folder = f
      BY <1>0, <1>1 DEF Archive!Write, Archive!Member, Archive!Row, Archive!There
    <2>3. Quiet /\ type
      BY <1>1 DEF Archive!Write, Quiet
    <2> HIDE DEF x
    <2>4. sealed' = [sealed EXCEPT ![r] = {x}]
      BY <2>1 DEF x
    <2>5. /\ {x} \in SUBSET Archive!Row
          /\ \A y \in {x} : y.folder \in Archive!There \cup {Archive!Unfiled} /\ y.key \in wraps
      BY <2>1, <2>2
    <2> QED
      BY <2>2, <2>3, <2>4, <2>5, RowWritten
  <1>2. CASE Archive!Delete(r)
    BY <1>2, RowWritten DEF Archive!Delete, Quiet
  <1>3. CASE Archive!Reseal(r)
    <2>1. PICK x \in sealed[r] :
                   sealed' = [sealed EXCEPT ![r] = {[x EXCEPT !.key = Archive!Current]}]
      BY <1>3 DEF Archive!Reseal
    <2> DEFINE y == [x EXCEPT !.key = Archive!Current]
    <2>2. x \in Archive!Row /\ x.folder \in Archive!There \cup {Archive!Unfiled} /\ type
      BY <2>1 DEF BackupInv, RowsOK, Archive!NoSecrets
    <2>3. Archive!Current \in wraps
      BY <1>0, <1>3, NoWraps DEF Archive!Reseal
    <2>4. y \in Archive!Row /\ y.key \in wraps /\ y.folder = x.folder
      BY <1>0, <2>2, <2>3 DEF Archive!Row
    <2>5. Quiet
      BY <1>3 DEF Archive!Reseal, Quiet
    <2> HIDE DEF y
    <2>6. sealed' = [sealed EXCEPT ![r] = {y}]
      BY <2>1 DEF y
    <2> QED
      BY <2>2, <2>4, <2>5, <2>6, RowWritten
  <1> QED
    BY <1>1, <1>2, <1>3

LEMMA FolderAdded ==
    ASSUME BackupInv, NEW f \in Secrets, Archive!AddFolder(f)
    PROVE  BackupInv'
  <1>1. /\ UNCHANGED <<kind, wraps, sealed, type, export, file, restored>> /\ file = {}
        /\ drawer' = [drawer EXCEPT ![f] = "there"] /\ drawer[f] = "new"
        /\ crossed' = IF export = {} THEN crossed ELSE crossed \cup {"folder"}
    BY DEF Archive!AddFolder, Archive!Busy, Archive!Cross
  <1>2. Archive!There' = Archive!There \cup {f}
    BY <1>1 DEF BackupInv, RowsOK, Archive!There
  <1>3. RowsOK' /\ LabelsHeld' /\ Shape' /\ Files' /\ crossed' \subseteq Archive!Events
    BY <1>1, <1>2
    DEF BackupInv, RowsOK, Thin, LabelsHeld, Shape, Files, FileFits, Archive!Events,
        Archive!NoSecrets
  <1>4. ASSUME NEW e \in export
        PROVE  e \in Export /\ Thin(e.secrets) /\ TypeRead(e)' /\ FoldersRead(e)' /\ WrapsRead(e)'
    <2>1. e \in Export /\ Thin(e.secrets) /\ TypeRead(e) /\ WrapsRead(e)
      BY DEF BackupInv, Reading
    <2>2. crossed' = crossed \cup {"folder"}
      BY <1>1
    <2> QED
      BY <1>1, <2>1, <2>2 DEF TypeRead, FoldersRead, WrapsRead
  <1> QED
    BY <1>1, <1>3, <1>4 DEF BackupInv, Reading

LEMMA FolderRemoved ==
    ASSUME BackupInv, NEW f \in Secrets, Archive!RemoveFolder(f)
    PROVE  BackupInv'
  <1>1. /\ UNCHANGED <<kind, wraps, type, export, file, restored>> /\ file = {}
        /\ drawer' = [drawer EXCEPT ![f] = "gone"] /\ drawer[f] = "there"
        /\ crossed' = IF export = {} THEN crossed ELSE crossed \cup {"folder"}
    BY DEF Archive!RemoveFolder, Archive!Busy, Archive!Cross
  <1>2. Archive!There' = Archive!There \ {f}
    BY <1>1 DEF BackupInv, RowsOK, Archive!There
  <1> DEFINE U(x) == IF x.folder = f THEN [x EXCEPT !.folder = Archive!Unfiled] ELSE x
  <1>3. PICK kept \in {{}, Archive!Filed(f)} :
            sealed' = [r \in Pages |-> IF r \in Archive!Filed(f) \ kept THEN {} ELSE {U(x) :
                x \in sealed[r]}]
    BY DEF Archive!RemoveFolder
  <1>4. \A x \in Archive!Row : U(x) \in Archive!Row /\ U(x).key = x.key
            /\ U(x).folder = (IF x.folder = f THEN Archive!Unfiled ELSE x.folder)
    BY Unfiling
  <1> HIDE DEF U
  <1>5. \A r \in Pages : sealed'[r] = {} \/ \E x \in sealed[r] : sealed'[r] = {U(x)}
    BY <1>3 DEF BackupInv, RowsOK, Thin
  <1>6. sealed' \in [Pages -> SUBSET Archive!Row]
    <2>1. \A r \in Pages : sealed'[r] \in SUBSET Archive!Row
      BY <1>4, <1>5 DEF BackupInv, RowsOK
    <2>2. sealed' = [r \in Pages |-> sealed'[r]]
      BY <1>3
    <2> QED
      BY <2>1, <2>2
  <1>7. \A r \in Pages : \A y \in sealed'[r] : \E x \in sealed[r] : y = U(x)
    BY <1>5
  <1>8. Thin(sealed)'
    BY <1>4, <1>5 DEF BackupInv, RowsOK, Thin
  <1>9. \A r \in Pages : \A y \in sealed'[r] : y.folder \in Archive!There' \cup {Archive!Unfiled}
    BY <1>2, <1>4, <1>7 DEF BackupInv, RowsOK
  <1>10. ~type' => sealed' = Archive!NoSecrets
    BY <1>1, <1>3 DEF BackupInv, RowsOK, Archive!NoSecrets
  <1>11. drawer' \in [Secrets -> {"new", "there", "gone"}] /\ type' \in BOOLEAN
    BY <1>1 DEF BackupInv, RowsOK
  <1>12. RowsOK'
    BY <1>6, <1>8, <1>9, <1>10, <1>11 DEF RowsOK, Archive!NoSecrets
  <1>13. \A r \in Pages : \A y \in sealed'[r] : \E x \in sealed[r] : y.key = x.key
    BY <1>4, <1>7 DEF BackupInv, RowsOK
  <1>14. LabelsHeld' /\ Shape' /\ Files' /\ crossed' \subseteq Archive!Events
    BY <1>1, <1>13 DEF BackupInv, LabelsHeld, Shape, Files, FileFits, Archive!Events
  <1>15. ASSUME NEW e \in export
         PROVE  e \in Export /\ Thin(e.secrets) /\ TypeRead(e)' /\ FoldersRead(e)' /\ WrapsRead(e)'
    <2>1. e \in Export /\ Thin(e.secrets) /\ TypeRead(e) /\ WrapsRead(e)
      BY DEF BackupInv, Reading
    <2>2. crossed' = crossed \cup {"folder"}
      BY <1>1
    <2>3. TypeRead(e)' /\ FoldersRead(e)'
      BY <1>1, <2>1, <2>2 DEF TypeRead, FoldersRead
    <2>4. WrapsRead(e)'
      BY <1>1, <1>13, <2>1, <2>2 DEF WrapsRead
    <2> QED
      BY <2>1, <2>3, <2>4
  <1> QED
    BY <1>1, <1>12, <1>14, <1>15 DEF BackupInv, Reading

LEMMA TypeRemoved ==
    ASSUME BackupInv, Archive!RemoveType
    PROVE  BackupInv'
  <1>1. /\ UNCHANGED <<kind, wraps, sealed, drawer, export, file, restored>>
        /\ type' = FALSE /\ \A r \in Pages : sealed[r] = {}
        /\ crossed' = IF export = {} THEN crossed ELSE crossed \cup {"type"}
    BY DEF Archive!RemoveType, Archive!Cross, Archive!Written
  <1>2. Archive!There' = Archive!There
    BY <1>1 DEF Archive!There
  <1>3. sealed = Archive!NoSecrets
    BY <1>1 DEF BackupInv, RowsOK, Archive!NoSecrets
  <1>4. RowsOK' /\ LabelsHeld' /\ Shape' /\ Files' /\ crossed' \subseteq Archive!Events
    <2>1. RowsOK'
      BY <1>1, <1>2, <1>3 DEF BackupInv, RowsOK, Thin, Archive!NoSecrets
    <2>2. LabelsHeld' /\ Shape'
      BY <1>1 DEF BackupInv, LabelsHeld, Shape
    <2>3. Files'
      BY <1>1 DEF BackupInv, Files, FileFits
    <2>4. crossed' \subseteq Archive!Events
      BY <1>1 DEF BackupInv, Archive!Events
    <2> QED
      BY <2>1, <2>2, <2>3, <2>4
  <1>5. ASSUME NEW e \in export
        PROVE  e \in Export /\ Thin(e.secrets) /\ TypeRead(e)' /\ FoldersRead(e)' /\ WrapsRead(e)'
    <2>1. e \in Export /\ Thin(e.secrets) /\ FoldersRead(e) /\ WrapsRead(e)
      BY DEF BackupInv, Reading
    <2>2. crossed' = crossed \cup {"type"}
      BY <1>1
    <2> QED
      BY <1>1, <1>2, <2>1, <2>2 DEF TypeRead, FoldersRead, WrapsRead
  <1> QED
    BY <1>1, <1>4, <1>5 DEF BackupInv, Reading

(* A rotation opens or closes, or the owner is revoked.                     *)
LEMMA WrapsChanged ==
    ASSUME BackupInv, UNCHANGED <<kind, sealed, drawer, type, export, file, restored>>, file = {},
           Shape', LabelsHeld', wraps # {},
           \/ wraps' # {} /\ crossed' = (IF export = {} THEN crossed ELSE crossed \cup {"rotation"})
           \/ wraps' = {} /\ crossed' = (IF export = {} THEN crossed ELSE crossed \cup {"member"})
    PROVE  BackupInv'
  <1>1. Archive!There' = Archive!There
    BY DEF Archive!There
  <1>2. RowsOK' /\ Files' /\ crossed' \subseteq Archive!Events
    BY <1>1 DEF BackupInv, RowsOK, Thin, Files, FileFits, Archive!Events, Archive!NoSecrets
  <1>3. ASSUME NEW e \in export
        PROVE  e \in Export /\ Thin(e.secrets) /\ TypeRead(e)' /\ FoldersRead(e)' /\ WrapsRead(e)'
    <2>1. e \in Export /\ Thin(e.secrets) /\ TypeRead(e) /\ FoldersRead(e) /\ WrapsRead(e)
      BY DEF BackupInv, Reading
    <2>2. \/ wraps' # {} /\ crossed' = crossed \cup {"rotation"}
          \/ wraps' = {} /\ crossed' = crossed \cup {"member"}
      OBVIOUS
    <2>3. TypeRead(e)' /\ FoldersRead(e)'
      BY <1>1, <2>1, <2>2 DEF TypeRead, FoldersRead
    <2>4. WrapsRead(e)'
      BY <2>1, <2>2 DEF WrapsRead
    <2> QED
      BY <2>1, <2>3, <2>4
  <1> QED
    BY <1>2, <1>3 DEF BackupInv, Reading

LEMMA WrapSteps ==
    ASSUME MaxKey \in Nat \ {0}, BackupInv,
           Archive!OpenRotation \/ Archive!CloseRotation \/ Archive!Revoked
    PROVE  BackupInv'
  <1>0. /\ wraps \subseteq 1..MaxKey
        /\ Archive!Running => \E k \in 1..MaxKey : wraps = {k, k + 1} /\ Archive!Current = k + 1
        /\ Archive!Member /\ ~Archive!Running => wraps = {Archive!Current}
        /\ wraps # {} => Archive!Current \in wraps
    BY ShapeFacts DEF BackupInv
  <1>1. CASE Archive!OpenRotation
    <2>1. /\ UNCHANGED <<kind, sealed, drawer, type, export, file, restored>> /\ file = {}
          /\ wraps = {Archive!Current} /\ Archive!Current < MaxKey
          /\ wraps' = wraps \cup {Archive!Current + 1}
          /\ crossed' = IF export = {} THEN crossed ELSE crossed \cup {"rotation"}
      BY <1>0, <1>1 DEF Archive!OpenRotation, Archive!Busy, Archive!Cross
    <2>2. PICK k \in 1..MaxKey : k = Archive!Current
      BY <1>0, <2>1
    <2>3. Shape'
      BY <2>1, <2>2 DEF Shape
    <2>4. LabelsHeld'
      BY <2>1 DEF BackupInv, LabelsHeld
    <2> QED
      BY <2>1, <2>3, <2>4, WrapsChanged
  <1>2. CASE Archive!CloseRotation
    <2>1. /\ UNCHANGED <<kind, sealed, drawer, type, export, file, restored>> /\ file = {}
          /\ Archive!Running /\ wraps' = {Archive!Current}
          /\ \A r \in Pages : \A x \in sealed[r] : x.key = Archive!Current
          /\ crossed' = IF export = {} THEN crossed ELSE crossed \cup {"rotation"}
      BY <1>2 DEF Archive!CloseRotation, Archive!Busy, Archive!Cross
    <2>2. wraps # {} /\ Archive!Current \in 1..MaxKey
      BY <1>0, <2>1
    <2>3. Shape' /\ LabelsHeld'
      BY <2>1, <2>2 DEF Shape, LabelsHeld
    <2> QED
      BY <2>1, <2>2, <2>3, WrapsChanged
  <1>3. CASE Archive!Revoked
    <2>1. /\ UNCHANGED <<kind, sealed, drawer, type, export, file, restored>> /\ file = {}
          /\ wraps # {} /\ wraps' = {}
          /\ crossed' = IF export = {} THEN crossed ELSE crossed \cup {"member"}
      BY <1>3 DEF Archive!Revoked, Archive!Busy, Archive!Cross, Archive!Member
    <2>2. Shape' /\ LabelsHeld'
      BY <2>1 DEF Shape, LabelsHeld
    <2> QED
      BY <2>1, <2>2, WrapsChanged
  <1> QED
    BY <1>1, <1>2, <1>3

LEMMA ExportSteps ==
    ASSUME MaxKey \in Nat \ {0}, BackupInv,
           Archive!ExportBegin \/ (\E t \in Archive!Tables : Archive!Read(t))
    PROVE  BackupInv'
  <1>1. UNCHANGED <<Archive!vault, file, restored>> /\ file = {}
    BY DEF Archive!ExportBegin, Archive!Read, Archive!Busy, BackupInv, Files
  <1>2. Archive!There' = Archive!There
    BY <1>1 DEF Archive!There, Archive!vault
  <1>3. Shape' /\ RowsOK' /\ LabelsHeld' /\ Files' /\ kind' \in {"personal", "standard"}
    BY <1>1, <1>2
    DEF BackupInv, Shape, RowsOK, Thin, Archive!NoSecrets, LabelsHeld, Files, FileFits,
        Archive!vault
  <1>4. CASE Archive!ExportBegin
    <2> DEFINE e == [left    |-> Archive!Tables, secrets |-> Archive!NoSecrets,
                     folders |-> {}, wraps |-> {}]
    <2>1. export' = {e} /\ crossed' = {} /\ wraps # {}
      BY <1>4 DEF Archive!ExportBegin, Archive!Member
    <2>2. e \in Export /\ Thin(e.secrets) /\ Archive!Empty(e)
      BY DEF Export, Archive!NoSecrets, Thin, Archive!Empty
    <2>3. /\ e.left = Archive!Tables /\ \A r \in Pages : e.secrets[r] = {}
      BY DEF Archive!NoSecrets
    <2> HIDE DEF e
    <2>4. TypeRead(e)' /\ FoldersRead(e)' /\ WrapsRead(e)'
      BY <1>1, <2>1, <2>2, <2>3 DEF TypeRead, FoldersRead, WrapsRead, Archive!Tables, Archive!vault
    <2> QED
      BY <1>3, <2>1, <2>2, <2>4 DEF BackupInv, Reading
  <1>5. ASSUME NEW t \in Archive!Tables, Archive!Read(t) PROVE BackupInv'
    <2>1. PICK e \in export :
            /\ t \in e.left
            /\ export' = {[left    |-> e.left \ {t},
                           secrets |-> IF t = "secrets" THEN sealed ELSE e.secrets,
                           folders |-> IF t = "folders" THEN Archive!There ELSE e.folders,
                           wraps   |-> IF t = "wraps" THEN wraps ELSE e.wraps]}
      BY <1>5 DEF Archive!Read
    <2>2. e \in Export /\ Thin(e.secrets) /\ TypeRead(e) /\ FoldersRead(e) /\ WrapsRead(e)
      BY DEF BackupInv, Reading
    <2>3. wraps \subseteq 1..MaxKey
      BY ShapeFacts DEF BackupInv
    <2>4. PICK d \in Export :
            /\ export' = {d}
            /\ d.left = e.left \ {t}
            /\ d.secrets = IF t = "secrets" THEN sealed ELSE e.secrets
            /\ d.folders = IF t = "folders" THEN Archive!There ELSE e.folders
            /\ d.wraps = IF t = "wraps" THEN wraps ELSE e.wraps
      <3> DEFINE x == [left    |-> e.left \ {t},
                       secrets |-> IF t = "secrets" THEN sealed ELSE e.secrets,
                       folders |-> IF t = "folders" THEN Archive!There ELSE e.folders,
                       wraps   |-> IF t = "wraps" THEN wraps ELSE e.wraps]
      <3>1. x \in Export
        BY <2>2, <2>3 DEF Export, BackupInv, RowsOK, Archive!There
      <3> QED
        BY <2>1, <3>1
    <2>6. UNCHANGED <<crossed, sealed, type, wraps>>
      BY <1>1, <1>5 DEF Archive!Read, Archive!vault
    <2>7. Thin(d.secrets) /\ TypeRead(d)'
      BY <2>2, <2>4, <2>6 DEF TypeRead, BackupInv, RowsOK, Thin, Archive!Empty, Archive!NoSecrets
    <2>8. FoldersRead(d)'
      BY <1>2, <2>2, <2>4, <2>6 DEF FoldersRead, BackupInv, RowsOK
    <2>9. WrapsRead(d)'
      BY <2>2, <2>4, <2>6 DEF WrapsRead, BackupInv, LabelsHeld
    <2> QED
      BY <1>3, <2>4, <2>6, <2>7, <2>8, <2>9 DEF BackupInv, Reading
  <1> QED
    BY <1>4, <1>5

LEMMA Downloaded ==
    ASSUME BackupInv, Archive!Download
    PROVE  BackupInv'
  <1>1. PICK e \in export : e.left = {} /\ file' = {Archive!Bundled(e)}
    BY DEF Archive!Download
  <1>2. /\ UNCHANGED <<kind, wraps, sealed, drawer, type, restored>>
        /\ export' = {} /\ crossed' = {} /\ restored = {}
    BY <1>1 DEF Archive!Download, Archive!vault, BackupInv, Files
  <1>3. e \in Export /\ Thin(e.secrets) /\ TypeRead(e) /\ FoldersRead(e) /\ WrapsRead(e)
    BY DEF BackupInv, Reading
  <1>4. Archive!There' = Archive!There
    BY <1>2 DEF Archive!There
  <1>5. Shape' /\ RowsOK' /\ LabelsHeld' /\ Reading'
    BY <1>2, <1>4 DEF BackupInv, Shape, RowsOK, Thin, Archive!NoSecrets, LabelsHeld, Reading
  <1>6. Archive!Bundled(e) \in Archive!Bundle
    BY <1>3 DEF Archive!Bundled, Archive!Bundle, Export, BackupInv, RowsOK
  <1>7. PICK f \in Archive!Bundle :
          /\ file' = {f}
          /\ f.secrets = e.secrets /\ f.folders = e.folders /\ f.wraps = e.wraps
          /\ f.types = (type /\ ~Archive!Empty(e)) /\ f.crossed = crossed
    BY <1>1, <1>6 DEF Archive!Bundled
  <1>8. Archive!Empty(f) <=> Archive!Empty(e)
    BY <1>7 DEF Archive!Empty
  <1>9. FileFits(f)'
    <2>1. Thin(f.secrets) /\ ("type" \notin f.crossed => Archive!Empty(f) \/ f.types)
      BY <1>3, <1>7, <1>8 DEF TypeRead
    <2>2. "folder" \notin f.crossed =>
            \A r \in Pages : \A x \in f.secrets[r] : x.folder \in f.folders \cup {Archive!Unfiled}
      BY <1>1, <1>3, <1>7 DEF FoldersRead
    <2>3. "rotation" \notin f.crossed /\ (f.wraps # {} \/ "member" \notin f.crossed) =>
            \A r \in Pages : \A x \in f.secrets[r] : x.key \in f.wraps
      BY <1>1, <1>3, <1>7 DEF WrapsRead
    <2> QED
      BY <1>2, <2>1, <2>2, <2>3 DEF FileFits
  <1>10. Files'
    BY <1>2, <1>7, <1>9 DEF Files
  <1> QED
    BY <1>2, <1>5, <1>10 DEF BackupInv

LEMMA Restored ==
    ASSUME BackupInv, Archive!Restore
    PROVE  BackupInv'
  <1>1. PICK f \in file : restored' = Archive!Imported(f) /\ type' = (type \/ f.types)
    BY DEF Archive!Restore
  <1>2. /\ UNCHANGED <<kind, wraps, sealed, drawer, export, file, crossed>>
        /\ export = {}
    BY DEF Archive!Restore, BackupInv, Files
  <1>3. Archive!There' = Archive!There
    BY <1>2 DEF Archive!There
  <1>4. f.types \in BOOLEAN
    BY DEF BackupInv, Files, FileFits, Archive!Bundle
  <1>5. Shape' /\ RowsOK' /\ LabelsHeld' /\ Reading'
    BY <1>1, <1>2, <1>3, <1>4
    DEF BackupInv, Shape, RowsOK, Thin, Archive!NoSecrets, LabelsHeld, Reading
  <1>6. \A x \in restored' : x = [r \in Pages |-> Kept(f, r)]
    BY <1>1 DEF Archive!Imported, Kept
  <1>7. file = {f}
    BY DEF BackupInv, Files
  <1>8. Files'
    BY <1>2, <1>6, <1>7 DEF BackupInv, Files, FileFits
  <1> QED
    BY <1>2, <1>5, <1>8 DEF BackupInv

LEMMA BackupStep ==
    MaxKey \in Nat \ {0} /\ BackupInv /\ [Archive!Next]_(Archive!vars) => BackupInv'
  <1> SUFFICES ASSUME MaxKey \in Nat \ {0}, BackupInv, [Archive!Next]_(Archive!vars)
               PROVE  BackupInv'
    OBVIOUS
  <1>1. CASE UNCHANGED Archive!vars
    <2>1. Archive!There' = Archive!There
      BY <1>1 DEF Archive!vars, Archive!vault, Archive!There
    <2>2. UNCHANGED <<kind, wraps, sealed, drawer, type, export, file, restored, crossed>>
      BY <1>1 DEF Archive!vars, Archive!vault
    <2> QED
      BY <2>1, <2>2
      DEF BackupInv, Shape, RowsOK, Thin, Archive!NoSecrets, LabelsHeld, Reading, TypeRead,
          FoldersRead, WrapsRead, Files, FileFits
  <1> QED
    BY <1>1, RowSteps, FolderAdded, FolderRemoved, TypeRemoved, WrapSteps, ExportSteps, Downloaded,
       Restored
    DEF Archive!Next

LEMMA BackupHolds == Archive!Spec => []BackupInv
  BY BackupStarts, BackupStep, BoundsAssumption, PTL DEF Archive!Spec, BoundsAssumption

(* A file that was taken half-way through a rotation holds the key of every *)
(* row in it, unless the rotation opened or closed during the export or the *)
(* membership was lost.  (export.route.ts:24-94)                            *)
THEOREM FilesHoldTheirKeys == SumSpec => []BundleHoldsItsKeys
  <1>1. BackupInv => BundleHoldsItsKeys
    BY BackupHoldsItsKeys DEF BundleHoldsItsKeys
  <1> QED
    BY <1>1, BackupHolds, PartsRun, PTL

(* A restore brings back every row of the file, in its folder and readable, *)
(* within the limits that Backup!RestoreIsWhole names.                      *)
(* (import.route.ts:104-195, vault-key.ts:47-70)                            *)
THEOREM RestoresAreWhole == SumSpec => []RestoreIsWhole
  <1>1. BackupInv => RestoreIsWhole
    BY BackupIsWhole, BoundsAssumption DEF RestoreIsWhole, BoundsAssumption
  <1> QED
    BY <1>1, BackupHolds, PartsRun, PTL

-----------------------------------------------------------------------------
(* The clipboard *)

LEMMA BoardInitTyped == Board!Init => Board!TypeOK
  BY DEF Board!Init, Board!TypeOK, Board!Maybe

LEMMA BoardTyped ==
    ASSUME Board!Gone \notin Pages
    PROVE  Board!TypeOK /\ [Board!Next]_(Board!vars) => Board!TypeOK'
  <1> SUFFICES ASSUME Board!TypeOK, [Board!Next]_(Board!vars)
               PROVE  Board!TypeOK'
    OBVIOUS
  <1> USE DEF Board!TypeOK
  <1>0. {} \in Board!Maybe /\ \A v \in Accounts : {v} \in Board!Maybe
    BY DEF Board!Maybe
  <1>a. \A w \in writing : w.by \in Pages \cup {Board!Gone} /\ w.value \in Accounts
    OBVIOUS
  <1>b. \A k \in clearing : k.value \in Accounts /\ k.at \in {"read", "write"}
    OBVIOUS
  <1>1. ASSUME NEW b \in Pages, Board!Mount(b) \/ Board!Reuse(b)
        PROVE  Board!TypeOK'
    BY <1>0, <1>1 DEF Board!Mount, Board!Reuse
  <1>2. ASSUME NEW b \in Pages, Board!Unmount(b)
        PROVE  Board!TypeOK'
    <2>1. /\ button' \in [Pages -> Board!Maybe]
          /\ timer' \in [Pages \cup {Board!Gone} -> SUBSET Accounts]
      BY <1>0, <1>2 DEF Board!Unmount
    <2>2. \A c \in Pages : timer'[c] \in Board!Maybe
      BY <1>0, <1>2 DEF Board!Unmount
    <2>3. writing' \subseteq [by : Pages \cup {Board!Gone}, value : Accounts]
      BY <1>2 DEF Board!Unmount
    <2>4. left' \subseteq Accounts
      BY <1>2 DEF Board!Unmount
    <2> QED
      BY <1>2, <2>1, <2>2, <2>3, <2>4 DEF Board!Unmount
  <1>3. ASSUME NEW b \in Pages, Board!Copy(b)
        PROVE  Board!TypeOK'
    <2>1. button[b] \subseteq Accounts
      BY DEF Board!Maybe
    <2> QED
      BY <1>3, <2>1 DEF Board!Copy
  <1>4. ASSUME NEW w \in writing, Board!Copied(w)
        PROVE  Board!TypeOK'
    <2> DEFINE soon == {w.value} \cup (IF w.by = Board!Gone THEN timer[w.by] ELSE {})
    <2>1. soon \in SUBSET Accounts
      BY <1>a
    <2>2. timer' = [timer EXCEPT ![w.by] = soon]
      BY <1>4 DEF Board!Copied
    <2>3. w.by # Board!Gone => soon \in Board!Maybe
      BY <1>0, <1>a
    <2> HIDE DEF soon
    <2>4. timer' \in [Pages \cup {Board!Gone} -> SUBSET Accounts]
      BY <2>1, <2>2
    <2>5. \A c \in Pages : timer'[c] \in Board!Maybe
      BY <1>a, <2>2, <2>3
    <2> QED
      BY <1>4, <1>a, <2>4, <2>5 DEF Board!Copied
  <1>5. ASSUME NEW w \in writing, Board!CopyRefused(w)
        PROVE  Board!TypeOK'
    BY <1>5 DEF Board!CopyRefused
  <1>6. CASE Board!UserCopies
    BY <1>6 DEF Board!UserCopies
  <1>7. ASSUME NEW b \in Pages \cup {Board!Gone}, NEW v \in Accounts, Board!Due(b, v)
        PROVE  Board!TypeOK'
    <2>1. timer' = [timer EXCEPT ![b] = @ \ {v}] /\ timer[b] \ {v} \in SUBSET Accounts
      BY <1>7 DEF Board!Due
    <2>2. timer' \in [Pages \cup {Board!Gone} -> SUBSET Accounts]
      BY <2>1
    <2>3. b \in Pages => timer[b] \ {v} \in Board!Maybe
      BY DEF Board!Maybe
    <2>4. \A c \in Pages : timer'[c] \in Board!Maybe
      BY <2>1, <2>3
    <2>5. clearing' \subseteq [value : Accounts, at : {"read", "write"}]
      BY <1>7 DEF Board!Due
    <2> QED
      BY <1>7, <2>2, <2>4, <2>5 DEF Board!Due
  <1>8. ASSUME NEW k \in clearing, Board!Compare(k)
        PROVE  Board!TypeOK'
    <2>1. [k EXCEPT !.at = "write"] \in [value : Accounts, at : {"read", "write"}]
      OBVIOUS
    <2>2. clearing' \subseteq [value : Accounts, at : {"read", "write"}]
      BY <1>8, <2>1 DEF Board!Compare
    <2> QED
      BY <1>8, <2>2 DEF Board!Compare
  <1>9. ASSUME NEW k \in clearing, Board!Clear(k) \/ Board!ClearRefused(k)
        PROVE  Board!TypeOK'
    BY <1>9, <1>b DEF Board!Clear, Board!ClearRefused
  <1>10. CASE UNCHANGED Board!vars
    BY <1>10 DEF Board!vars
  <1> QED
    BY <1>1, <1>2, <1>3, <1>4, <1>5, <1>6, <1>7, <1>8, <1>9, <1>10 DEF Board!Next

LEMMA BoardStep ==
    ASSUME Board!Users \notin Accounts, Board!Nothing \notin Accounts
    PROVE  Board!TypeOK /\ Board!CopiesAreCleared /\ [Board!Next]_(Board!vars)
               => Board!CopiesAreCleared'
  <1> SUFFICES ASSUME Board!TypeOK, Board!CopiesAreCleared, [Board!Next]_(Board!vars),
                      clip' \in Accounts \ left'
               PROVE  \/ \E b \in DOMAIN timer' : clip' \in timer'[b]
                      \/ \E k \in clearing' : k.value = clip'
    BY DEF Board!CopiesAreCleared
  <1> DEFINE Cleared == \/ \E b \in DOMAIN timer' : clip' \in timer'[b]
                        \/ \E k \in clearing' : k.value = clip'
  <1>a. DOMAIN timer = Pages \cup {Board!Gone}
    BY DEF Board!TypeOK
  <1> USE DEF Board!CopiesAreCleared
  <1>1. ASSUME NEW b \in Pages, Board!Mount(b) \/ Board!Reuse(b) \/ Board!Copy(b)
        PROVE  Cleared
    BY <1>1 DEF Board!Mount, Board!Reuse, Board!Copy
  <1>2. ASSUME NEW b \in Pages, Board!Unmount(b)
        PROVE  Cleared
    <2>1. /\ DOMAIN timer' = DOMAIN timer /\ \A c \in DOMAIN timer \ {b} : timer'[c] = timer[c]
          /\ left' = left \cup timer[b] /\ UNCHANGED <<clip, clearing>>
      BY <1>2, <1>a DEF Board!Unmount, Board!TypeOK
    <2> QED
      BY <2>1
  <1>3. ASSUME NEW w \in writing, Board!Copied(w)
        PROVE  Cleared
    <2>1. w.by \in DOMAIN timer
      BY <1>a DEF Board!TypeOK
    <2>2. DOMAIN timer' = DOMAIN timer /\ w.value \in timer'[w.by] /\ clip' = w.value
      BY <1>3, <2>1 DEF Board!Copied, Board!TypeOK
    <2> QED
      BY <2>1, <2>2
  <1>4. ASSUME NEW w \in writing, Board!CopyRefused(w)
        PROVE  Cleared
    BY <1>4 DEF Board!CopyRefused
  <1>5. CASE Board!UserCopies
    BY <1>5 DEF Board!UserCopies
  <1>6. ASSUME NEW b \in Pages \cup {Board!Gone}, NEW v \in Accounts, Board!Due(b, v)
        PROVE  Cleared
    <2>1. /\ DOMAIN timer' = DOMAIN timer /\ \A c \in DOMAIN timer \ {b} : timer'[c] = timer[c]
          /\ timer'[b] = timer[b] \ {v}
          /\ clearing \subseteq clearing' /\ UNCHANGED <<clip, left>>
      BY <1>6, <1>a DEF Board!Due, Board!TypeOK
    <2>2. \E k \in clearing' : k.value = v
      <3>1. [value |-> v, at |-> "read"] \in clearing'
        BY <1>6 DEF Board!Due
      <3> QED
        BY <3>1
    <2> QED
      BY <2>1, <2>2
  <1>7. ASSUME NEW k \in clearing, Board!Compare(k)
        PROVE  Cleared
    <2>1. UNCHANGED <<clip, timer, left>> /\ clearing \ {k} \subseteq clearing'
      BY <1>7 DEF Board!Compare
    <2>2. clip = k.value => [k EXCEPT !.at = "write"] \in clearing'
      BY <1>7 DEF Board!Compare
    <2>3. [k EXCEPT !.at = "write"].value = k.value
      BY DEF Board!TypeOK
    <2> QED
      BY <2>1, <2>2, <2>3
  <1>8. ASSUME NEW k \in clearing, Board!Clear(k) \/ Board!ClearRefused(k)
        PROVE  Cleared
    BY <1>8 DEF Board!Clear, Board!ClearRefused
  <1>9. CASE UNCHANGED Board!vars
    BY <1>9 DEF Board!vars
  <1> QED
    BY <1>1, <1>2, <1>3, <1>4, <1>5, <1>6, <1>7, <1>8, <1>9 DEF Board!Next

LEMMA BoardHolds == Board!Spec => [](Board!TypeOK /\ Board!CopiesAreCleared)
  <1>1. Board!Gone \notin Pages /\ Board!Users \notin Accounts /\ Board!Nothing \notin Accounts
    BY NamesAssumption DEF NamesAssumption, Board!Gone, Board!Users, Board!Nothing
  <1>2. Board!Init => Board!TypeOK /\ Board!CopiesAreCleared
    BY <1>1, BoardInitTyped DEF Board!Init, Board!CopiesAreCleared
  <1>3. Board!TypeOK /\ Board!CopiesAreCleared /\ [Board!Next]_(Board!vars)
           => Board!TypeOK' /\ Board!CopiesAreCleared'
    BY <1>1, BoardTyped, BoardStep
  <1> QED
    BY <1>2, <1>3, PTL DEF Board!Spec

(* A value of the vault that is on the clipboard is on its way off it,      *)
(* unless its button went before its time or the browser refused.           *)
(* (CopyButton.tsx:28-56)                                                   *)
THEOREM CopiesLeaveTheBoard == SumSpec => []CopiesAreCleared
  <1>1. Board!CopiesAreCleared => CopiesAreCleared
    BY DEF CopiesAreCleared
  <1> QED
    BY <1>1, BoardHolds, PartsRun, PTL

-----------------------------------------------------------------------------
(* The list and its search *)

LEMMA RemovedFrom ==
    ASSUME NEW S, NEW s \in Seq(S), NEW n \in 1..Len(s)
    PROVE  /\ List!RemoveAt(s, n) \in Seq(S) /\ Len(List!RemoveAt(s, n)) = Len(s) - 1
           /\ \A i \in 1..(Len(s) - 1) : List!RemoveAt(s, n)[i] = IF i < n THEN s[i] ELSE s[i + 1]
  <1> DEFINE a == SubSeq(s, 1, n - 1)
             b == SubSeq(s, n + 1, Len(s))
  <1>1. a \in Seq(S) /\ Len(a) = n - 1 /\ \A i \in 1..(n - 1) : a[i] = s[i]
    BY SubSeqProperties
  <1>2. b \in Seq(S) /\ Len(b) = Len(s) - n /\ \A i \in 1..(Len(s) - n) : b[i] = s[n + i]
    BY SubSeqProperties
  <1>3. List!RemoveAt(s, n) = a \o b
    BY DEF List!RemoveAt
  <1> HIDE DEF a, b
  <1>4. (a \o b) \in Seq(S) /\ Len(a \o b) = Len(a) + Len(b)
    BY <1>1, <1>2, ConcatProperties
  <1>5. \A i \in 1..(Len(a) + Len(b)) : (a \o b)[i] = IF i <= Len(a) THEN a[i] ELSE b[i - Len(a)]
    BY <1>1, <1>2, ConcatProperties
  <1>6. \A i \in 1..(Len(s) - 1) : (a \o b)[i] = IF i < n THEN s[i] ELSE s[i + 1]
    BY <1>1, <1>2, <1>5
  <1>7. (a \o b) \in Seq(S) /\ Len(a \o b) = Len(s) - 1
    BY <1>1, <1>2, <1>4
  <1> QED
    BY <1>3, <1>6, <1>7

(* The sets that everything here ranges over.                               *)
ListSets == Versions \subseteq Nat /\ 1 \in Versions /\ MaxLoads \in Nat \ {0}

ListTyped ==
    /\ record \in List!Table /\ items \in List!Table /\ inUse \in Versions
    /\ older \subseteq Versions
    /\ query \in BOOLEAN /\ stale \in BOOLEAN /\ raced \in BOOLEAN
    /\ loads \in Seq(List!Load) /\ Len(loads) <= MaxLoads

(* The index is that of what is shown.                                      *)
Indexed ==
    /\ index = List!Found(items, {inUse} \cup older)
    /\ query /\ ~stale => hits = {index}
    /\ hits \subseteq SUBSET Secrets

(* Loads are made of the types there were when they were asked for, the     *)
(* later ones of later types; whatever was asked for before one that has    *)
(* shown its rows is late.                                                  *)
Queued ==
    /\ \A n \in DOMAIN loads : loads[n].known <= inUse
    /\ \A m, n \in DOMAIN loads : m < n => loads[m].known <= loads[n].known
    /\ \A m, n \in DOMAIN loads : m < n /\ loads[n].at = "shown" => loads[m].late

(* A load of the types in use that is not late is on its way, or every load *)
(* is late and what is shown has its versions.                              *)
Settled ==
    ~raced =>
        /\ \A n \in DOMAIN loads :
               loads[n].at = "shown" /\ ~loads[n].late => loads[n].rows = items
        /\ \/ \E n \in DOMAIN loads : ~loads[n].late /\ loads[n].known = inUse
           \/ /\ List!Missing(items, inUse) \subseteq older
              /\ \A n \in DOMAIN loads : loads[n].late

ListInv == ListTyped /\ Indexed /\ Queued /\ Settled

LEMMA FoundRows == ASSUME NEW i, NEW k PROVE List!Found(i, k) \subseteq Secrets
  BY DEF List!Found

LEMMA EmptyTable ==
    /\ List!Empty \in List!Table
    /\ \A k : List!Found(List!Empty, k) = {} /\ List!Missing(List!Empty, k) = {}
  BY DEF List!Empty, List!Table, List!Found, List!Missing

LEMMA MissingVersions ==
    ASSUME NEW i \in List!Table, NEW k
    PROVE  List!Missing(i, k) \subseteq Versions
  <1>1. \A r \in Secrets : \A x \in i[r] : x \in List!Row
    BY DEF List!Table
  <1> QED
    BY <1>1 DEF List!Missing, List!Row

LEMMA AskedLoad ==
    ASSUME inUse \in Versions
    PROVE  /\ List!Asked \in List!Load /\ List!Asked.at = "asked" /\ List!Asked.known = inUse
           /\ ~List!Asked.late
  BY EmptyTable DEF List!Asked, List!Load

(* o is the queue once its n-th load, now l, has overtaken those before it. *)
OvertakenBy(o, n, l) ==
    /\ o \in Seq(List!Load) /\ Len(o) = Len(loads) /\ o[n] = l
    /\ \A m \in 1..Len(loads) :
         /\ m < n => o[m].at = loads[m].at /\ o[m].known = loads[m].known /\ o[m].late
         /\ m > n => o[m] = loads[m]

LEMMA Overtaken ==
    ASSUME loads \in Seq(List!Load), NEW n \in 1..Len(loads), NEW l \in List!Load
    PROVE  OvertakenBy(List!Overtake(n, l), n, l)
  <1> DEFINE v(m) == IF m < n THEN [loads[m] EXCEPT !.late = TRUE]
                     ELSE IF m = n THEN l ELSE loads[m]
  <1>1. DOMAIN loads = 1..Len(loads) /\ Len(loads) \in Nat
    OBVIOUS
  <1>2. \A m \in 1..Len(loads) : v(m) \in List!Load
    <2>1. \A x \in List!Load : [x EXCEPT !.late = TRUE] \in List!Load
      BY DEF List!Load
    <2>2. \A m \in 1..Len(loads) : loads[m] \in List!Load
      BY <1>1
    <2> QED
      BY <2>1, <2>2
  <1>3. \A m \in 1..Len(loads) :
            m < n => v(m).at = loads[m].at /\ v(m).known = loads[m].known /\ v(m).late
    BY <1>1 DEF List!Load
  <1>4. v(n) = l /\ \A m \in 1..Len(loads) : m > n => v(m) = loads[m]
    BY <1>1
  <1>5. List!Overtake(n, l) = [m \in 1..Len(loads) |-> v(m)]
    BY <1>1 DEF List!Overtake
  <1> HIDE DEF v
  <1> QED
    BY <1>1, <1>2, <1>3, <1>4, <1>5 DEF OvertakenBy

(* ... and then goes.                                                       *)
LEMMA OvertakenAndGone ==
    ASSUME loads \in Seq(List!Load), NEW n \in 1..Len(loads), NEW l \in List!Load,
           loads' = List!RemoveAt(List!Overtake(n, l), n)
    PROVE  /\ loads' \in Seq(List!Load) /\ Len(loads') = Len(loads) - 1
           /\ \A m \in 1..(Len(loads) - 1) :
                /\ m < n => /\ loads'[m].at = loads[m].at /\ loads'[m].known = loads[m].known
                            /\ loads'[m].late
                /\ m >= n => loads'[m] = loads[m + 1]
  <1>1. PICK o : o = List!Overtake(n, l)
    OBVIOUS
  <1>2. OvertakenBy(o, n, l)
    BY <1>1, Overtaken
  <1>3. o \in Seq(List!Load) /\ Len(o) = Len(loads) /\ n \in 1..Len(o)
    BY <1>2 DEF OvertakenBy
  <1>4. loads' = List!RemoveAt(o, n)
    BY <1>1
  <1>5. /\ loads' \in Seq(List!Load) /\ Len(loads') = Len(o) - 1
        /\ \A i \in 1..(Len(o) - 1) : loads'[i] = IF i < n THEN o[i] ELSE o[i + 1]
    BY <1>3, <1>4, RemovedFrom
  <1>6. ASSUME NEW m \in 1..(Len(loads) - 1)
        PROVE  /\ m < n => /\ loads'[m].at = loads[m].at /\ loads'[m].known = loads[m].known
                           /\ loads'[m].late
               /\ m >= n => loads'[m] = loads[m + 1]
    <2>1. m \in 1..Len(loads) /\ m + 1 \in 1..Len(loads) /\ (m >= n => m + 1 > n)
      OBVIOUS
    <2>2. loads'[m] = IF m < n THEN o[m] ELSE o[m + 1]
      BY <1>3, <1>5
    <2>3. CASE m < n
      BY <1>2, <2>1, <2>2, <2>3 DEF OvertakenBy
    <2>4. CASE m >= n
      BY <1>2, <2>1, <2>2, <2>4 DEF OvertakenBy
    <2> QED
      BY <2>3, <2>4
  <1> QED
    BY <1>3, <1>5, <1>6

LEMMA ListStarts == ASSUME ListSets, List!Init PROVE ListInv
  <1>1. 1 \in Versions /\ inUse = 1 /\ loads = <<List!Asked>> /\ raced = FALSE /\ query = FALSE
    BY DEF ListSets, List!Init
  <1>2. /\ List!Asked \in List!Load /\ List!Asked.at = "asked" /\ List!Asked.known = inUse
        /\ ~List!Asked.late
    BY <1>1, AskedLoad
  <1>3. loads \in Seq(List!Load) /\ Len(loads) = 1 /\ loads[1] = List!Asked
    BY <1>1, <1>2
  <1>4. ListTyped
    <2>1. record \in List!Table
      BY <1>1 DEF List!Init, List!Table, List!Row
    <2>2. Len(loads) <= MaxLoads /\ MaxLoads \in Nat
      BY <1>3 DEF ListSets
    <2> QED
      BY <1>1, <1>3, <2>1, <2>2, EmptyTable DEF List!Init, ListTyped
  <1>5. Indexed
    BY <1>1, EmptyTable DEF List!Init, Indexed
  <1>6. Queued /\ Settled
    BY <1>1, <1>2, <1>3 DEF ListSets, Queued, Settled
  <1> QED
    BY <1>4, <1>5, <1>6 DEF ListInv

(* A load of the types in use has been added.                               *)
LEMMA LoadAdded ==
    ASSUME ListSets, ListInv, UNCHANGED <<items, older, raced>>, Len(loads) < MaxLoads,
           NEW l \in List!Load, loads' = Append(loads, l), l.at = "asked", l.known = inUse',
           ~l.late,
           inUse' \in Versions, inUse' >= inUse
    PROVE  /\ loads' \in Seq(List!Load) /\ Len(loads') <= MaxLoads
           /\ Queued' /\ Settled'
  <1>1. loads \in Seq(List!Load) /\ MaxLoads \in Nat /\ inUse \in Nat /\ inUse' \in Nat
    BY DEF ListInv, ListTyped, ListSets
  <1>2. /\ loads' \in Seq(List!Load) /\ Len(loads') = Len(loads) + 1
        /\ loads'[Len(loads) + 1] = l
        /\ \A n \in 1..Len(loads) : loads'[n] = loads[n]
    BY <1>1
  <1>3. \A n \in 1..Len(loads) : loads[n].known \in Nat
    <2>1. \A x \in List!Load : x.known \in Nat
      BY DEF List!Load, ListSets
    <2>2. \A n \in 1..Len(loads) : loads[n] \in List!Load
      BY <1>1
    <2> QED
      BY <2>1, <2>2
  <1>4. Queued'
    BY <1>1, <1>2, <1>3 DEF ListInv, Queued
  <1>5. Settled'
    BY <1>1, <1>2 DEF ListInv, Settled
  <1> QED
    BY <1>1, <1>2, <1>4, <1>5

LEMMA AskStep == ASSUME ListSets, ListInv, List!Ask PROVE ListInv'
  <1>1. inUse \in Versions /\ inUse' = inUse /\ inUse \in Nat
    BY DEF ListSets, ListInv, ListTyped, List!Ask
  <1>2. /\ List!Asked \in List!Load /\ List!Asked.at = "asked" /\ List!Asked.known = inUse
        /\ ~List!Asked.late
    BY <1>1, AskedLoad
  <1>3. /\ UNCHANGED <<record, items, older, index, query, hits, stale, raced>>
        /\ loads' = Append(loads, List!Asked) /\ Len(loads) < MaxLoads
    BY DEF List!Ask
  <1>4. loads' \in Seq(List!Load) /\ Len(loads') <= MaxLoads /\ Queued' /\ Settled'
    BY <1>1, <1>2, <1>3, LoadAdded
  <1> QED
    BY <1>1, <1>3, <1>4 DEF ListInv, ListTyped, Indexed

LEMMA RefreshStep == ASSUME ListSets, ListInv, List!RefreshTemplates PROVE ListInv'
  <1>1. /\ inUse + 1 \in Versions /\ inUse' = inUse + 1 /\ inUse \in Versions /\ inUse \in Nat
        /\ Len(loads) < MaxLoads
    BY DEF ListSets, ListInv, ListTyped, List!RefreshTemplates
  <1>2. PICK v \in Versions : v = inUse + 1
    BY <1>1
  <1> DEFINE l == [List!Asked EXCEPT !.known = v]
  <1>3. l \in List!Load /\ l.at = "asked" /\ l.known = v /\ ~l.late
    BY EmptyTable DEF List!Asked, List!Load
  <1>4. /\ UNCHANGED <<record, items, older, query, hits, raced>> /\ stale' = query
        /\ index' = List!Found(items', {inUse'} \cup older')
    BY DEF List!RefreshTemplates, List!Rebuild
  <1>5. loads' = Append(loads, l)
    BY <1>2 DEF List!RefreshTemplates
  <1> HIDE DEF l
  <1>6. loads' \in Seq(List!Load) /\ Len(loads') <= MaxLoads /\ Queued' /\ Settled'
    BY <1>1, <1>2, <1>3, <1>4, <1>5, LoadAdded
  <1>7. ListTyped' /\ Indexed'
    BY <1>1, <1>4, <1>6 DEF ListInv, ListTyped, Indexed
  <1> QED
    BY <1>6, <1>7 DEF ListInv

LEMMA ReadStep == ASSUME ListSets, ListInv, NEW n \in DOMAIN loads, List!Read(n) PROVE ListInv'
  <1>1. /\ UNCHANGED <<record, inUse, items, older, index, query, hits, stale, raced>>
        /\ loads[n].at = "asked" /\ loads' = [loads EXCEPT ![n].at = "read", ![n].rows = record]
    BY DEF List!Read
  <1>2. /\ loads \in Seq(List!Load) /\ DOMAIN loads = 1..Len(loads) /\ loads[n] \in List!Load
        /\ record \in List!Table
    BY DEF ListInv, ListTyped
  <1>3. PICK l \in List!Load : /\ l = [[loads[n] EXCEPT !.at = "read"] EXCEPT !.rows = record]
                               /\ l.at = "read" /\ l.known = loads[n].known
                               /\ l.late = loads[n].late
    <2> DEFINE x == loads[n]
               l == [[x EXCEPT !.at = "read"] EXCEPT !.rows = record]
    <2>1. x \in List!Load
      BY <1>2
    <2> HIDE DEF x
    <2>2. l \in List!Load /\ l.at = "read" /\ l.known = x.known /\ l.late = x.late
      BY <1>2, <2>1 DEF List!Load
    <2> QED
      BY <2>2 DEF x
  <1>4. loads' = [loads EXCEPT ![n] = l]
    BY <1>1, <1>2, <1>3
  <1>5. /\ loads' \in Seq(List!Load) /\ Len(loads') = Len(loads) /\ DOMAIN loads' = 1..Len(loads)
        /\ \A m \in 1..Len(loads) : loads'[m] = IF m = n THEN l ELSE loads[m]
    BY <1>2, <1>4
  <1>6. Queued'
    BY <1>1, <1>2, <1>3, <1>5 DEF ListInv, Queued
  <1>7. Settled'
    BY <1>1, <1>2, <1>3, <1>5 DEF ListInv, Settled
  <1>8. ListTyped' /\ Indexed'
    BY <1>1, <1>5 DEF ListInv, ListTyped, Indexed
  <1> QED
    BY <1>6, <1>7, <1>8 DEF ListInv

LEMMA FailStep == ASSUME ListSets, ListInv, NEW n \in DOMAIN loads, List!Fail(n) PROVE ListInv'
  <1>1. /\ UNCHANGED <<record, inUse, items, older, index, query, hits, stale>> /\ raced' = TRUE
        /\ loads' = List!RemoveAt(loads, n)
    BY DEF List!Fail, List!Finished
  <1>2. /\ loads \in Seq(List!Load) /\ n \in 1..Len(loads) /\ Len(loads) <= MaxLoads
        /\ MaxLoads \in Nat
    BY DEF ListInv, ListTyped, ListSets
  <1>3. /\ loads' \in Seq(List!Load) /\ Len(loads') = Len(loads) - 1
        /\ \A i \in 1..(Len(loads) - 1) : loads'[i] = IF i < n THEN loads[i] ELSE loads[i + 1]
    BY <1>1, <1>2, RemovedFrom
  <1>4. Len(loads) \in Nat /\ DOMAIN loads = 1..Len(loads) /\ DOMAIN loads' = 1..(Len(loads) - 1)
    BY <1>2, <1>3
  <1>5. Queued'
    <2>1. Queued
      BY DEF ListInv
    <2>2. \A i \in DOMAIN loads' : \E j \in DOMAIN loads :
             loads'[i] = loads[j] /\ ((j = i /\ i < n) \/ (j = i + 1 /\ i >= n))
      BY <1>2, <1>3, <1>4
    <2>3. \A i \in DOMAIN loads' : loads'[i].known <= inUse'
      BY <1>1, <2>1, <2>2 DEF Queued
    <2>4. ASSUME NEW p \in DOMAIN loads', NEW q \in DOMAIN loads', p < q
          PROVE  /\ loads'[p].known <= loads'[q].known
                 /\ loads'[q].at = "shown" => loads'[p].late
      <3>1. PICK j \in DOMAIN loads : loads'[p] = loads[j]
                     /\ ((j = p /\ p < n) \/ (j = p + 1 /\ p >= n))
        BY <2>2
      <3>2. PICK k \in DOMAIN loads : loads'[q] = loads[k]
                     /\ ((k = q /\ q < n) \/ (k = q + 1 /\ q >= n))
        BY <2>2
      <3>3. j < k
        BY <1>2, <1>4, <2>4, <3>1, <3>2
      <3> QED
        BY <2>1, <3>1, <3>2, <3>3 DEF Queued
    <2> QED
      BY <2>3, <2>4 DEF Queued
  <1>6. ListTyped'
    BY <1>1, <1>2, <1>3, <1>4 DEF ListInv, ListTyped
  <1>7. Indexed' /\ Settled'
    BY <1>1 DEF ListInv, Indexed, Settled
  <1> QED
    BY <1>5, <1>6, <1>7 DEF ListInv

(* What has been overtaken is late, and the others are as they were: when   *)
(* the load stays for the older versions, and when it goes.                 *)
LEMMA LoadStays ==
    ASSUME ListSets, ListInv, UNCHANGED inUse, NEW n \in DOMAIN loads, NEW l \in List!Load,
           l.known = loads[n].known, l.late = loads[n].late, loads' = List!Overtake(n, l)
    PROVE  /\ loads' \in Seq(List!Load) /\ Len(loads') <= MaxLoads /\ Queued'
           /\ DOMAIN loads' = DOMAIN loads
           /\ \A m \in DOMAIN loads : /\ m < n => loads'[m].late
                                      /\ m = n => loads'[m] = l
                                      /\ m > n => loads'[m] = loads[m]
  <1>1. /\ loads \in Seq(List!Load) /\ Len(loads) \in Nat /\ DOMAIN loads = 1..Len(loads)
        /\ Len(loads) <= MaxLoads /\ MaxLoads \in Nat /\ n \in 1..Len(loads)
    BY DEF ListInv, ListTyped, ListSets
  <1>2. /\ loads' \in Seq(List!Load) /\ Len(loads') = Len(loads) /\ loads'[n] = l
        /\ \A m \in 1..Len(loads) :
             /\ m < n => /\ loads'[m].at = loads[m].at /\ loads'[m].known = loads[m].known
                         /\ loads'[m].late
             /\ m > n => loads'[m] = loads[m]
    <2>1. OvertakenBy(loads', n, l)
      BY <1>1, Overtaken
    <2> QED
      BY <2>1 DEF OvertakenBy
  <1>3. DOMAIN loads' = 1..Len(loads)
    BY <1>2
  <1>4. \A m \in 1..Len(loads) : loads'[m].known = loads[m].known
    BY <1>1, <1>2
  <1>5. ASSUME NEW p \in 1..Len(loads), NEW q \in 1..Len(loads), p < q, loads'[q].at = "shown"
        PROVE  loads'[p].late
    <2>1. CASE p < n
      BY <1>2, <2>1
    <2>2. CASE p >= n
      <3>1. loads'[q] = loads[q] /\ loads[p].late = loads'[p].late
        BY <1>1, <1>2, <1>5, <2>2
      <3> QED
        BY <1>1, <1>5, <3>1 DEF ListInv, Queued
    <2> QED
      BY <1>1, <2>1, <2>2
  <1>6. Queued'
    <2>1. Queued
      BY DEF ListInv
    <2> QED
      BY <1>1, <1>3, <1>4, <1>5, <2>1 DEF Queued
  <1> QED
    BY <1>1, <1>2, <1>3, <1>6

LEMMA LoadGoes ==
    ASSUME ListSets, ListInv, UNCHANGED inUse, NEW n \in DOMAIN loads, NEW l \in List!Load,
           loads' = List!RemoveAt(List!Overtake(n, l), n)
    PROVE  /\ loads' \in Seq(List!Load) /\ Len(loads') <= MaxLoads /\ Queued'
           /\ Len(loads') = Len(loads) - 1 /\ DOMAIN loads' = 1..(Len(loads) - 1)
           /\ \A m \in DOMAIN loads' : /\ m < n => loads'[m].late
                                       /\ m >= n => loads'[m] = loads[m + 1]
  <1>1. /\ loads \in Seq(List!Load) /\ Len(loads) \in Nat /\ DOMAIN loads = 1..Len(loads)
        /\ Len(loads) <= MaxLoads /\ MaxLoads \in Nat /\ n \in 1..Len(loads)
    BY DEF ListInv, ListTyped, ListSets
  <1>2. /\ loads' \in Seq(List!Load) /\ Len(loads') = Len(loads) - 1
        /\ \A m \in 1..(Len(loads) - 1) :
             /\ m < n => /\ loads'[m].at = loads[m].at /\ loads'[m].known = loads[m].known
                         /\ loads'[m].late
             /\ m >= n => loads'[m] = loads[m + 1]
    BY <1>1, OvertakenAndGone
  <1>3. DOMAIN loads' = 1..(Len(loads) - 1)
    BY <1>2
  <1>4. \A m \in 1..(Len(loads) - 1) :
           \E j \in 1..Len(loads) : /\ loads'[m].known = loads[j].known
                                    /\ loads'[m].at = loads[j].at
                                    /\ IF m < n THEN j = m ELSE j = m + 1 /\ loads'[m] = loads[j]
    <2> TAKE m \in 1..(Len(loads) - 1)
    <2>1. m \in 1..Len(loads) /\ m + 1 \in 1..Len(loads) /\ n \in Nat /\ m \in Nat
      BY <1>1
    <2>2. CASE m < n
      BY <1>2, <2>1, <2>2
    <2>3. CASE m >= n /\ ~(m < n)
      BY <1>2, <2>1, <2>3
    <2> QED
      BY <2>1, <2>2, <2>3
  <1>5. Queued
    BY DEF ListInv
  <1>6. \A m \in DOMAIN loads' : loads'[m].known <= inUse'
    BY <1>1, <1>3, <1>4, <1>5 DEF Queued
  <1>7. ASSUME NEW p \in DOMAIN loads', NEW q \in DOMAIN loads', p < q
        PROVE  /\ loads'[p].known <= loads'[q].known
               /\ loads'[q].at = "shown" => loads'[p].late
    <2>1. PICK j \in 1..Len(loads) :
            /\ loads'[p].known = loads[j].known
            /\ IF p < n THEN j = p ELSE j = p + 1 /\ loads'[p] = loads[j]
      BY <1>3, <1>4
    <2>2. PICK k \in 1..Len(loads) :
            /\ loads'[q].known = loads[k].known /\ loads'[q].at = loads[k].at
            /\ IF q < n THEN k = q ELSE k = q + 1 /\ loads'[q] = loads[k]
      BY <1>3, <1>4
    <2>3. j < k /\ p \in 1..(Len(loads) - 1)
      BY <1>1, <1>3, <1>7, <2>1, <2>2
    <2>4. loads[k].at = "shown" => loads[j].late
      BY <1>1, <1>5, <2>3 DEF Queued
    <2>5. loads'[q].at = "shown" => loads'[p].late
      BY <1>2, <1>3, <2>1, <2>2, <2>3, <2>4
    <2> QED
      BY <1>1, <1>5, <2>1, <2>2, <2>3, <2>5 DEF Queued
  <1>8. Queued'
    BY <1>6, <1>7 DEF Queued
  <1> QED
    BY <1>1, <1>2, <1>3, <1>8

LEMMA ShowStep == ASSUME ListSets, ListInv, NEW n \in DOMAIN loads, List!Show(n) PROVE ListInv'
  <1>1. /\ UNCHANGED <<record, inUse, query>>
        /\ loads[n].at = "read" /\ items' = loads[n].rows
        /\ hits' = (IF query THEN {index} ELSE {}) /\ stale' = query
        /\ raced' = (loads[n].late \/ (raced /\ ~List!Alone(n)))
        /\ index' = List!Found(items', {inUse'} \cup older')
    BY DEF List!Show, List!Rebuild
  <1>2. /\ loads \in Seq(List!Load) /\ Len(loads) \in Nat /\ DOMAIN loads = 1..Len(loads)
        /\ loads[n] \in List!Load /\ n \in 1..Len(loads)
    BY DEF ListInv, ListTyped
  <1>3. loads[n].rows \in List!Table /\ loads[n].late \in BOOLEAN
    BY <1>2 DEF List!Load
  <1>4. record' \in List!Table /\ items' \in List!Table /\ inUse' \in Versions /\ query' \in BOOLEAN
    BY <1>1, <1>3 DEF ListInv, ListTyped
  <1>5. stale' \in BOOLEAN /\ raced' \in BOOLEAN
    BY <1>1, <1>3 DEF ListInv, ListTyped
  <1>6. index \subseteq Secrets
    BY FoundRows DEF ListInv, Indexed
  <1>7. Indexed'
    BY <1>1, <1>6 DEF ListInv, ListTyped, Indexed
  <1>8. ~raced' => ~loads[n].late /\ (raced => Len(loads) = 1 /\ loads[n].known = inUse)
    BY <1>1, <1>3 DEF List!Alone, ListInv, ListTyped
  <1>9. Queued /\ Settled
    BY DEF ListInv
  (* What of the queue shows that a load of the types in use is there.      *)
  <1>10. ~raced' => \/ loads[n].known = inUse
                      \/ \E m \in DOMAIN loads : m > n /\ ~loads[m].late /\ loads[m].known = inUse
    <2>1. SUFFICES ASSUME ~raced', loads[n].known # inUse
                   PROVE  \E m \in DOMAIN loads : m > n /\ ~loads[m].late /\ loads[m].known = inUse
      OBVIOUS
    <2>2. ~raced /\ ~loads[n].late
      BY <1>8, <2>1
    <2>3. PICK m \in DOMAIN loads : ~loads[m].late /\ loads[m].known = inUse
      BY <1>9, <2>2 DEF Settled
    <2>4. loads[m].known \in Nat /\ loads[n].known \in Nat
      <3>1. \A x \in List!Load : x.known \in Nat
        BY DEF List!Load, ListSets
      <3> QED
        BY <1>2, <3>1
    <2>5. m > n
      BY <1>2, <1>9, <2>1, <2>3, <2>4 DEF Queued
    <2> QED
      BY <2>3, <2>5
  <1>11. loads[n].known = inUse /\ ~raced' =>
           \A m \in DOMAIN loads : m > n => loads[m].known = inUse
    <2>1. \A x \in List!Load : x.known \in Nat
      BY DEF List!Load, ListSets
    <2>2. \A m \in DOMAIN loads : loads[m].known \in Nat
      BY <1>2, <2>1
    <2> QED
      BY <1>2, <1>9, <2>2 DEF Queued
  <1>12. ~raced' => \A m \in DOMAIN loads : m > n => loads[m].at # "shown"
    BY <1>2, <1>8, <1>9 DEF Queued
  <1>13. CASE List!Missing(items', loads[n].known) = {}
    <2>1. older' = {} /\ loads' = List!RemoveAt(List!Overtake(n, loads[n]), n)
      BY <1>13 DEF List!Show
    <2>2. /\ loads' \in Seq(List!Load) /\ Len(loads') <= MaxLoads /\ Queued'
          /\ DOMAIN loads' = 1..(Len(loads) - 1)
          /\ \A m \in DOMAIN loads' : /\ m < n => loads'[m].late
                                      /\ m >= n => loads'[m] = loads[m + 1]
      BY <1>1, <1>2, <2>1, LoadGoes
    <2>3. ListTyped'
      BY <1>4, <1>5, <2>1, <2>2 DEF ListTyped
    <2>4. ASSUME ~raced', NEW m \in DOMAIN loads', loads'[m].at = "shown", ~loads'[m].late
          PROVE  loads'[m].rows = items'
      BY <1>2, <1>12, <2>2, <2>4
    <2>5. ASSUME \E m \in DOMAIN loads : m > n /\ ~loads[m].late /\ loads[m].known = inUse
          PROVE  Settled'
      <3>1. PICK m \in DOMAIN loads : m > n /\ ~loads[m].late /\ loads[m].known = inUse
        BY <2>5
      <3>2. m - 1 \in DOMAIN loads' /\ m - 1 >= n /\ (m - 1) + 1 = m
        BY <1>2, <2>2, <3>1
      <3>3. loads'[m - 1] = loads[m]
        BY <2>2, <3>2
      <3> QED
        BY <1>1, <2>4, <3>1, <3>2, <3>3 DEF Settled
    <2>6. ASSUME ~\E m \in DOMAIN loads : m > n /\ ~loads[m].late /\ loads[m].known = inUse
          PROVE  Settled'
      <3>1. SUFFICES ASSUME ~raced' PROVE Settled'
        BY DEF Settled
      <3>2. loads[n].known = inUse
        BY <1>10, <2>6, <3>1
      <3>3. List!Missing(items', inUse') = {}
        BY <1>1, <1>13, <3>2
      <3>4. \A m \in DOMAIN loads : m > n => loads[m].late
        BY <1>11, <2>6, <3>1, <3>2
      <3>5. ASSUME NEW m \in DOMAIN loads' PROVE loads'[m].late
        <4>1. CASE m < n
          BY <2>2, <4>1
        <4>2. CASE m >= n
          BY <1>2, <2>2, <3>4, <4>2
        <4> QED
          BY <1>2, <2>2, <4>1, <4>2
      <3> QED
        BY <2>4, <3>1, <3>3, <3>5 DEF Settled
    <2> QED
      BY <1>7, <2>2, <2>3, <2>5, <2>6 DEF ListInv
  <1>14. CASE List!Missing(items', loads[n].known) # {}
    <2>1. older' = older /\ loads' = List!Overtake(n, [loads[n] EXCEPT !.at = "shown"])
      BY <1>14 DEF List!Show
    <2>2. PICK l \in List!Load : /\ l = [loads[n] EXCEPT !.at = "shown"] /\ l.at = "shown"
                                 /\ l.known = loads[n].known /\ l.late = loads[n].late
                                 /\ l.rows = loads[n].rows
      <3>1. \A x \in List!Load :
              LET l == [x EXCEPT !.at = "shown"]
              IN  l \in List!Load /\ l.at = "shown" /\ l.known = x.known /\ l.late = x.late
                  /\ l.rows = x.rows
        BY DEF List!Load
      <3> QED
        BY <1>2, <3>1
    <2>3. loads' = List!Overtake(n, l)
      BY <2>1, <2>2
    <2>4. /\ loads' \in Seq(List!Load) /\ Len(loads') <= MaxLoads /\ Queued'
          /\ DOMAIN loads' = DOMAIN loads
          /\ \A m \in DOMAIN loads : /\ m < n => loads'[m].late
                                     /\ m = n => loads'[m] = l
                                     /\ m > n => loads'[m] = loads[m]
      BY <1>1, <2>2, <2>3, LoadStays
    <2>5. ListTyped'
      BY <1>4, <1>5, <2>1, <2>4 DEF ListInv, ListTyped
    <2>6. ASSUME ~raced', NEW m \in DOMAIN loads', loads'[m].at = "shown", ~loads'[m].late
          PROVE  loads'[m].rows = items'
      <3>1. m \in 1..Len(loads) /\ ~(m < n)
        BY <1>2, <2>4, <2>6
      <3>2. ~(m > n)
        BY <1>2, <1>12, <2>4, <2>6, <3>1
      <3>3. m = n
        BY <1>2, <3>1, <3>2
      <3> QED
        BY <1>1, <2>2, <2>4, <3>3
    <2>7. ~raced' => \E m \in DOMAIN loads' : ~loads'[m].late /\ loads'[m].known = inUse'
      <3>1. SUFFICES ASSUME ~raced'
                     PROVE  \E m \in DOMAIN loads' : ~loads'[m].late /\ loads'[m].known = inUse'
        OBVIOUS
      <3>2. CASE loads[n].known = inUse
        BY <1>1, <1>8, <2>2, <2>4, <3>1, <3>2
      <3>3. CASE \E m \in DOMAIN loads : m > n /\ ~loads[m].late /\ loads[m].known = inUse
        BY <1>1, <2>4, <3>3
      <3> QED
        BY <1>10, <3>1, <3>2, <3>3
    <2>8. Settled'
      BY <2>6, <2>7 DEF Settled
    <2> QED
      BY <1>7, <2>4, <2>5, <2>8 DEF ListInv
  <1> QED
    BY <1>13, <1>14

LEMMA ResolveStep ==
    ASSUME ListSets, ListInv, NEW n \in DOMAIN loads, List!Resolve(n)
    PROVE  ListInv'
  <1>1. /\ UNCHANGED <<record, inUse, items, query, hits>> /\ loads[n].at = "shown"
        /\ stale' = query
        /\ loads' = List!RemoveAt(List!Overtake(n, loads[n]), n)
        /\ index' = List!Found(items', {inUse'} \cup older')
    BY DEF List!Resolve, List!Rebuild
  <1>2. PICK got \in SUBSET List!Missing(loads[n].rows, loads[n].known) :
          /\ older' = got
          /\ raced' = (raced \/ loads[n].late \/ got # List!Missing(loads[n].rows, loads[n].known))
    BY DEF List!Resolve
  <1>3. /\ loads \in Seq(List!Load) /\ Len(loads) \in Nat /\ DOMAIN loads = 1..Len(loads)
        /\ loads[n] \in List!Load /\ n \in 1..Len(loads)
    BY DEF ListInv, ListTyped
  <1>4. /\ loads[n].rows \in List!Table /\ loads[n].late \in BOOLEAN
        /\ \A x \in List!Load : x.known \in Nat
    BY <1>3 DEF List!Load, ListSets
  <1>5. older' \subseteq Versions
    BY <1>2, <1>4, MissingVersions
  <1>6. /\ loads' \in Seq(List!Load) /\ Len(loads') <= MaxLoads /\ Queued'
        /\ DOMAIN loads' = 1..(Len(loads) - 1)
        /\ \A m \in DOMAIN loads' : /\ m < n => loads'[m].late
                                    /\ m >= n => loads'[m] = loads[m + 1]
    BY <1>1, <1>3, LoadGoes
  <1>7. stale' \in BOOLEAN /\ raced' \in BOOLEAN
    BY <1>1, <1>2, <1>4 DEF ListInv, ListTyped
  <1>8. ListTyped'
    BY <1>1, <1>5, <1>6, <1>7 DEF ListInv, ListTyped
  <1>9. Indexed'
    BY <1>1 DEF ListInv, ListTyped, Indexed
  <1>10. Settled'
    <2>1. SUFFICES ASSUME ~raced' PROVE Settled'
      BY DEF Settled
    <2>2. ~raced /\ ~loads[n].late /\ older' = List!Missing(loads[n].rows, loads[n].known)
      BY <1>2, <2>1
    <2>3. Queued /\ Settled
      BY DEF ListInv
    <2>4. loads[n].rows = items
      BY <1>1, <2>2, <2>3 DEF Settled
    <2>5. PICK p \in DOMAIN loads : ~loads[p].late /\ loads[p].known = inUse
      BY <2>2, <2>3 DEF Settled
    <2>6. p >= n
      BY <1>1, <1>3, <2>3, <2>5 DEF Queued
    <2>7. \A m \in DOMAIN loads : m > n => loads[m].at # "shown"
      BY <1>3, <2>2, <2>3 DEF Queued
    <2>8. ASSUME NEW m \in DOMAIN loads', loads'[m].at = "shown", ~loads'[m].late
          PROVE  loads'[m].rows = items'
      BY <1>3, <1>6, <2>7, <2>8
    <2>9. CASE p > n
      <3>1. p - 1 \in DOMAIN loads' /\ p - 1 >= n /\ (p - 1) + 1 = p
        BY <1>3, <1>6, <2>9
      <3>2. loads'[p - 1] = loads[p]
        BY <1>6, <3>1
      <3> QED
        BY <1>1, <2>5, <2>8, <3>1, <3>2 DEF Settled
    <2>10. CASE p = n
      <3>1. List!Missing(items', inUse') \subseteq older'
        BY <1>1, <2>2, <2>4, <2>5, <2>10
      <3>2. \A m \in DOMAIN loads : loads[m].known \in Nat
        BY <1>3, <1>4
      <3>3. \A m \in DOMAIN loads : m > n => loads[m].known = inUse
        BY <1>3, <2>3, <2>5, <2>10, <3>2 DEF Queued
      <3>4. CASE \E m \in DOMAIN loads' : ~loads'[m].late
        <4>1. PICK m \in DOMAIN loads' : ~loads'[m].late
          BY <3>4
        <4>2. loads'[m].known = inUse'
          BY <1>1, <1>3, <1>6, <3>3, <4>1
        <4> QED
          BY <2>8, <4>1, <4>2 DEF Settled
      <3>5. CASE \A m \in DOMAIN loads' : loads'[m].late
        BY <2>8, <3>1, <3>5 DEF Settled
      <3> QED
        BY <3>4, <3>5
    <2> QED
      BY <1>3, <2>6, <2>9, <2>10
  <1> QED
    BY <1>6, <1>8, <1>9, <1>10 DEF ListInv

LEMMA ListStep == ListSets /\ ListInv /\ [List!Next]_(List!vars) => ListInv'
  <1> SUFFICES ASSUME ListSets, ListInv, [List!Next]_(List!vars)
               PROVE  ListInv'
    OBVIOUS
  <1>1. ASSUME NEW r \in Secrets, List!Save(r) \/ List!Delete(r)
        PROVE  ListInv'
    <2>1. UNCHANGED <<inUse, items, older, index, query, hits, loads, stale, raced>>
      BY <1>1 DEF List!Save, List!Delete, List!list
    <2>2. record' \in List!Table
      <3>1. CASE List!Save(r)
        <4>1. PICK x \in List!Row : record' = [record EXCEPT ![r] = {x}]
          BY <3>1 DEF List!Save
        <4> QED
          BY <4>1 DEF ListInv, ListTyped, List!Table
      <3>2. CASE List!Delete(r)
        BY <3>2 DEF List!Delete, ListInv, ListTyped, List!Table
      <3> QED
        BY <1>1, <3>1, <3>2
    <2> QED
      BY <2>1, <2>2 DEF ListInv, ListTyped, Indexed, Queued, Settled
  <1>2. CASE List!Search
    <2>1. /\ UNCHANGED <<record, inUse, items, older, index, loads, raced>> /\ query' = ~query
          /\ hits' = (IF query' THEN {index} ELSE {}) /\ stale' = FALSE
      BY <1>2 DEF List!Search
    <2>2. query' \in BOOLEAN /\ stale' \in BOOLEAN
      BY <2>1 DEF ListInv, ListTyped
    <2>3. ListTyped'
      BY <2>1, <2>2 DEF ListInv, ListTyped
    <2>4. Indexed'
      BY <2>1, FoundRows DEF ListInv, Indexed
    <2>5. Queued' /\ Settled'
      BY <2>1 DEF ListInv, Queued, Settled
    <2> QED
      BY <2>3, <2>4, <2>5 DEF ListInv
  <1>3. CASE List!Remount
    <2>1. /\ UNCHANGED <<record, inUse>> /\ items' = List!Empty /\ older' = {} /\ index' = {}
          /\ query' = FALSE /\ hits' = {} /\ loads' = <<List!Asked>> /\ stale' = FALSE
          /\ raced' = FALSE
      BY <1>3 DEF List!Remount
    <2>2. /\ List!Asked \in List!Load /\ List!Asked.at = "asked" /\ List!Asked.known = inUse
          /\ ~List!Asked.late
      BY AskedLoad DEF ListInv, ListTyped
    <2>3. /\ loads' \in Seq(List!Load) /\ Len(loads') = 1 /\ loads'[1] = List!Asked
          /\ DOMAIN loads' = {1}
      BY <2>1, <2>2
    <2>4. ListTyped'
      <3>1. query' \in BOOLEAN /\ stale' \in BOOLEAN /\ raced' \in BOOLEAN
        BY <2>1
      <3>2. Len(loads') <= MaxLoads
        BY <2>3 DEF ListSets
      <3>3. /\ record' \in List!Table /\ inUse' \in Versions /\ items' \in List!Table
            /\ older' \subseteq Versions
        BY <2>1, EmptyTable DEF ListInv, ListTyped
      <3> QED
        BY <2>3, <3>1, <3>2, <3>3 DEF ListTyped
    <2>5. Indexed'
      BY <2>1, EmptyTable DEF Indexed
    <2>6. Queued' /\ Settled'
      <3>1. inUse \in Nat
        BY DEF ListSets, ListInv, ListTyped
      <3> QED
        BY <2>1, <2>2, <2>3, <3>1 DEF Queued, Settled
    <2> QED
      BY <2>4, <2>5, <2>6 DEF ListInv
  <1>4. CASE UNCHANGED List!vars
    BY <1>4 DEF List!vars, List!list, ListInv, ListTyped, Indexed, Queued, Settled
  <1> QED
    BY <1>1, <1>2, <1>3, <1>4, AskStep, RefreshStep, ReadStep, FailStep, ShowStep, ResolveStep
    DEF List!Next

LEMMA ListIsTyped == ListInv => List!TypeOK
  BY FoundRows DEF ListInv, ListTyped, Indexed, List!TypeOK

LEMMA ListTells == ListInv => List!ListIsTrue
  <1> SUFFICES ASSUME ListInv PROVE List!ListIsTrue
    OBVIOUS
  <1>1. List!SearchFindsWhatIsShown
    BY DEF ListInv, Indexed, List!SearchFindsWhatIsShown
  <1>2. List!ShownSecretsRender
    <2>1. loads = <<>> => DOMAIN loads = {}
      OBVIOUS
    <2> QED
      BY <2>1 DEF ListInv, Settled, List!ShownSecretsRender
  <1> QED
    BY <1>1, <1>2 DEF List!ListIsTrue

LEMMA ListHolds == List!Spec => []ListInv
  <1>1. ListSets
    BY BoundsAssumption DEF BoundsAssumption, ListSets
  <1>2. List!Init => ListInv
    BY <1>1, ListStarts
  <1>3. ListInv /\ [List!Next]_(List!vars) => ListInv'
    BY <1>1, ListStep
  <1> QED
    BY <1>2, <1>3, PTL DEF List!Spec

(* A search finds what is on the screen and no other, and once nothing is   *)
(* in flight every secret there has the version of its type to render it:   *)
(* unless the secrets were loaded anew under the query, or loads overtook   *)
(* each other.  (SecretList.tsx:110-212)                                    *)
THEOREM ListTellsTheTruth == SumSpec => []ListIsTrue
  <1>1. ListInv => ListIsTrue
    BY ListTells DEF ListIsTrue
  <1> QED
    BY <1>1, ListHolds, PartsRun, PTL

-----------------------------------------------------------------------------
(* What the screens keep of a vault *)

LEMMA ScreensTyped == Screens!TypeOK /\ [Screens!Next]_(Screens!vars) => Screens!TypeOK'
  <1> SUFFICES ASSUME Screens!TypeOK, [Screens!Next]_(Screens!vars)
               PROVE  Screens!TypeOK'
    OBVIOUS
  <1> USE DEF Screens!TypeOK, Screens!page, Screens!sharing
  <1>0. {} \in Screens!One /\ \A v \in Vaults : {v} \in Screens!One
    BY DEF Screens!One
  <1>1. CASE Screens!MembershipChanges \/ Screens!OtherChanges
    BY <1>1 DEF Screens!MembershipChanges, Screens!OtherChanges
  <1>2. ASSUME NEW v \in Vaults, Screens!SelectVault(v)
        PROVE  Screens!TypeOK'
    BY <1>0, <1>2 DEF Screens!SelectVault, Screens!Remount
  <1>3. CASE Screens!Refresh
    <2>1. selected' \in Screens!One /\ selected' \subseteq mine
      BY <1>0, <1>3 DEF Screens!Refresh
    <2>2. selected' \subseteq Vaults
      BY <2>1
    <2> QED
      BY <1>0, <1>3, <2>1, <2>2 DEF Screens!Refresh, Screens!Remount
  <1>4. CASE Screens!Loaded
    <2>1. offered' \subseteq Secrets
      BY <1>4 DEF Screens!Loaded, Screens!In
    <2> QED
      BY <1>4, <2>1 DEF Screens!Loaded
  <1>5. ASSUME NEW f \in Secrets \cup {Screens!Unfiled}, Screens!ToggleFilter(f)
        PROVE  Screens!TypeOK'
    BY <1>5 DEF Screens!ToggleFilter
  <1>6. CASE Screens!ClearFilters
    BY <1>6 DEF Screens!ClearFilters
  <1>7. ASSUME NEW f \in Secrets, Screens!RemoveFolder(f)
        PROVE  Screens!TypeOK'
    BY <1>7 DEF Screens!RemoveFolder, Screens!Remount
  <1>8. CASE Screens!OpenSharing \/ Screens!LeaveSharing
    BY <1>0, <1>8 DEF Screens!OpenSharing, Screens!LeaveSharing, Screens!One
  <1>9. ASSUME NEW v \in Vaults,
                   Screens!Answered(v) \/ Screens!Refused(v) \/ Screens!Revoked(v)
                       \/ Screens!RevokeRefused(v)
        PROVE  Screens!TypeOK'
    BY <1>0, <1>9 DEF Screens!Answered, Screens!Refused, Screens!Revoked, Screens!RevokeRefused
  <1>10. CASE Screens!Revoke
    BY <1>10 DEF Screens!Revoke
  <1>11. CASE UNCHANGED Screens!vars
    BY <1>11 DEF Screens!vars
  <1> QED
    BY <1>1, <1>2, <1>3, <1>4, <1>5, <1>6, <1>7, <1>8, <1>9, <1>10, <1>11 DEF Screens!Next

LEMMA ScreensInitTyped == Screens!Init => Screens!TypeOK
  BY DEF Screens!Init, Screens!TypeOK, Screens!One

(* The rail offers folders of the vault on the screen, and once the list has *)
(* loaded all of them; a filter not left behind is one of these.             *)
OffersTheVault ==
    /\ \A f \in offered : home[f] = Screens!None \/ {home[f]} = selected
    /\ loaded => \A f \in Secrets : home[f] # Screens!None /\ {home[f]} = selected => f \in offered
    /\ filter \in Secrets /\ ~adrift => home[filter] # Screens!None /\ {home[filter]} = selected

(* The members on the sharing screen are of the vault shown, or those of it  *)
(* have been asked for; no other screen has any.                             *)
AsksForTheVault ==
    /\ view = "vault" => table = {} /\ asking = {} /\ removing = {}
    /\ table # {} /\ ~late => selected # {} /\ (table = selected \/ selected \subseteq asking)

LEMMA ScreensStep ==
    ASSUME Screens!None \notin Secrets, Screens!Unfiled \notin Secrets
    PROVE  Screens!TypeOK /\ OffersTheVault /\ AsksForTheVault /\ [Screens!Next]_(Screens!vars)
             => OffersTheVault' /\ AsksForTheVault'
  <1> SUFFICES ASSUME Screens!TypeOK, OffersTheVault, AsksForTheVault, [Screens!Next]_(Screens!vars)
               PROVE  OffersTheVault' /\ AsksForTheVault'
    OBVIOUS
  <1> USE DEF Screens!TypeOK, OffersTheVault, AsksForTheVault, Screens!page, Screens!sharing
  <1>1. CASE Screens!MembershipChanges \/ Screens!OtherChanges
    BY <1>1 DEF Screens!MembershipChanges, Screens!OtherChanges
  <1>2. ASSUME NEW v \in Vaults, Screens!SelectVault(v)
        PROVE  OffersTheVault' /\ AsksForTheVault'
    BY <1>2 DEF Screens!SelectVault, Screens!Remount
  <1>3. CASE Screens!Refresh
    <2>1. selected' = {} => table' = {} /\ asking' = {} /\ removing' = {}
      BY <1>3 DEF Screens!Refresh
    <2>2. selected' # {} => /\ table' = table /\ late' = late /\ removing' = removing
                            /\ asking' = IF view = "sharing" /\ selected' # selected
                                           THEN asking \cup selected' ELSE asking
      BY <1>3 DEF Screens!Refresh
    <2>3. AsksForTheVault'
      BY <1>3, <2>1, <2>2 DEF Screens!Refresh
    <2>4. OffersTheVault'
      BY <1>3 DEF Screens!Refresh, Screens!Remount
    <2> QED
      BY <2>3, <2>4
  <1>4. CASE Screens!Loaded
    <2>1. PICK v \in Vaults : selected = {v}
      BY <1>4 DEF Screens!Loaded, Screens!One
    <2>2. \A f : f \in offered' <=> f \in Secrets /\ home[f] = v
      BY <1>4, <2>1 DEF Screens!Loaded, Screens!In
    <2> QED
      BY <1>4, <2>1, <2>2 DEF Screens!Loaded
  <1>5. ASSUME NEW f \in Secrets \cup {Screens!Unfiled}, Screens!ToggleFilter(f)
        PROVE  OffersTheVault' /\ AsksForTheVault'
    BY <1>5 DEF Screens!ToggleFilter
  <1>6. CASE Screens!ClearFilters
    BY <1>6 DEF Screens!ClearFilters
  <1>7. ASSUME NEW f \in Secrets, Screens!RemoveFolder(f)
        PROVE  OffersTheVault' /\ AsksForTheVault'
    <2>1. /\ home'[f] = Screens!None /\ \A g \in Secrets \ {f} : home'[g] = home[g]
          /\ UNCHANGED <<selected, filter, view, table, asking, removing, late>>
      BY <1>7 DEF Screens!RemoveFolder
    <2>2. adrift' = (adrift \/ filter = f)
      BY <1>7 DEF Screens!RemoveFolder
    <2>3. (offered' = {} /\ loaded' = FALSE) \/ UNCHANGED <<offered, loaded>>
      BY <1>7 DEF Screens!RemoveFolder, Screens!Remount
    <2>4. \A g \in offered' : g \in Secrets /\ g \in offered
      BY <2>3
    <2>5. \A g \in offered' : home'[g] = Screens!None \/ {home'[g]} = selected'
      BY <2>1, <2>4
    <2>6. loaded' => \A g \in Secrets : home'[g] # Screens!None /\ {home'[g]} = selected'
              => g \in offered'
      BY <2>1, <2>3
    <2>7. filter' \in Secrets /\ ~adrift'
              => home'[filter'] # Screens!None /\ {home'[filter']} = selected'
      BY <2>1, <2>2
    <2> QED
      BY <2>1, <2>5, <2>6, <2>7
  <1>8. CASE Screens!OpenSharing \/ Screens!LeaveSharing
    BY <1>8 DEF Screens!OpenSharing, Screens!LeaveSharing
  <1>9. ASSUME NEW v \in Vaults,
                   Screens!Answered(v) \/ Screens!Refused(v) \/ Screens!Revoked(v)
                       \/ Screens!RevokeRefused(v)
        PROVE  OffersTheVault' /\ AsksForTheVault'
    <2>1. CASE Screens!Answered(v)
      BY <2>1 DEF Screens!Answered
    <2>2. CASE Screens!Refused(v)
      BY <2>2 DEF Screens!Refused
    <2>3. CASE Screens!Revoked(v)
      BY <2>3 DEF Screens!Revoked
    <2>4. CASE Screens!RevokeRefused(v)
      BY <2>4 DEF Screens!RevokeRefused
    <2> QED
      BY <1>9, <2>1, <2>2, <2>3, <2>4
  <1>10. CASE Screens!Revoke
    BY <1>10 DEF Screens!Revoke
  <1>11. CASE UNCHANGED Screens!vars
    BY <1>11 DEF Screens!vars
  <1> QED
    BY <1>1, <1>2, <1>3, <1>4, <1>5, <1>6, <1>7, <1>8, <1>9, <1>10, <1>11 DEF Screens!Next

LEMMA ScreensInit ==
    ASSUME Screens!None \notin Secrets, Screens!Unfiled \notin Secrets
    PROVE  Screens!Init => OffersTheVault /\ AsksForTheVault
  BY DEF Screens!Init, OffersTheVault, AsksForTheVault

LEMMA ScreensFit == Screens!TypeOK /\ OffersTheVault /\ AsksForTheVault
                        => Screens!ScreensFitTheVault
  BY
  DEF Screens!TypeOK, OffersTheVault, AsksForTheVault, Screens!ScreensFitTheVault,
      Screens!FilterIsOffered, Screens!MembersAreOfTheVault

LEMMA ScreensHold == Screens!Spec => [](Screens!TypeOK /\ OffersTheVault /\ AsksForTheVault)
  <1>1. Screens!None \notin Secrets /\ Screens!Unfiled \notin Secrets
    BY NamesAssumption DEF NamesAssumption, Screens!None, Screens!Unfiled
  <1>2. Screens!Init => Screens!TypeOK /\ OffersTheVault /\ AsksForTheVault
    BY <1>1, ScreensInitTyped, ScreensInit
  <1>3. Screens!TypeOK /\ OffersTheVault /\ AsksForTheVault /\ [Screens!Next]_(Screens!vars)
           => Screens!TypeOK' /\ OffersTheVault' /\ AsksForTheVault'
    BY <1>1, ScreensTyped, ScreensStep
  <1> QED
    BY <1>2, <1>3, PTL DEF Screens!Spec

(* The folder chosen in the rail and the members on the sharing screen are  *)
(* of the vault on the screen, within the limits that the two parts of      *)
(* Screens!ScreensFitTheVault name.  (App.tsx:204-215, 346-355,             *)
(* Sharing.tsx:52-71)                                                       *)
THEOREM ScreensKeepToTheVault == SumSpec => []ScreensFitTheVault
  <1>1. Screens!TypeOK /\ OffersTheVault /\ AsksForTheVault => ScreensFitTheVault
    BY ScreensFit DEF ScreensFitTheVault
  <1> QED
    BY <1>1, ScreensHold, PartsRun, PTL

-----------------------------------------------------------------------------
(* The pane beside the list *)

(* Which of the four things the pane shows.                                 *)
PaneShows(p) ==
    /\ p \in {"choice", "add", "edit", "detail"}
    /\ p = "choice" <=> choosing
    /\ p = "add" <=> ~choosing /\ adding
    /\ p = "edit" <=> ~choosing /\ ~adding /\ editing \cap known # {}

LEMMA PaneFacts ==
    ASSUME choosing \in BOOLEAN, adding \in BOOLEAN
    PROVE  PaneShows(Pane!Pane)
  <1>1. CASE choosing
    BY <1>1 DEF Pane!Pane, PaneShows
  <1>2. CASE ~choosing /\ adding
    BY <1>2 DEF Pane!Pane, PaneShows
  <1>3. CASE ~choosing /\ ~adding /\ editing \cap known # {}
    BY <1>3 DEF Pane!Pane, PaneShows
  <1>4. CASE ~choosing /\ ~adding /\ editing \cap known = {}
    <2>1. Pane!Pane = "detail"
      BY <1>4 DEF Pane!Pane
    <2> QED
      BY <1>4, <2>1 DEF PaneShows
  <1> QED
    BY <1>1, <1>2, <1>3, <1>4

LEMMA PaneFactsNext ==
    ASSUME choosing' \in BOOLEAN, adding' \in BOOLEAN
    PROVE  /\ Pane!Pane' \in {"choice", "add", "edit", "detail"}
           /\ Pane!Pane' = "choice" <=> choosing'
           /\ Pane!Pane' = "add" <=> ~choosing' /\ adding'
           /\ Pane!Pane' = "edit" <=> ~choosing' /\ ~adding' /\ editing' \cap known' # {}
  <1>1. CASE choosing'
    BY <1>1 DEF Pane!Pane
  <1>2. CASE ~choosing' /\ adding'
    BY <1>2 DEF Pane!Pane
  <1>3. CASE ~choosing' /\ ~adding' /\ editing' \cap known' # {}
    BY <1>3 DEF Pane!Pane
  <1>4. CASE ~choosing' /\ ~adding' /\ editing' \cap known' = {}
    <2>1. Pane!Pane' = "detail"
      BY <1>4 DEF Pane!Pane
    <2> QED
      BY <1>4, <2>1
  <1> QED
    BY <1>1, <1>2, <1>3, <1>4

(* A form is there while the pane shows one, was opened on what is edited   *)
(* now, and nothing is edited under another.                                *)
OneForm ==
    /\ choosing \/ adding => editing = {}
    /\ Pane!Pane \in Pane!Forms =>
         /\ form.no \in 1..opened
         /\ form.for = IF Pane!Pane = "edit" THEN editing ELSE {}
    /\ Pane!Pane \notin Pane!Forms => form = Pane!NoForm

(* A save is for the secret its form was opened on; its form still waits on *)
(* the pane, or is known to have left it.                                   *)
CallsKnowTheirForm ==
    \A c \in sent :
        /\ c.no \in 1..opened /\ c.of = c.for /\ (c.op = "add" => c.of = {})
        /\ c.no \in gone \/ (Pane!Pane = c.op /\ form.no = c.no /\ form.for = c.for /\ form.busy)

(* A form that has created a secret it has heard of neither waits for       *)
(* another nor can ask for one.                                             *)
CreatesOnce ==
    /\ \A n \in 1..MaxLoads : n > opened => made[n] = 0
    /\ \A c \in sent : c.op = "add" /\ c.no \notin unheard => made[c.no] = 0
    /\ Pane!Pane = "add" /\ form.no \notin unheard => made[form.no] = 0

(* TypeOK, in four parts.                                                   *)
ChoiceTyped ==
    /\ filled \in [Folders -> SUBSET Secrets] /\ own \subseteq Folders
    /\ visible \subseteq Folders /\ known \subseteq Folders
    /\ picked \in Pane!Maybe /\ editing \in Pane!Maybe
    /\ choosing \in BOOLEAN /\ adding \in BOOLEAN

FormTyped == opened \in 0..MaxLoads /\ form \in Pane!Form /\ sent \subseteq Pane!Call

MasksTyped ==
    /\ revealed \subseteq Secrets /\ uncovered \subseteq Folders
    /\ wanted \subseteq Secrets \cup Folders /\ carried \subseteq Secrets \cup Folders

PastTyped ==
    /\ made \in [1..MaxLoads -> 0..2]
    /\ unheard \subseteq 1..MaxLoads /\ gone \subseteq 1..MaxLoads /\ taken \subseteq 1..MaxLoads

LEMMA TypeParts == Pane!TypeOK <=> ChoiceTyped /\ FormTyped /\ MasksTyped /\ PastTyped
  BY DEF Pane!TypeOK, ChoiceTyped, FormTyped, MasksTyped, PastTyped

PaneInv ==
    /\ ChoiceTyped /\ FormTyped /\ PastTyped
    /\ OneForm /\ CallsKnowTheirForm /\ CreatesOnce /\ Pane!SavesAreTheirForms

LEMMA RenderForm ==
    ASSUME MaxLoads \in Nat, ChoiceTyped, FormTyped, OneForm, ChoiceTyped',
           NEW f \in Pane!Form, f.no = form.no, f.for = form.for, NEW r, NEW u, NEW a,
           Pane!Render(f, r, u, a),
           Pane!Pane \in Pane!Forms /\ Pane!Pane' \in Pane!Forms
               => Pane!Pane' = Pane!Pane /\ editing' = editing
    PROVE  /\ form' \in Pane!Form /\ opened' \in opened..MaxLoads
           /\ Pane!Pane' \in Pane!Forms =>
                /\ form'.no \in 1..opened'
                /\ form'.for = IF Pane!Pane' = "edit" THEN editing' ELSE {}
           /\ Pane!Pane' \notin Pane!Forms => form' = Pane!NoForm /\ opened' = opened
           /\ Pane!Pane \in Pane!Forms /\ Pane!Pane' \in Pane!Forms => form' = f /\ opened' = opened
           /\ Pane!Pane \notin Pane!Forms /\ Pane!Pane' \in Pane!Forms =>
                /\ form'.no = opened + 1 /\ opened' = opened + 1 /\ form'.busy = FALSE
  <1> DEFINE no == opened + 1
             target == IF Pane!Pane' = "edit" THEN editing' ELSE {}
             new == [Pane!NoForm EXCEPT !.no = no, !.for = target]
  <1>n. no = opened + 1
    OBVIOUS
  <1>t. target = IF Pane!Pane' = "edit" THEN editing' ELSE {}
    OBVIOUS
  <1>1. /\ form' = IF Pane!Pane' \notin Pane!Forms THEN Pane!NoForm
                   ELSE IF Pane!Pane \in Pane!Forms THEN f ELSE new
        /\ opened' = IF form'.no > opened THEN form'.no ELSE opened
        /\ opened' <= MaxLoads
    BY DEF Pane!Render
  <1>2. target \in Pane!Maybe
    BY DEF ChoiceTyped, Pane!Maybe
  <1> HIDE DEF no, target
  <1>4. opened \in 0..MaxLoads
    BY DEF FormTyped
  <1>5. Pane!NoForm \in Pane!Form /\ Pane!NoForm.no = 0
    BY DEF Pane!NoForm, Pane!Form, Pane!Maybe
  <1>6. CASE Pane!Pane' \notin Pane!Forms
    BY <1>1, <1>4, <1>5, <1>6
  <1>7. CASE Pane!Pane \in Pane!Forms /\ Pane!Pane' \in Pane!Forms
    <2>1. f.no \in 1..opened /\ f.for = IF Pane!Pane = "edit" THEN editing ELSE {}
      BY <1>7 DEF OneForm
    <2> QED
      BY <1>1, <1>4, <1>7, <2>1
  <1>8. CASE Pane!Pane \notin Pane!Forms /\ Pane!Pane' \in Pane!Forms
    <2>1. form' = new
      BY <1>1, <1>8
    <2>2. new.no = no /\ new.for = target /\ new.busy = FALSE
      BY DEF Pane!NoForm
    <2> HIDE DEF new
    <2>a. form'.no = opened + 1
      BY <1>n, <2>1, <2>2
    <2>3. opened' = opened + 1 /\ opened + 1 <= MaxLoads
      BY <1>1, <1>4, <2>a
    <2>4. no \in 0..MaxLoads
      BY <1>4, <1>n, <2>3
    <2>5. new \in Pane!Form
      BY <1>2, <2>4 DEF Pane!Form, Pane!NoForm, new
    <2> QED
      BY <1>4, <1>8, <1>n, <1>t, <2>1, <2>2, <2>3, <2>5
  <1> QED
    BY <1>6, <1>7, <1>8

(* The pane turns, or stays, and nothing is sent or answered.               *)
LEMMA PaneTurns ==
    ASSUME MaxLoads \in Nat, PaneInv, ChoiceTyped',
           NEW r, NEW u, NEW a, Pane!Render(form, r, u, a),
           Pane!Pane \in Pane!Forms /\ Pane!Pane' \in Pane!Forms
               => Pane!Pane' = Pane!Pane /\ editing' = editing,
           choosing' \/ adding' => editing' = {},
           UNCHANGED <<sent, made, unheard, taken>>,
           Pane!Leave \/ (gone' = gone /\ (Pane!Pane \notin Pane!Forms \/ Pane!Pane' = Pane!Pane))
    PROVE  PaneInv'
  <1> USE DEF PaneInv
  <1>0. form \in Pane!Form /\ opened \in 0..MaxLoads
    BY DEF FormTyped
  <1>1. /\ form' \in Pane!Form /\ opened' \in opened..MaxLoads
        /\ Pane!Pane' \in Pane!Forms => /\ form'.no \in 1..opened'
                                         /\ form'.for = IF Pane!Pane' = "edit" THEN editing' ELSE {}
        /\ Pane!Pane' \notin Pane!Forms => form' = Pane!NoForm /\ opened' = opened
        /\ Pane!Pane \in Pane!Forms /\ Pane!Pane' \in Pane!Forms => form' = form /\ opened' = opened
        /\ Pane!Pane \notin Pane!Forms /\ Pane!Pane' \in Pane!Forms =>
             /\ form'.no = opened + 1 /\ opened' = opened + 1 /\ form'.busy = FALSE
    BY <1>0, RenderForm
  <1>2. /\ form.busy => form.no \in 1..opened
        /\ Pane!NoForm.no = 0 /\ Pane!NoForm.busy = FALSE
    BY DEF OneForm, Pane!NoForm
  <1>3. /\ gone \subseteq gone' /\ gone' \subseteq gone \cup {form.no}
        /\ gone' # gone => form.no \in 1..opened
        /\ form.busy /\ form'.no # form.no => form.no \in gone'
    BY <1>1, <1>2 DEF Pane!Leave, OneForm
  <1>4. ChoiceTyped' /\ FormTyped' /\ PastTyped'
    BY <1>0, <1>1, <1>3 DEF FormTyped, PastTyped
  <1>5. OneForm'
    BY <1>1 DEF OneForm
  <1>6. ASSUME NEW c \in sent
        PROVE  c.no \in gone'
                   \/ (Pane!Pane' = c.op /\ form'.no = c.no /\ form'.for = c.for /\ form'.busy)
    <2>1. CASE c.no \in gone
      BY <1>3, <2>1
    <2>2. CASE c.no \notin gone
      <3>1. Pane!Pane = c.op /\ form.no = c.no /\ form.for = c.for /\ form.busy
        BY <2>2 DEF CallsKnowTheirForm
      <3>2. Pane!Pane \in Pane!Forms /\ c.no >= 1
        BY <3>1 DEF Pane!Call, FormTyped, CallsKnowTheirForm, Pane!Forms, OneForm, Pane!NoForm
      <3>3. CASE Pane!Pane' \in Pane!Forms
        BY <1>1, <3>1, <3>2, <3>3
      <3>4. CASE Pane!Pane' \notin Pane!Forms
        BY <1>0, <1>1, <1>2, <1>3, <3>1, <3>2, <3>4
      <3> QED
        BY <3>3, <3>4
    <2> QED
      BY <2>1, <2>2
  <1>7. CallsKnowTheirForm'
    BY <1>0, <1>1, <1>6 DEF CallsKnowTheirForm
  <1>8. CreatesOnce'
    <2>1. \A n \in 1..MaxLoads : n > opened' => made'[n] = 0
      BY <1>0, <1>1 DEF CreatesOnce
    <2>2. Pane!Pane' = "add" /\ form'.no \notin unheard' => made'[form'.no] = 0
      BY <1>0, <1>1 DEF CreatesOnce, Pane!Forms
    <2> QED
      BY <2>1, <2>2 DEF CreatesOnce
  <1>9. Pane!SavesAreTheirForms'
    <2>1. \A n \in 1..opened' : made'[n] <= 1 \/ n \in unheard'
      BY <1>0, <1>1 DEF Pane!SavesAreTheirForms, CreatesOnce, PastTyped
    <2> QED
      BY <1>3, <2>1 DEF Pane!SavesAreTheirForms
  <1> QED
    BY <1>4, <1>5, <1>7, <1>8, <1>9

LEMMA SameCall ==
    ASSUME NEW c \in Pane!Call, NEW d \in Pane!Call,
           c.op = d.op, c.no = d.no, c.of = d.of, c.for = d.for
    PROVE  c = d
  BY DEF Pane!Call

LEMMA PaneSubmits ==
    ASSUME MaxLoads \in Nat, PaneInv, Pane!Submit
    PROVE  PaneInv'
  <1> USE DEF PaneInv
  <1> DEFINE f == [form EXCEPT !.busy = TRUE]
  <1>1. /\ Pane!Pane \in Pane!Forms /\ sent' = sent \cup {Pane!Sent}
        /\ UNCHANGED <<Pane!data, Pane!choice, Pane!history>>
        /\ Pane!Render(f, revealed, uncovered, wanted)
    BY DEF Pane!Submit
  <1>2. Pane!Pane' = Pane!Pane /\ ChoiceTyped' /\ PastTyped'
    BY <1>1 DEF Pane!data, Pane!choice, Pane!history, Pane!Pane, ChoiceTyped, PastTyped
  <1>3. f \in Pane!Form /\ f.no = form.no /\ f.for = form.for /\ f.busy = TRUE
    BY DEF FormTyped, Pane!Form
  <1>4. form' = f /\ opened' = opened /\ opened \in 0..MaxLoads
    <2> HIDE DEF f
    <2> QED
      BY <1>1, <1>2, <1>3, RenderForm DEF FormTyped, Pane!choice
  <1> HIDE DEF f
  <1>5. /\ Pane!Sent.op = Pane!Pane /\ Pane!Sent.no = form.no /\ Pane!Sent.for = form.for
        /\ Pane!Sent.of = form.for
        /\ form.no \in 1..opened
        /\ Pane!Pane = "add" => form.for = {}
    BY <1>1 DEF Pane!Sent, OneForm
  <1>6. Pane!Sent \in Pane!Call
    <2>1. form.for \in Pane!Maybe /\ form.no \in 0..MaxLoads
      BY DEF FormTyped, Pane!Form
    <2>2. (IF Pane!Pane = "edit" THEN editing ELSE {}) = form.for
      BY <1>1 DEF OneForm
    <2>3. Pane!Sent = [op |-> Pane!Pane, no |-> form.no, of |-> form.for, for |-> form.for]
      BY <2>2 DEF Pane!Sent
    <2> QED
      BY <1>1, <2>1, <2>3 DEF Pane!Call, Pane!Forms
  <1>7. FormTyped'
    BY <1>1, <1>3, <1>4, <1>6 DEF FormTyped
  <1>8. OneForm'
    BY <1>1, <1>2, <1>3, <1>4 DEF OneForm, Pane!choice
  <1>9. CallsKnowTheirForm'
    <2>1. ASSUME NEW c \in sent
          PROVE  /\ c.no \in 1..opened /\ c.of = c.for /\ (c.op = "add" => c.of = {})
                 /\ c.no \in gone \/ (Pane!Pane = c.op /\ f.no = c.no /\ f.for = c.for /\ f.busy)
      BY <1>3 DEF CallsKnowTheirForm
    <2> QED
      BY <1>1, <1>2, <1>3, <1>4, <1>5, <2>1 DEF CallsKnowTheirForm, Pane!history
  <1>10. CreatesOnce'
    BY <1>1, <1>2, <1>3, <1>4, <1>5 DEF CreatesOnce, Pane!history
  <1>11. Pane!SavesAreTheirForms'
    BY <1>1, <1>4, <1>5 DEF Pane!SavesAreTheirForms, Pane!history
  <1> QED
    BY <1>2, <1>7, <1>8, <1>9, <1>10, <1>11

(* What the server has done for a save.                                     *)
LEMMA DoneFacts ==
    ASSUME PaneInv, NEW c \in sent, Pane!Done(c)
    PROVE  /\ made' \in [1..MaxLoads -> 0..2]
           /\ \A n \in 1..MaxLoads \ {c.no} : made'[n] = made[n]
           /\ c.op # "add" => made' = made
           /\ c.no \in 1..MaxLoads /\ c.op = "add" /\ c.no \notin unheard => made'[c.no] = 1
  <1>1. made \in [1..MaxLoads -> 0..2]
    BY DEF PaneInv, PastTyped
  <1>2. c.op = "add" /\ c.no \notin unheard => made[c.no] = 0
    BY DEF PaneInv, CreatesOnce
  <1>3. CASE c.op # "add"
    BY <1>1, <1>3 DEF Pane!Done
  <1>4. CASE c.op = "add"
    <2> DEFINE more == IF made[c.no] = 0 THEN 1 ELSE 2
    <2>1. more \in 0..2 /\ (made[c.no] = 0 => more = 1)
      OBVIOUS
    <2>2. made' = [made EXCEPT ![c.no] = more]
      BY <1>4 DEF Pane!Done
    <2> HIDE DEF more
    <2> QED
      BY <1>1, <1>2, <1>4, <2>1, <2>2
  <1> QED
    BY <1>3, <1>4

(* Two saves of the form on the pane are one.                               *)
LEMMA OneCallOfTheForm ==
    ASSUME PaneInv, NEW c \in sent, NEW d \in sent, c.no = d.no
    PROVE  /\ c = d \/ c.no \in gone
           /\ c.op = "add" /\ d.op = "add" => c = d
  <1>1. /\ c \in Pane!Call /\ d \in Pane!Call
        /\ c.of = c.for /\ (c.op = "add" => c.of = {})
        /\ d.of = d.for /\ (d.op = "add" => d.of = {})
        /\ c.no \in gone \/ (Pane!Pane = c.op /\ form.for = c.for)
        /\ d.no \in gone \/ (Pane!Pane = d.op /\ form.for = d.for)
    BY DEF PaneInv, FormTyped, CallsKnowTheirForm
  <1> QED
    BY <1>1, SameCall

LEMMA PaneSaved ==
    ASSUME MaxLoads \in Nat, PaneInv, NEW c \in sent, Pane!Saved(c)
    PROVE  PaneInv'
  <1> USE DEF PaneInv
  <1>1. /\ c.op \in Pane!Forms /\ sent' = sent \ {c} /\ Pane!Done(c)
        /\ UNCHANGED <<Pane!data, picked, choosing, unheard>>
        /\ Pane!Render(form, revealed, uncovered, wanted)
        /\ taken' = taken \cup (IF form.no # 0 /\ form'.no # form.no /\ form.no # c.no
                                 THEN {c.no} ELSE {})
        /\ gone' = gone \cup (IF form.busy /\ form'.no # form.no /\ form.no # c.no
                               THEN {form.no} ELSE {})
    BY DEF Pane!Saved, Pane!Redraw
  <1>2. \/ c.op = "add"  /\ adding' = FALSE /\ editing' = editing
        \/ c.op = "edit" /\ editing' = {}   /\ adding' = adding
    BY DEF Pane!Saved
  <1>3. /\ form \in Pane!Form /\ opened \in 0..MaxLoads /\ c \in Pane!Call
        /\ c.no \in 1..opened /\ c.no \in 1..MaxLoads
    BY DEF FormTyped, CallsKnowTheirForm
  <1>4. ChoiceTyped'
    BY <1>1, <1>2 DEF ChoiceTyped, Pane!data, Pane!Maybe
  <1>5. /\ Pane!Pane = "add" <=> ~choosing /\ adding
        /\ Pane!Pane = "edit" <=> ~choosing /\ ~adding /\ editing \cap known # {}
        /\ Pane!Pane' = "add" <=> ~choosing' /\ adding'
        /\ Pane!Pane' = "edit" <=> ~choosing' /\ ~adding' /\ editing' \cap known' # {}
    BY <1>4, PaneFacts, PaneFactsNext DEF ChoiceTyped, PaneShows
  <1>6. /\ choosing \/ adding => editing = {}
        /\ choosing' = choosing /\ known' = known
    BY <1>1 DEF OneForm, Pane!data
  <1>7. Pane!Pane \in Pane!Forms /\ Pane!Pane' \in Pane!Forms
            => Pane!Pane' = Pane!Pane /\ editing' = editing
    BY <1>2, <1>5, <1>6 DEF Pane!Forms
  <1>8. choosing' \/ adding' => editing' = {}
    BY <1>2, <1>6
  <1>9. /\ form' \in Pane!Form /\ opened' \in opened..MaxLoads
        /\ Pane!Pane' \in Pane!Forms => /\ form'.no \in 1..opened'
                                         /\ form'.for = IF Pane!Pane' = "edit" THEN editing' ELSE {}
        /\ Pane!Pane' \notin Pane!Forms => form' = Pane!NoForm /\ opened' = opened
        /\ Pane!Pane \in Pane!Forms /\ Pane!Pane' \in Pane!Forms => form' = form /\ opened' = opened
        /\ Pane!Pane \notin Pane!Forms /\ Pane!Pane' \in Pane!Forms =>
             /\ form'.no = opened + 1 /\ opened' = opened + 1 /\ form'.busy = FALSE
    BY <1>1, <1>3, <1>4, <1>7, RenderForm
  <1>10. /\ made' \in [1..MaxLoads -> 0..2]
         /\ \A n \in 1..MaxLoads \ {c.no} : made'[n] = made[n]
         /\ c.op # "add" => made' = made
         /\ c.op = "add" /\ c.no \notin unheard => made'[c.no] = 1
    BY <1>1, <1>3, DoneFacts
  <1>11. /\ form.busy => form.no \in 1..opened
         /\ Pane!NoForm.no = 0 /\ Pane!NoForm.busy = FALSE
         /\ Pane!Pane \notin Pane!Forms => form.no = 0
    BY DEF OneForm, Pane!NoForm
  <1>12. /\ gone \subseteq gone' /\ gone' \subseteq 1..MaxLoads
         /\ form.busy /\ form'.no # form.no /\ form.no # c.no => form.no \in gone'
    <2>1. form.busy => form.no \in 1..MaxLoads
      BY <1>3, <1>11
    <2>2. /\ gone \subseteq gone'
          /\ (form.busy /\ form'.no # form.no /\ form.no # c.no => form.no \in gone')
      BY <1>1
    <2>3. gone' \subseteq 1..MaxLoads
      BY <1>1, <2>1 DEF PastTyped
    <2> QED
      BY <2>2, <2>3
  <1>13. FormTyped' /\ PastTyped'
    <2>1. opened' \in 0..MaxLoads /\ sent' \subseteq Pane!Call
      BY <1>1, <1>3, <1>9 DEF FormTyped
    <2>2. taken' \subseteq 1..MaxLoads /\ unheard' \subseteq 1..MaxLoads
      BY <1>1, <1>3 DEF PastTyped
    <2> QED
      BY <1>9, <1>10, <1>12, <2>1, <2>2 DEF FormTyped, PastTyped
  <1>14. OneForm'
    BY <1>8, <1>9 DEF OneForm
  <1>15. CallsKnowTheirForm'
    <2> SUFFICES ASSUME NEW d \in sent \ {c}, d.no \notin gone'
                 PROVE  Pane!Pane' = d.op /\ form'.no = d.no /\ form'.for = d.for /\ form'.busy
      BY <1>1, <1>3, <1>9 DEF CallsKnowTheirForm
    <2>1. Pane!Pane = d.op /\ form.no = d.no /\ form.for = d.for /\ form.busy
      BY <1>12 DEF CallsKnowTheirForm
    <2>2. d.no # c.no
      BY <1>12, OneCallOfTheForm
    <2>3. form'.no = form.no /\ form.no >= 1
      BY <1>3, <1>11, <1>12, <2>1, <2>2
    <2>4. Pane!Pane \in Pane!Forms /\ Pane!Pane' \in Pane!Forms
      BY <1>9, <1>11, <2>3, <2>1 DEF FormTyped, Pane!Call, Pane!Forms
    <2> QED
      BY <1>7, <1>9, <2>1, <2>4
  <1>16. CreatesOnce'
    <2>1. \A n \in 1..MaxLoads : n > opened' => made'[n] = 0
      BY <1>3, <1>9, <1>10 DEF CreatesOnce
    <2>2. ASSUME NEW d \in sent \ {c}, d.op = "add", d.no \notin unheard
          PROVE  made'[d.no] = 0
      <3>1. made[d.no] = 0 /\ d.no \in 1..MaxLoads
        BY <1>3, <2>2 DEF CreatesOnce, CallsKnowTheirForm
      <3>2. c.op = "add" => d.no # c.no
        BY <2>2, OneCallOfTheForm
      <3> QED
        BY <1>10, <3>1, <3>2
    <2>3. Pane!Pane' = "add" /\ form'.no \notin unheard' => made'[form'.no] = 0
      <3>1. Pane!Pane' = "add" => Pane!Pane = "add" /\ c.op # "add"
        BY <1>2, <1>5, <1>6
      <3> QED
        BY <1>1, <1>9, <1>10, <3>1 DEF CreatesOnce, Pane!Forms
    <2> QED
      BY <1>1, <2>1, <2>2, <2>3 DEF CreatesOnce
  <1>17. Pane!SavesAreTheirForms'
    <2>1. \A d \in sent' : d.of = d.for
      BY <1>1 DEF Pane!SavesAreTheirForms
    <2>2. ASSUME NEW n \in 1..opened'
          PROVE  made'[n] <= 1 \/ n \in unheard'
      <3>1. n \in 1..MaxLoads
        BY <1>3, <1>9
      <3>2. CASE n = c.no /\ c.op = "add"
        BY <1>1, <1>10, <3>2
      <3>3. CASE n # c.no \/ c.op # "add"
        <4>1. made'[n] = made[n]
          BY <1>10, <3>1, <3>3
        <4>2. n > opened => made[n] = 0
          BY <3>1 DEF CreatesOnce
        <4> QED
          BY <1>1, <1>3, <3>1, <4>1, <4>2 DEF Pane!SavesAreTheirForms
      <3> QED
        BY <3>2, <3>3
    <2>3. taken' \subseteq gone'
      <3>1. form.no # c.no => c.no \in gone
        BY DEF CallsKnowTheirForm
      <3> QED
        BY <1>1, <1>12, <3>1 DEF Pane!SavesAreTheirForms
    <2> QED
      BY <2>1, <2>2, <2>3 DEF Pane!SavesAreTheirForms
  <1> QED
    BY <1>4, <1>13, <1>14, <1>15, <1>16, <1>17

LEMMA PaneUnsaved ==
    ASSUME MaxLoads \in Nat, PaneInv, NEW c \in sent, Pane!Unsaved(c)
    PROVE  PaneInv'
  <1> USE DEF PaneInv
  <1> DEFINE f == IF form.no = c.no THEN [form EXCEPT !.busy = FALSE] ELSE form
  <1>1. /\ c.op \in Pane!Forms /\ sent' = sent \ {c}
        /\ UNCHANGED <<Pane!data, Pane!choice, gone, taken>>
        /\ Pane!Render(f, revealed, uncovered, wanted)
    BY DEF Pane!Unsaved
  <1>2. UNCHANGED <<made, unheard>> \/ (Pane!Done(c) /\ unheard' = unheard \cup {c.no})
    BY DEF Pane!Unsaved
  <1>3. /\ form \in Pane!Form /\ opened \in 0..MaxLoads /\ c \in Pane!Call
        /\ c.no \in 1..opened /\ c.no \in 1..MaxLoads
    BY DEF FormTyped, CallsKnowTheirForm
  <1>4. /\ f \in Pane!Form /\ f.no = form.no /\ f.for = form.for
        /\ form.no # c.no => f = form
    BY <1>3 DEF Pane!Form
  <1>5. Pane!Pane' = Pane!Pane /\ ChoiceTyped' /\ editing' = editing
    BY <1>1 DEF Pane!data, Pane!choice, Pane!Pane, ChoiceTyped
  <1> HIDE DEF f
  <1>6. /\ Pane!Pane \in Pane!Forms => form' = f /\ opened' = opened
        /\ Pane!Pane \notin Pane!Forms => form' = Pane!NoForm /\ opened' = opened
    BY <1>1, <1>3, <1>4, <1>5, RenderForm
  <1>7. /\ made' \in [1..MaxLoads -> 0..2]
        /\ \A n \in 1..MaxLoads : made'[n] = made[n] \/ (n = c.no /\ n \in unheard')
    BY <1>2, <1>3, DoneFacts DEF PastTyped
  <1>8. unheard \subseteq unheard' /\ unheard' \subseteq 1..MaxLoads
    BY <1>2, <1>3 DEF PastTyped
  <1>9. FormTyped' /\ PastTyped'
    BY <1>1, <1>3, <1>4, <1>6, <1>7, <1>8 DEF FormTyped, PastTyped, OneForm
  <1>10. OneForm'
    BY <1>1, <1>4, <1>5, <1>6 DEF OneForm, Pane!choice
  <1>11. CallsKnowTheirForm'
    <2> SUFFICES ASSUME NEW d \in sent \ {c}, d.no \notin gone
                 PROVE  Pane!Pane' = d.op /\ form'.no = d.no /\ form'.for = d.for /\ form'.busy
      BY <1>1, <1>6 DEF CallsKnowTheirForm
    <2>1. Pane!Pane = d.op /\ form.no = d.no /\ form.for = d.for /\ form.busy /\ d.op \in Pane!Forms
      BY DEF CallsKnowTheirForm, FormTyped, Pane!Call, Pane!Forms
    <2>2. d.no # c.no
      BY OneCallOfTheForm
    <2> QED
      BY <1>4, <1>5, <1>6, <2>1, <2>2
  <1>12. CreatesOnce'
    <2>1. \A n \in 1..MaxLoads : n > opened' => made'[n] = 0
      BY <1>3, <1>6, <1>7 DEF CreatesOnce
    <2>2. ASSUME NEW d \in sent', d.op = "add", d.no \notin unheard'
          PROVE  made'[d.no] = 0
      <3>1. made[d.no] = 0 /\ d.no \in 1..MaxLoads
        BY <1>1, <1>3, <1>8, <2>2 DEF CreatesOnce, CallsKnowTheirForm
      <3> QED
        BY <1>7, <2>2, <3>1
    <2>3. ASSUME Pane!Pane' = "add", form'.no \notin unheard'
          PROVE  made'[form'.no] = 0
      <3>1. form'.no = form.no /\ form.no \in 1..opened /\ Pane!Pane = "add"
        BY <1>4, <1>5, <1>6, <2>3 DEF OneForm, Pane!Forms
      <3>2. made[form.no] = 0 /\ form.no \in 1..MaxLoads
        BY <1>3, <1>8, <2>3, <3>1 DEF CreatesOnce
      <3> QED
        BY <1>7, <2>3, <3>1, <3>2
    <2> QED
      BY <2>1, <2>2, <2>3 DEF CreatesOnce
  <1>13. Pane!SavesAreTheirForms'
    BY <1>1, <1>3, <1>6, <1>7, <1>8 DEF Pane!SavesAreTheirForms
  <1> QED
    BY <1>5, <1>9, <1>10, <1>11, <1>12, <1>13

LEMMA PaneStep == ASSUME MaxLoads \in Nat PROVE PaneInv /\ [Pane!Next]_(Pane!vars) => PaneInv'
  <1> SUFFICES ASSUME PaneInv, [Pane!Next]_(Pane!vars) PROVE PaneInv'
    OBVIOUS
  <1>c. ChoiceTyped /\ OneForm
    BY DEF PaneInv
  <1>p. /\ Pane!Pane \in {"choice", "add", "edit", "detail"}
        /\ Pane!Pane = "choice" <=> choosing
        /\ Pane!Pane = "add" <=> ~choosing /\ adding
        /\ Pane!Pane = "edit" <=> ~choosing /\ ~adding /\ editing \cap known # {}
    BY <1>c, PaneFacts DEF ChoiceTyped, PaneShows
  <1>s. \A t \in Folders : {t} \in Pane!Maybe
    BY DEF Pane!Maybe
  <1>e. Pane!Open \in Pane!Maybe
    BY <1>c DEF Pane!Open, ChoiceTyped, Pane!Maybe
  <1>1. ASSUME NEW r, NEW u, NEW a, Pane!Render(form, r, u, a),
               UNCHANGED <<Pane!data, choosing, adding, editing, sent, Pane!history>>,
               picked' \in Pane!Maybe
        PROVE  PaneInv'
    <2>1. Pane!Pane' = Pane!Pane /\ ChoiceTyped'
      BY <1>1, <1>c DEF Pane!data, Pane!Pane, ChoiceTyped
    <2> QED
      BY <1>1, <1>c, <2>1, PaneTurns DEF Pane!history, OneForm
  <1>2. ASSUME NEW t \in Folders, Pane!Select(t) \/ Pane!ToggleOwn(t) PROVE PaneInv'
    <2>1. CASE Pane!Select(t)
      BY <1>1, <1>s, <2>1 DEF Pane!Select, Pane!Redraw
    <2>2. CASE Pane!ToggleOwn(t)
      BY <1>1, <1>c, <2>2 DEF Pane!ToggleOwn, Pane!choice, ChoiceTyped
    <2> QED
      BY <1>2, <2>1, <2>2
  <1>3. ASSUME NEW x \in Secrets, Pane!Toggle(x) \/ Pane!HideAgain(x) PROVE PaneInv'
    BY <1>1, <1>3, <1>c DEF Pane!Toggle, Pane!HideAgain, Pane!choice, ChoiceTyped
  <1>4. CASE Pane!backToList
    BY <1>1, <1>4 DEF Pane!backToList, Pane!Redraw, Pane!Maybe
  <1>5. ASSUME Pane!Redraw, ChoiceTyped', choosing' \/ adding' => editing' = {},
               UNCHANGED <<sent, made, unheard, taken>>,
               Pane!Leave \/ (gone' = gone /\ Pane!Pane \notin Pane!Forms),
               Pane!Pane \in Pane!Forms /\ Pane!Pane' \in Pane!Forms
                   => Pane!Pane' = Pane!Pane /\ editing' = editing
        PROVE  PaneInv'
    BY <1>5, PaneTurns DEF Pane!Redraw
  <1>6. ASSUME ChoiceTyped'
        PROVE  /\ Pane!Pane' = "choice" <=> choosing'
               /\ Pane!Pane' = "add" <=> ~choosing' /\ adding'
               /\ Pane!Pane' = "edit" <=> ~choosing' /\ ~adding' /\ editing' \cap known' # {}
    BY <1>6, PaneFactsNext DEF ChoiceTyped
  <1>7. CASE Pane!List
    <2>1. ChoiceTyped'
      BY <1>7, <1>c DEF Pane!List, Pane!choice, ChoiceTyped
    <2> QED
      BY <1>5, <1>6, <1>7, <1>c, <1>p, <2>1 DEF Pane!List, Pane!choice, OneForm, Pane!Forms
  <1>8. CASE Pane!NewSecret
    <2>1. ChoiceTyped' /\ choosing' = TRUE /\ editing' = {}
      BY <1>8, <1>c DEF Pane!NewSecret, Pane!data, ChoiceTyped, Pane!Maybe
    <2> QED
      BY <1>5, <1>6, <1>8, <2>1 DEF Pane!NewSecret, Pane!Forms
  <1>9. CASE Pane!Choose
    <2>1. ChoiceTyped' /\ Pane!Pane = "choice"
      BY <1>9, <1>c DEF Pane!Choose, Pane!data, ChoiceTyped
    <2> QED
      BY <1>5, <1>9, <1>c, <1>p, <2>1 DEF Pane!Choose, Pane!history, OneForm, Pane!Forms
  <1>10. CASE Pane!CancelChoice
    <2>1. ChoiceTyped' /\ Pane!Pane = "choice"
      BY <1>10, <1>c DEF Pane!CancelChoice, Pane!data, ChoiceTyped
    <2> QED
      BY <1>5, <1>10, <1>c, <1>p, <2>1 DEF Pane!CancelChoice, Pane!history, OneForm, Pane!Forms
  <1>11. CASE Pane!Edit
    <2>1. ChoiceTyped' /\ Pane!Pane = "detail"
      BY <1>11, <1>c, <1>e DEF Pane!Edit, Pane!data, ChoiceTyped, Pane!Open
    <2>2. ~choosing' /\ ~adding'
      BY <1>11, <1>c, <1>p, <2>1 DEF Pane!Edit, ChoiceTyped
    <2> QED
      BY <1>5, <1>11, <2>1, <2>2 DEF Pane!Edit, Pane!history, Pane!Forms
  <1>12. CASE Pane!CancelForm
    <2>1. ChoiceTyped'
      BY <1>12, <1>c DEF Pane!CancelForm, Pane!data, ChoiceTyped, Pane!Maybe
    <2>2. UNCHANGED <<choosing, known>>
      BY <1>12 DEF Pane!CancelForm, Pane!data
    <2> QED
      BY <1>5, <1>6, <1>12, <1>c, <1>p, <2>1, <2>2 DEF Pane!CancelForm, OneForm, Pane!Forms
  <1>13. CASE Pane!Submit
    BY <1>13, PaneSubmits
  <1>14. ASSUME NEW k \in sent, Pane!Saved(k) \/ Pane!Unsaved(k) PROVE PaneInv'
    BY <1>14, PaneSaved, PaneUnsaved
  <1>15. CASE UNCHANGED Pane!vars
    <2>1. Pane!Pane' = Pane!Pane
      BY <1>15 DEF Pane!vars, Pane!data, Pane!choice, Pane!Pane
    <2> QED
      BY <1>15, <2>1
      DEF Pane!vars, Pane!data, Pane!choice, Pane!history, PaneInv, ChoiceTyped, FormTyped,
          PastTyped, OneForm, CallsKnowTheirForm, CreatesOnce, Pane!SavesAreTheirForms
  <1> QED
    BY <1>2, <1>3, <1>4, <1>7, <1>8, <1>9, <1>10, <1>11, <1>12, <1>13, <1>14, <1>15 DEF Pane!Next

LEMMA PaneStarts == ASSUME MaxLoads \in Nat PROVE Pane!Init => PaneInv
  <1> SUFFICES ASSUME Pane!Init PROVE PaneInv
    OBVIOUS
  <1>1. Pane!Pane = "detail"
    BY DEF Pane!Init, Pane!Pane
  <1>2. Pane!NoForm \in Pane!Form
    BY DEF Pane!NoForm, Pane!Form, Pane!Maybe
  <1>3. ChoiceTyped
    BY DEF Pane!Init, ChoiceTyped, Pane!Maybe
  <1>4. FormTyped /\ PastTyped
    BY <1>2 DEF Pane!Init, FormTyped, PastTyped
  <1>5. OneForm /\ CallsKnowTheirForm /\ CreatesOnce /\ Pane!SavesAreTheirForms
    BY <1>1
    DEF Pane!Init, OneForm, CallsKnowTheirForm, CreatesOnce, Pane!SavesAreTheirForms, Pane!Forms
  <1> QED
    BY <1>3, <1>4, <1>5 DEF PaneInv

(* What is unmasked is a row of the secret on the pane.                     *)
RevealedHasRow == revealed \subseteq UNION {Pane!Rows(t) : t \in Pane!Open}

MasksInv == MasksTyped /\ RevealedHasRow /\ Pane!ClearWasAskedFor

(* A rendering with nothing unmasked that was not, or was not asked for.    *)
LEMMA RenderMasks ==
    ASSUME ChoiceTyped, ChoiceTyped', MasksInv, UNCHANGED <<filled, own>>,
           NEW f, NEW r \in SUBSET Secrets, NEW u \in SUBSET Folders,
           NEW a \in SUBSET (Secrets \cup Folders), Pane!Render(f, r, u, a),
           wanted \subseteq a, r \subseteq revealed \cup a, u \subseteq uncovered \cup a
    PROVE  MasksInv'
  <1> USE DEF MasksInv
  <1>1. /\ revealed' = Pane!Revealed(r) /\ uncovered' = Pane!Uncovered(u)
        /\ wanted' = IF Pane!Open' = Pane!Open THEN a ELSE {}
        /\ carried' = IF Pane!Open' = Pane!Open THEN carried \cap Pane!InClear'
                      ELSE IF Pane!Open = {} THEN {} ELSE Pane!InClear'
    BY DEF Pane!Render
  <1>2. /\ revealed' \subseteq r /\ uncovered' \subseteq u
        /\ Pane!Open = {} => revealed' = {} /\ uncovered' = {}
        /\ \A x \in revealed' : \E t \in Pane!Open' : x \in Pane!Rows(t)'
    BY <1>1 DEF Pane!Revealed, Pane!Uncovered
  <1>3. \A x : x \in Pane!InClear' <=>
          \E t \in Pane!Open' : (x \in revealed' /\ x \in Pane!Rows(t)')
              \/ (x \in uncovered' /\ x \in own /\ x = t)
    BY DEF Pane!InClear
  <1>4. \A x : x \in Pane!InClear <=>
          \E t \in Pane!Open : (x \in revealed /\ x \in Pane!Rows(t))
              \/ (x \in uncovered /\ x \in own /\ x = t)
    BY DEF Pane!InClear
  <1>5. Pane!InClear' \subseteq Secrets \cup Folders
    BY <1>2, <1>3
  <1>6. MasksTyped'
    BY <1>1, <1>2, <1>5 DEF MasksTyped
  <1>7. RevealedHasRow'
    BY <1>2 DEF RevealedHasRow
  <1>8. ASSUME NEW x \in Pane!InClear'
        PROVE  x \in wanted' \cup carried'
    <2>1. CASE Pane!Open' # Pane!Open
      BY <1>1, <1>2, <1>3, <1>8, <2>1
    <2>2. CASE Pane!Open' = Pane!Open /\ x \in a
      BY <1>1, <2>2
    <2>3. CASE Pane!Open' = Pane!Open /\ x \notin a
      <3>1. PICK t \in Pane!Open : \/ x \in revealed' /\ x \in Pane!Rows(t)'
                                   \/ x \in uncovered' /\ x \in own /\ x = t
        BY <1>3, <1>8, <2>3
      <3>2. CASE x \in revealed'
        <4>1. x \in revealed
          BY <1>2, <2>3, <3>2
        <4>2. x \in Pane!InClear
          BY <1>4, <4>1 DEF RevealedHasRow
        <4> QED
          BY <1>1, <1>8, <2>3, <4>2 DEF Pane!ClearWasAskedFor
      <3>3. CASE x \in uncovered' /\ x \in own /\ x = t
        <4>1. x \in Pane!InClear
          BY <1>2, <1>4, <2>3, <3>3
        <4> QED
          BY <1>1, <1>8, <2>3, <4>1 DEF Pane!ClearWasAskedFor
      <3> QED
        BY <3>1, <3>2, <3>3
    <2> QED
      BY <2>1, <2>2, <2>3
  <1> QED
    BY <1>6, <1>7, <1>8 DEF Pane!ClearWasAskedFor

LEMMA MasksStep == ChoiceTyped /\ ChoiceTyped' /\ MasksInv /\ [Pane!Next]_(Pane!vars) => MasksInv'
  <1> SUFFICES ASSUME ChoiceTyped, ChoiceTyped', MasksInv, [Pane!Next]_(Pane!vars)
               PROVE  MasksInv'
    OBVIOUS
  <1>0. /\ revealed \in SUBSET Secrets /\ uncovered \in SUBSET Folders
        /\ wanted \in SUBSET (Secrets \cup Folders)
    BY DEF MasksInv, MasksTyped
  <1>1. ASSUME NEW f, Pane!Render(f, revealed, uncovered, wanted), UNCHANGED <<filled, own>>
        PROVE  MasksInv'
    BY <1>0, <1>1, RenderMasks
  <1>2. ASSUME NEW t \in Folders, Pane!Select(t) PROVE MasksInv'
    BY <1>1, <1>2 DEF Pane!Select, Pane!Redraw, Pane!data
  <1>3. ASSUME NEW t \in Folders, Pane!ToggleOwn(t) PROVE MasksInv'
    <2> DEFINE u == IF t \in uncovered THEN uncovered \ {t} ELSE uncovered \cup {t}
    <2>1. Pane!Render(form, revealed, u, wanted \cup {t}) /\ UNCHANGED <<filled, own>>
      BY <1>3 DEF Pane!ToggleOwn, Pane!data
    <2>2. u \in SUBSET Folders /\ u \subseteq uncovered \cup {t}
      BY <1>0
    <2> HIDE DEF u
    <2> QED
      BY <1>0, <2>1, <2>2, RenderMasks
  <1>4. ASSUME NEW x \in Secrets, Pane!Toggle(x) PROVE MasksInv'
    <2> DEFINE r == IF x \in revealed THEN revealed \ {x} ELSE revealed \cup {x}
    <2>1. Pane!Render(form, r, uncovered, wanted \cup {x}) /\ UNCHANGED <<filled, own>>
      BY <1>4 DEF Pane!Toggle, Pane!data
    <2>2. r \in SUBSET Secrets /\ r \subseteq revealed \cup {x}
      BY <1>0
    <2> HIDE DEF r
    <2> QED
      BY <1>0, <2>1, <2>2, RenderMasks
  <1>5. ASSUME NEW x \in Secrets, Pane!HideAgain(x) PROVE MasksInv'
    <2>1. Pane!Render(form, revealed \ {x}, uncovered, wanted) /\ UNCHANGED <<filled, own>>
      BY <1>5 DEF Pane!HideAgain, Pane!data
    <2> QED
      BY <1>0, <2>1, RenderMasks
  <1>6. CASE Pane!backToList \/ Pane!List \/ Pane!NewSecret \/ Pane!Choose \/ Pane!CancelChoice
                 \/ Pane!Edit \/ Pane!CancelForm
    BY <1>1, <1>6
    DEF Pane!backToList, Pane!List, Pane!NewSecret, Pane!Choose, Pane!CancelChoice, Pane!Edit,
        Pane!CancelForm, Pane!Redraw, Pane!data
  <1>7. CASE Pane!Submit
    BY <1>1, <1>7 DEF Pane!Submit, Pane!data
  <1>8. ASSUME NEW c \in sent, Pane!Saved(c) \/ Pane!Unsaved(c) PROVE MasksInv'
    BY <1>1, <1>8 DEF Pane!Saved, Pane!Unsaved, Pane!Redraw, Pane!data
  <1>9. CASE UNCHANGED Pane!vars
    <2>1. UNCHANGED <<filled, own, visible, known, choosing, adding, editing, picked,
                      revealed, uncovered, wanted, carried>>
      BY <1>9 DEF Pane!vars, Pane!data, Pane!choice
    <2>2. Pane!Open' = Pane!Open
      BY <2>1 DEF Pane!Open, Pane!Pane
    <2>3. \A t : Pane!Rows(t)' = Pane!Rows(t)
      BY <2>1 DEF Pane!Rows
    <2>4. MasksTyped'
      BY <2>1 DEF MasksInv, MasksTyped
    <2>5. RevealedHasRow'
      BY <2>1, <2>2, <2>3 DEF MasksInv, RevealedHasRow
    <2>6. Pane!InClear' = Pane!InClear
      BY <2>1, <2>2, <2>3 DEF Pane!InClear
    <2> QED
      BY <2>1, <2>4, <2>5, <2>6 DEF MasksInv, Pane!ClearWasAskedFor
  <1> QED
    BY <1>2, <1>3, <1>4, <1>5, <1>6, <1>7, <1>8, <1>9 DEF Pane!Next

LEMMA MasksStart == Pane!Init => MasksInv
  BY DEF Pane!Init, MasksInv, MasksTyped, RevealedHasRow, Pane!ClearWasAskedFor, Pane!InClear

LEMMA PaneHolds == Pane!Spec => [](PaneInv /\ MasksInv)
  <1>1. MaxLoads \in Nat
    BY BoundsAssumption DEF BoundsAssumption
  <1>2. Pane!Init => PaneInv /\ MasksInv
    BY <1>1, PaneStarts, MasksStart
  <1>3. PaneInv /\ MasksInv /\ [Pane!Next]_(Pane!vars) => PaneInv' /\ MasksInv'
    <2>1. PaneInv /\ [Pane!Next]_(Pane!vars) => PaneInv'
      BY <1>1, PaneStep
    <2>2. (PaneInv => ChoiceTyped) /\ (PaneInv' => ChoiceTyped')
      BY DEF PaneInv
    <2> QED
      BY <2>1, <2>2, MasksStep
  <1> QED
    BY <1>2, <1>3, PTL DEF Pane!Spec

(* A sensitive value is in the clear because it was asked for on the secret *)
(* on the pane, or on the one before, whose row React has kept.             *)
(* (SecretDetail.tsx:38-90, SensitiveField.tsx:17-70)                       *)
THEOREM MasksHold == SumSpec => []ClearWasAskedFor
  <1>1. MasksInv => ClearWasAskedFor
    BY DEF MasksInv, ClearWasAskedFor
  <1> QED
    BY <1>1, PaneHolds, PartsRun, PTL

(* What is saved to a secret was typed in a form opened on it; a form       *)
(* creates one secret, unless it was not told of the first; and an answer   *)
(* closes the form it is for, unless that one went before it.               *)
(* (SecretList.tsx:277-331, TemplateForm.tsx:95-109)                        *)
THEOREM FormsSaveTheirOwn == SumSpec => []SavesAreTheirForms
  <1>1. PaneInv => SavesAreTheirForms
    BY DEF PaneInv, SavesAreTheirForms
  <1> QED
    BY <1>1, PaneHolds, PartsRun, PTL

-----------------------------------------------------------------------------
(* The types of all nine *)

LEMMA PartStays == SumSpec => [](part \in Parts)
  <1>1. SumInit => part \in Parts
    BY DEF SumInit
  <1>2. part \in Parts /\ [SumNext]_all => (part \in Parts)'
    BY DEF SumNext, all
  <1> QED
    BY <1>1, <1>2, PTL DEF SumSpec

(* Every variable of the part that moves has its type.  (All nine modules)  *)
THEOREM TypeCorrect == SumSpec => []WorkbenchTypeOK
  <1>1. Types!Spec => []Types!TypeOK
    BY Types!TypesTyped DEF Types!TypesTyped
  <1>2. Client!Spec => []Client!TypeOK
    BY Client!PageTyped DEF Client!PageTyped
  <1>3. BackupInv => Archive!TypeOK
    BY BackupTyped, BoundsAssumption DEF BoundsAssumption
  <1>4. ListInv => List!TypeOK
    BY ListIsTyped
  <1>5. PaneInv /\ MasksInv => Pane!TypeOK
    BY TypeParts DEF PaneInv, MasksInv
  <1>6. part \in Parts /\ TypeOK /\ Types!TypeOK /\ Client!TypeOK /\ Copy!TypeOK /\ Archive!TypeOK
          /\ Board!TypeOK /\ List!TypeOK /\ Screens!TypeOK /\ Pane!TypeOK => WorkbenchTypeOK
    BY DEF WorkbenchTypeOK, Parts
  <1> QED
    BY <1>1, <1>2, <1>3, <1>4, <1>5, <1>6, PartStays, PartsRun, RowsTyped, CopyTyped, BackupHolds,
       BoardHolds, ListHolds, ScreensHold, PaneHolds, PTL
=============================================================================
