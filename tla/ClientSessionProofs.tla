-------------------------- MODULE ClientSessionProofs --------------------------
(***************************************************************************)
(* What holds of one page of the application, for any accounts and any     *)
(* number of sign-ins in flight: the types, that a lock takes the workbench *)
(* off the display, and that a workbench has its timer running and is its  *)
(* owner's, but for what locks and overlapping sign-ins leave behind.      *)
(***************************************************************************)
EXTENDS ClientSession, TLAPS

Phases == {"idle", "login", "keyring", "derive", "load",
           "enter", "name", "templates", "open", "reread"}

Views == {"unlock", "register", "totp", "reauth", "workbench"}

Screens == Workbench \cup {"unlock", "register"}

LEMMA SomeoneFacts ==
    /\ {} \in Someone
    /\ \A a \in Accounts : {a} \in Someone /\ {a} # {}
    /\ \A x, y \in Someone : x \cap y \in Someone
  BY DEF Someone

(* What App returns, called on the state that a step leaves. *)
LEMMA RenderFacts ==
    ASSUME Render, screen' \in Screens
    PROVE  /\ rendered' \in Views
           /\ rendered' = "workbench" => screen' \in Workbench /\ keys' # {}
           /\ rendered' = "totp" => pending' # {}
  BY DEF Render, View, Screens, Views

LEMMA LeaveTyped == TypeOK => Leave \in Screens
  BY DEF TypeOK, Leave, Screens

LEMMA IdleTyped == Idle \in Flow /\ Idle.phase = "idle"
  BY SomeoneFacts DEF Idle, Flow

LEMMA BeginFacts ==
    ASSUME TypeOK, NEW f \in Flows, NEW phase \in Phases,
           NEW kind \in {"unlock", "register", "totp", "reauth", "again"},
           NEW who \in Someone, NEW of \in Someone, Begin(f, phase, kind, who, of)
    PROVE  /\ flow' \in [Flows -> Flow]
           /\ flow'[f].phase = phase /\ flow'[f].kind = kind /\ flow'[f].who = who
           /\ \A g \in Flows \ {f} : flow'[g] = flow[g]
  BY DEF TypeOK, Begin, Flow, Phases

LEMMA AdvanceFacts ==
    ASSUME TypeOK, NEW f \in Flows, NEW phase \in Phases, NEW of \in Someone,
           Advance(f, phase, of)
    PROVE  /\ flow' \in [Flows -> Flow]
           /\ flow'[f].phase = phase /\ flow'[f].kind = flow[f].kind /\ flow'[f].who = flow[f].who
           /\ \A g \in Flows \ {f} : flow'[g] = flow[g]
  <1> DEFINE next == [flow[f] EXCEPT !.phase = phase, !.of = of]
  <1>1. flow' = [flow EXCEPT ![f] = next] /\ flow \in [Flows -> Flow]
    BY DEF TypeOK, Advance
  <1>2. next \in Flow /\ next.phase = phase /\ next.kind = flow[f].kind /\ next.who = flow[f].who
    BY <1>1 DEF Flow, Phases
  <1> HIDE DEF next
  <1> QED
    BY <1>1, <1>2

LEMMA EndFacts ==
    ASSUME TypeOK, NEW f \in Flows, End(f)
    PROVE  /\ flow' \in [Flows -> Flow]
           /\ flow'[f].phase = "idle"
           /\ \A g \in Flows \ {f} : flow'[g] = flow[g]
  BY IdleTyped DEF TypeOK, End

LEMMA FlowTyped ==
    ASSUME TypeOK, NEW f \in Flows
    PROVE  flow[f].who \in Someone /\ flow[f].of \in Someone
  BY DEF TypeOK, Flow

LEMMA SessionTyped == TypeOK => session.who \in Someone
  BY DEF TypeOK

LEMMA InitTyped == Init => TypeOK
  <1> SUFFICES ASSUME Init
               PROVE  TypeOK
    OBVIOUS
  <1>1. flow \in [Flows -> Flow]
    BY IdleTyped DEF Init
  <1>2. session \in [who : Someone, state : {"good", "factor", "reauth"}]
    BY SomeoneFacts DEF Init
  <1> QED
    BY <1>1, <1>2, SomeoneFacts DEF Init, TypeOK

-----------------------------------------------------------------------------
(* Types *)

LEMMA LockTyped ==
    ASSUME TypeOK, AutoLock \/ LockButton \/ ReauthRequired
    PROVE  TypeOK'
  <1>1. flow' \in [Flows -> Flow]
    BY IdleTyped DEF TypeOK, AutoLock, LockButton, ReauthRequired
  <1>2. screen' \in Screens
    BY LeaveTyped DEF AutoLock, LockButton, ReauthRequired, Screens
  <1>3. rendered' \in Views
    BY <1>2, RenderFacts DEF TypeOK, Views, AutoLock, LockButton, ReauthRequired
  <1>4. behind' \in BOOLEAN /\ mixed' \in BOOLEAN
    BY DEF TypeOK, AutoLock, LockButton, ReauthRequired, Disturb
  <1> QED
    BY <1>1, <1>2, <1>3, <1>4, SomeoneFacts
    DEF TypeOK, AutoLock, LockButton, ReauthRequired, Screens, Views

LEMMA DisplayTyped ==
    ASSUME TypeOK,
           Activity \/ Repaint \/ Cancel \/ ChangedElsewhere \/ (\E s \in Screens : Navigate(s))
    PROVE  TypeOK'
  <1>1. screen' \in Screens
    BY DEF TypeOK, Screens, Activity, Repaint, Cancel, ChangedElsewhere, Navigate
  <1>2. rendered' \in Views
    BY <1>1, RenderFacts DEF TypeOK, Views, Activity, Repaint, Cancel, ChangedElsewhere, Navigate
  <1>3. session' \in [who : Someone, state : {"good", "factor", "reauth"}]
    BY DEF TypeOK, Activity, Repaint, Cancel, ChangedElsewhere, Navigate
  <1> QED
    BY <1>1, <1>2, <1>3, SomeoneFacts
    DEF TypeOK, Activity, Repaint, Cancel, ChangedElsewhere, Navigate, Screens, Views

LEMMA SignInTyped ==
    ASSUME TypeOK, NEW f \in Flows,
           \/ Submit(f) \/ LoginAnswered(f) \/ Verify(f) \/ KeyringAnswered(f)
           \/ Reauthenticate(f) \/ Unlocked(f) \/ Loaded(f) \/ Fail(f)
    PROVE  TypeOK'
  <1> USE DEF Phases
  <1>1. CASE Submit(f)
    <2> PICK a \in Accounts : Begin(f, "login", rendered, {a}, {})
      BY <1>1 DEF Submit
    <2>1. flow' \in [Flows -> Flow]
      BY <1>1, SomeoneFacts, BeginFacts DEF Submit
    <2> QED
      BY <1>1, <2>1 DEF Submit, TypeOK
  <1>2. CASE LoginAnswered(f)
    <2>1. flow' \in [Flows -> Flow]
      BY <1>2, FlowTyped, AdvanceFacts, EndFacts DEF LoginAnswered
    <2>2. rendered' \in Views
      BY <1>2, RenderFacts DEF LoginAnswered, TypeOK, Views, Screens
    <2>3. session' \in [who : Someone, state : {"good", "factor", "reauth"}] /\ pending' \in Someone
      BY <1>2, FlowTyped DEF LoginAnswered, TypeOK
    <2> QED
      BY <1>2, <2>1, <2>2, <2>3 DEF LoginAnswered, TypeOK, Views
  <1>3. CASE Verify(f)
    <2>1. flow' \in [Flows -> Flow]
      BY <1>3, SomeoneFacts, BeginFacts DEF Verify, TypeOK
    <2> QED
      BY <1>3, <2>1 DEF Verify, TypeOK
  <1>4. CASE KeyringAnswered(f)
    <2>1. flow' \in [Flows -> Flow]
      BY <1>4, SessionTyped, AdvanceFacts DEF KeyringAnswered
    <2> QED
      BY <1>4, <2>1 DEF KeyringAnswered, TypeOK
  <1>5. CASE Reauthenticate(f)
    <2>1. flow' \in [Flows -> Flow]
      BY <1>5, BeginFacts DEF Reauthenticate, TypeOK
    <2> QED
      BY <1>5, <2>1 DEF Reauthenticate, TypeOK
  <1>6. CASE Unlocked(f)
    <2>1. flow' \in [Flows -> Flow]
      BY <1>6, SomeoneFacts, AdvanceFacts DEF Unlocked
    <2> QED
      BY <1>6, <2>1, FlowTyped DEF Unlocked, Replace, TypeOK
  <1>7. CASE Loaded(f)
    <2>1. flow' \in [Flows -> Flow]
      BY <1>7, SomeoneFacts, AdvanceFacts DEF Loaded
    <2>2. rendered' \in Views
      BY <1>7, RenderFacts DEF Loaded, TypeOK, Screens
    <2> QED
      BY <1>7, <2>1, <2>2, FlowTyped, SomeoneFacts DEF Loaded, TypeOK, Views
  <1>8. CASE Fail(f)
    <2>1. flow' \in [Flows -> Flow]
      BY <1>8, SomeoneFacts, AdvanceFacts, EndFacts DEF Fail
    <2> QED
      BY <1>8, <2>1 DEF Fail, TypeOK
  <1> QED
    BY <1>1, <1>2, <1>3, <1>4, <1>5, <1>6, <1>7, <1>8

LEMMA EnterTyped ==
    ASSUME TypeOK, NEW f \in Flows,
           Again(f) \/ Listed(f) \/ Named(f) \/ Entered(f) \/ Opened(f) \/ Reread(f)
    PROVE  TypeOK'
  <1> USE DEF Phases
  <1>1. flow' \in [Flows -> Flow]
    BY SomeoneFacts, SessionTyped, BeginFacts, AdvanceFacts, EndFacts
    DEF Again, Listed, Named, Entered, Opened, Reread
  <1>2. screen' \in Screens
    BY DEF TypeOK, Screens, Workbench, Again, Listed, Named, Entered, Opened, Reread
  <1>3. rendered' \in Views
    BY <1>2, RenderFacts DEF TypeOK, Views, Again, Listed, Named, Entered, Opened, Reread
  <1>4. keys' \in Someone /\ email' \in Someone /\ names' \in Someone
    BY FlowTyped, SomeoneFacts DEF TypeOK, Again, Listed, Named, Entered, Opened, Reread
  <1>5. behind' \in BOOLEAN /\ mixed' \in BOOLEAN
    BY DEF TypeOK, Again, Listed, Named, Entered, Opened, Reread, Replace
  <1> QED
    BY <1>1, <1>2, <1>3, <1>4, <1>5
    DEF TypeOK, Screens, Views, Again, Listed, Named, Entered, Opened, Reread

LEMMA NextTyped == TypeOK /\ [Next]_vars => TypeOK'
  <1> SUFFICES ASSUME TypeOK, [Next]_vars
               PROVE  TypeOK'
    OBVIOUS
  <1>1. CASE UNCHANGED vars
    BY <1>1 DEF TypeOK, vars
  <1> QED
    BY <1>1, LockTyped, DisplayTyped, SignInTyped, EnterTyped DEF Next, Screens

(* Whatever signs in beside whatever else, every variable of the page has   *)
(* its type.  (ClientSession, all of it)                                    *)
THEOREM PageTyped == Spec => []TypeOK
  BY InitTyped, NextTyped, PTL DEF Spec

-----------------------------------------------------------------------------
(* What a lock hides *)

(* A flow that signs in, or opens a copy, has someone to do it for.         *)
SignsInSomeone ==
    \A f \in Flows : flow[f].phase \in {"login", "keyring", "derive", "load", "open", "reread"}
                     => flow[f].who # {} /\ flow[f].kind # "again"

(* React is told of every change of screen: what it shows may lag behind    *)
(* the keys, but not behind the screen.                                     *)
ShownInStep ==
    /\ rendered = "workbench" => screen \in Workbench
    /\ rendered = "totp" => pending # {}

DisplayInv == TypeOK /\ SignsInSomeone /\ ShownInStep /\ LockHidesVault

LEMMA LockDisplay ==
    ASSUME DisplayInv, AutoLock \/ LockButton \/ ReauthRequired
    PROVE  SignsInSomeone' /\ ShownInStep' /\ LockHidesVault'
  <1>1. screen' \in Screens
    BY LeaveTyped DEF DisplayInv, AutoLock, LockButton, ReauthRequired, Screens
  <1>2. SignsInSomeone'
    <2>1. \A f \in Flows : flow'[f] = flow[f] \/ flow'[f] = Idle
      BY DEF DisplayInv, TypeOK, AutoLock, LockButton, ReauthRequired
    <2> QED
      BY <2>1, IdleTyped DEF DisplayInv, SignsInSomeone
  <1>3. CASE rendered' = rendered /\ AutoLock
    BY <1>3, RenderFacts, <1>1, <1>2
    DEF DisplayInv, AutoLock, Leave, ShownInStep, LockHidesVault, Workbench
  <1>4. CASE Render /\ pending' = pending
    BY <1>4, RenderFacts, <1>1, <1>2 DEF DisplayInv, ShownInStep, LockHidesVault
  <1> QED
    BY <1>2, <1>3, <1>4 DEF AutoLock, LockButton, ReauthRequired

LEMMA ViewDisplay ==
    ASSUME DisplayInv,
           Activity \/ Repaint \/ Cancel \/ ChangedElsewhere \/ (\E s \in Screens : Navigate(s))
    PROVE  SignsInSomeone' /\ ShownInStep' /\ LockHidesVault'
  <1>1. screen' \in Screens
    BY DEF DisplayInv, TypeOK, Screens, Activity, Repaint, Cancel, ChangedElsewhere, Navigate
  <1>2. SignsInSomeone'
    BY DEF DisplayInv, SignsInSomeone, Activity, Repaint, Cancel, ChangedElsewhere, Navigate
  <1>3. CASE Render
    BY <1>3, RenderFacts, <1>1, <1>2 DEF ShownInStep, LockHidesVault
  <1>4. CASE UNCHANGED <<rendered, screen, keys, pending>>
    BY <1>4, <1>2 DEF DisplayInv, ShownInStep, LockHidesVault
  <1> QED
    BY <1>2, <1>3, <1>4 DEF Activity, Repaint, Cancel, ChangedElsewhere, Navigate

LEMMA SignInDisplay ==
    ASSUME DisplayInv, NEW f \in Flows,
           \/ Submit(f) \/ LoginAnswered(f) \/ Verify(f) \/ KeyringAnswered(f)
           \/ Reauthenticate(f) \/ Unlocked(f) \/ Loaded(f) \/ Fail(f)
    PROVE  SignsInSomeone' /\ ShownInStep' /\ LockHidesVault'
  <1> USE DEF Phases, DisplayInv
  <1>t. SignsInSomeone /\ ShownInStep
    OBVIOUS
  <1>1. SignsInSomeone'
    <2>1. CASE Submit(f)
      <3> PICK a \in Accounts : Begin(f, "login", rendered, {a}, {})
        BY <2>1 DEF Submit
      <3>1. rendered \in {"unlock", "register"} /\ {a} # {} /\ {a} \in Someone
        BY <2>1, SomeoneFacts DEF Submit
      <3>2. /\ flow'[f].kind = rendered /\ flow'[f].who = {a}
            /\ \A g \in Flows \ {f} : flow'[g] = flow[g]
        BY <3>1, SomeoneFacts, BeginFacts
      <3> QED
        BY <3>1, <3>2, <1>t DEF SignsInSomeone
    <2>2. CASE LoginAnswered(f)
      BY <2>2, <1>t, FlowTyped, AdvanceFacts, EndFacts DEF LoginAnswered, SignsInSomeone
    <2>3. CASE Verify(f)
      <3>1. pending # {} /\ pending \in Someone
        BY <2>3, <1>t DEF Verify, ShownInStep, TypeOK
      <3>2. /\ flow'[f].kind = "totp" /\ flow'[f].who = pending
            /\ \A g \in Flows \ {f} : flow'[g] = flow[g]
        BY <2>3, <3>1, SomeoneFacts, BeginFacts DEF Verify
      <3> QED
        BY <3>1, <3>2, <1>t DEF SignsInSomeone
    <2>4. CASE KeyringAnswered(f)
      BY <2>4, <1>t, SessionTyped, AdvanceFacts DEF KeyringAnswered, SignsInSomeone
    <2>5. CASE Reauthenticate(f)
      BY <2>5, <1>t, BeginFacts DEF Reauthenticate, SignsInSomeone, TypeOK
    <2>6. CASE Unlocked(f) \/ Loaded(f)
      BY <2>6, <1>t, SomeoneFacts, AdvanceFacts DEF Unlocked, Loaded, SignsInSomeone
    <2>7. CASE Fail(f)
      BY <2>7, <1>t, SomeoneFacts, AdvanceFacts, EndFacts DEF Fail, SignsInSomeone
    <2> QED
      BY <2>1, <2>2, <2>3, <2>4, <2>5, <2>6, <2>7
  <1>2. CASE Render /\ screen' = screen
    BY <1>1, <1>2, RenderFacts DEF ShownInStep, LockHidesVault, TypeOK, Screens
  <1>3. CASE UNCHANGED <<rendered, screen, keys, pending>>
    BY <1>1, <1>3 DEF ShownInStep, LockHidesVault
  <1>4. CASE Unlocked(f)
    <2>1. keys' # {}
      BY <1>4 DEF Unlocked, SignsInSomeone
    <2> QED
      BY <1>1, <1>4, <2>1 DEF Unlocked, ShownInStep, LockHidesVault
  <1> QED
    BY <1>2, <1>3, <1>4
    DEF Submit, LoginAnswered, Verify, KeyringAnswered, Reauthenticate, Loaded, Fail

LEMMA EnterDisplay ==
    ASSUME DisplayInv, NEW f \in Flows,
           Again(f) \/ Listed(f) \/ Named(f) \/ Entered(f) \/ Opened(f) \/ Reread(f)
    PROVE  SignsInSomeone' /\ ShownInStep' /\ LockHidesVault'
  <1> USE DEF Phases, DisplayInv
  <1>s. screen' \in Screens
    BY DEF TypeOK, Screens, Workbench, Again, Listed, Named, Entered, Opened, Reread
  <1>1. SignsInSomeone'
    <2>1. CASE Again(f)
      BY <2>1, SomeoneFacts, BeginFacts DEF Again, SignsInSomeone
    <2>2. CASE Listed(f)
      BY <2>2, SessionTyped, AdvanceFacts DEF Listed, SignsInSomeone
    <2>3. CASE Named(f) \/ Entered(f) \/ Opened(f) \/ Reread(f)
      BY <2>3, SomeoneFacts, AdvanceFacts, EndFacts
      DEF Named, Entered, Opened, Reread, SignsInSomeone
    <2> QED
      BY <2>1, <2>2, <2>3
  <1>2. CASE Render
    BY <1>1, <1>2, <1>s, RenderFacts DEF ShownInStep, LockHidesVault
  <1>3. CASE UNCHANGED <<rendered, screen, keys, pending>>
    BY <1>1, <1>3 DEF ShownInStep, LockHidesVault
  <1>4. CASE Opened(f)
    <2>1. keys' # {}
      BY <1>4 DEF Opened, SignsInSomeone
    <2> QED
      BY <1>1, <1>2, <1>4, <2>1 DEF Opened, ShownInStep, LockHidesVault
  <1> QED
    BY <1>2, <1>3, <1>4 DEF Again, Listed, Named, Entered, Reread

LEMMA NextDisplay == DisplayInv /\ [Next]_vars => DisplayInv'
  <1> SUFFICES ASSUME DisplayInv, [Next]_vars
               PROVE  SignsInSomeone' /\ ShownInStep' /\ LockHidesVault'
    BY NextTyped DEF DisplayInv
  <1>1. CASE UNCHANGED vars
    BY <1>1 DEF DisplayInv, SignsInSomeone, ShownInStep, LockHidesVault, vars
  <1> QED
    BY <1>1, LockDisplay, ViewDisplay, SignInDisplay, EnterDisplay DEF Next, Screens

LEMMA InitDisplay == Init => DisplayInv
  <1> SUFFICES ASSUME Init
               PROVE  SignsInSomeone /\ ShownInStep /\ LockHidesVault
    BY InitTyped DEF DisplayInv
  <1>1. \A f \in Flows : flow[f].phase = "idle"
    BY IdleTyped DEF Init
  <1> QED
    BY <1>1 DEF Init, SignsInSomeone, ShownInStep, LockHidesVault

(* No lock, by the timer, the button or the server, leaves the vault or the *)
(* settings on display without keys; the two screens that its listener does *)
(* not name are all that it can leave.  (App.tsx:175-184)                   *)
THEOREM LockedIsHidden == Spec => []LockHidesVault
  <1>1. DisplayInv => LockHidesVault
    BY DEF DisplayInv
  <1> QED
    BY <1>1, InitDisplay, NextDisplay, PTL DEF Spec

-----------------------------------------------------------------------------
(* The timer of the workbench *)

(* While no lock has left anything behind: without keys nothing is entered  *)
(* and no screen of the workbench is up, and with either the timer runs.    *)
Locked == keys = {} => screen \notin Workbench /\ \A f \in Flows : ~Entering(f)

Timed(f) == Entering(f) => armed /\ (flow[f].phase = "load" => flow[f].kind # "again")

Awake == Locked /\ (screen \in Workbench => armed) /\ \A f \in Flows : Timed(f)

AwakeInv == DisplayInv /\ (~behind => Awake)

(* What a lock has left behind stays so.                                    *)
LEMMA BehindStays ==
    ASSUME [Next]_vars, ~behind'
    PROVE  ~behind
  BY DEF Next, vars, Submit, LoginAnswered, Verify, KeyringAnswered, Reauthenticate, Unlocked,
         Loaded, Fail, Again, Listed, Named, Entered, Opened, Reread, Navigate, AutoLock, LockButton,
         ReauthRequired, Activity, Repaint, Cancel, ChangedElsewhere, Disturb, Replace

(* A lock that leaves nothing behind found no keys, or left the sign-in     *)
(* screen and nobody entering.                                              *)
LEMMA LockLeaves ==
    ASSUME AwakeInv, ~behind, ~behind', AutoLock \/ LockButton \/ ReauthRequired
    PROVE  /\ keys' = {} /\ screen' \notin Workbench
           /\ \A f \in Flows : ~(flow'[f].phase \in {"load", "enter", "name", "templates", "reread"})
  <1> USE DEF AwakeInv, DisplayInv
  <1>1. keys' = {}
    BY DEF AutoLock, LockButton, ReauthRequired
  <1>2. screen' \notin Workbench
    <2>1. CASE keys = {}
      BY <2>1 DEF Awake, Locked, AutoLock, LockButton, ReauthRequired, Leave, Workbench
    <2>2. CASE keys # {}
      BY <2>2 DEF AutoLock, LockButton, ReauthRequired, Disturb, Workbench
    <2> QED
      BY <2>1, <2>2
  <1>3. \A f \in Flows : ~Entering(f)
    BY DEF Awake, Locked, AutoLock, LockButton, ReauthRequired, Disturb
  <1>4. \A f \in Flows : flow'[f] = flow[f] \/ flow'[f] = Idle
    BY DEF TypeOK, AutoLock, LockButton, ReauthRequired
  <1>5. \A f \in Flows : ~(flow'[f].phase \in {"load", "enter", "name", "templates", "reread"})
    BY <1>3, <1>4, IdleTyped DEF Entering
  <1> QED
    BY <1>1, <1>2, <1>5

LEMMA LockAwake ==
    ASSUME AwakeInv, ~behind, ~behind', AutoLock \/ LockButton \/ ReauthRequired
    PROVE  Awake'
  BY LockLeaves DEF Awake, Locked, Timed, Entering

LEMMA ViewAwake ==
    ASSUME AwakeInv, ~behind,
           Activity \/ Repaint \/ Cancel \/ ChangedElsewhere \/ (\E s \in Screens : Navigate(s))
    PROVE  Awake'
  <1> USE DEF AwakeInv, DisplayInv
  <1>1. CASE Activity
    BY <1>1 DEF Activity, Awake, Locked, Timed, Entering
  <1>2. CASE Repaint \/ Cancel \/ ChangedElsewhere
    BY <1>2 DEF Repaint, Cancel, ChangedElsewhere, Awake, Locked, Timed, Entering
  <1>3. ASSUME NEW s \in Screens, Navigate(s)
        PROVE  Awake'
    <2>1. screen' \in Workbench => screen \in Workbench
      BY <1>3 DEF Navigate, ShownInStep, Workbench
    <2> QED
      BY <1>3, <2>1 DEF Navigate, Awake, Locked, Timed, Entering
  <1> QED
    BY <1>1, <1>2, <1>3

(* A flow that goes on without changing the page, and enters nothing: a     *)
(* form is submitted, answered, or fails.                                   *)
LEMMA OutsideFacts ==
    ASSUME DisplayInv, NEW f \in Flows,
           \/ Submit(f) \/ LoginAnswered(f) \/ Verify(f) \/ KeyringAnswered(f)
           \/ Reauthenticate(f) \/ Fail(f)
    PROVE  /\ UNCHANGED <<keys, armed, email, names, screen, behind, mixed>>
           /\ \A g \in Flows \ {f} : flow'[g] = flow[g]
           /\ ~(flow'[f].phase \in {"load", "enter", "name", "templates", "reread"})
  <1> USE DEF DisplayInv, Phases
  <1>1. CASE Submit(f)
    <2> PICK a \in Accounts : Begin(f, "login", rendered, {a}, {})
      BY <1>1 DEF Submit
    <2>1. rendered \in {"unlock", "register"} /\ {a} \in Someone
      BY <1>1, SomeoneFacts DEF Submit
    <2>2. flow'[f].phase = "login" /\ \A g \in Flows \ {f} : flow'[g] = flow[g]
      BY <2>1, SomeoneFacts, BeginFacts
    <2> QED
      BY <1>1, <2>2 DEF Submit
  <1>2. CASE LoginAnswered(f) \/ KeyringAnswered(f) \/ Fail(f)
    <2>1. /\ flow'[f].phase \in {"derive", "idle", "open"}
          /\ \A g \in Flows \ {f} : flow'[g] = flow[g]
      BY <1>2, FlowTyped, SessionTyped, SomeoneFacts, AdvanceFacts, EndFacts
      DEF LoginAnswered, KeyringAnswered, Fail
    <2> QED
      BY <1>2, <2>1 DEF LoginAnswered, KeyringAnswered, Fail
  <1>3. CASE Verify(f) \/ Reauthenticate(f)
    <2>1. /\ flow'[f].phase \in {"keyring", "derive"}
          /\ \A g \in Flows \ {f} : flow'[g] = flow[g]
      BY <1>3, SomeoneFacts, BeginFacts DEF Verify, Reauthenticate, TypeOK
    <2> QED
      BY <1>3, <2>1 DEF Verify, Reauthenticate
  <1> QED
    BY <1>1, <1>2, <1>3

LEMMA OutsideAwake ==
    ASSUME AwakeInv, ~behind, NEW f \in Flows,
           \/ Submit(f) \/ LoginAnswered(f) \/ Verify(f) \/ KeyringAnswered(f)
           \/ Reauthenticate(f) \/ Fail(f)
    PROVE  Awake'
  BY OutsideFacts DEF AwakeInv, Awake, Locked, Timed, Entering

(* The keys of an account come.                                             *)
LEMMA KeysFacts ==
    ASSUME DisplayInv, NEW f \in Flows, Unlocked(f) \/ Opened(f)
    PROVE  /\ flow[f].phase \in {"derive", "open"} /\ flow[f].kind # "again"
           /\ keys' = flow[f].who /\ keys' # {}
           /\ flow'[f].phase \in {"idle", "load", "reread"}
           /\ flow'[f].phase # "idle" => /\ flow'[f].kind # "again" /\ flow'[f].who = flow[f].who
                                         /\ armed'
           /\ \A g \in Flows \ {f} : flow'[g] = flow[g]
           /\ UNCHANGED <<names, screen, behind>>
           /\ armed => armed'
           /\ email' = email \/ email' = keys'
           /\ flow'[f].phase = "reread" => email' = keys'
  <1> USE DEF DisplayInv, Phases
  <1>1. flow[f].phase \in {"derive", "open"} /\ flow[f].who # {} /\ flow[f].kind # "again"
    BY DEF SignsInSomeone, Unlocked, Opened
  <1>2. keys' = flow[f].who
    BY DEF Unlocked, Opened
  <1>3. /\ flow'[f].phase \in {"idle", "load", "reread"}
        /\ flow'[f].phase # "idle" => flow'[f].kind # "again" /\ flow'[f].who = flow[f].who
        /\ \A g \in Flows \ {f} : flow'[g] = flow[g]
    BY <1>1, SomeoneFacts, AdvanceFacts, EndFacts DEF Unlocked, Opened
  <1>4. /\ UNCHANGED <<names, screen, behind>>
        /\ flow'[f].phase # "idle" => armed'
        /\ armed => armed'
        /\ email' = email \/ email' = keys'
        /\ flow'[f].phase = "reread" => email' = keys'
    BY <1>2, SomeoneFacts, AdvanceFacts, EndFacts DEF Unlocked, Opened, Replace
  <1> QED
    BY <1>1, <1>2, <1>3, <1>4

LEMMA KeysAwake ==
    ASSUME AwakeInv, ~behind, NEW f \in Flows, Unlocked(f) \/ Opened(f)
    PROVE  Awake'
  BY KeysFacts DEF AwakeInv, Awake, Locked, Timed, Entering

(* An entry, or a refresh of the list, goes on.                             *)
LEMMA EnterFacts ==
    ASSUME DisplayInv, NEW f \in Flows,
           Loaded(f) \/ Again(f) \/ Listed(f) \/ Named(f) \/ Entered(f) \/ Reread(f)
    PROVE  /\ UNCHANGED <<keys, armed, behind, mixed>>
           /\ flow'[f].phase # "load"
           /\ \A g \in Flows \ {f} : flow'[g] = flow[g]
  BY SomeoneFacts, SessionTyped, BeginFacts, AdvanceFacts, EndFacts
  DEF DisplayInv, Phases, Loaded, Again, Listed, Named, Entered, Reread

LEMMA EnterAwake ==
    ASSUME AwakeInv, ~behind, NEW f \in Flows,
           Loaded(f) \/ Again(f) \/ Listed(f) \/ Named(f) \/ Entered(f) \/ Reread(f)
    PROVE  Awake'
  <1> USE DEF AwakeInv, DisplayInv
  <1>1. keys # {} /\ armed
    BY DEF Loaded, Again, Listed, Named, Entered, Reread, ShownInStep, Awake, Locked, Timed, Entering
  <1> QED
    BY <1>1, EnterFacts DEF Awake, Locked, Timed, Entering

LEMMA NextAwake == AwakeInv /\ [Next]_vars => AwakeInv'
  <1> SUFFICES ASSUME AwakeInv, [Next]_vars, ~behind'
               PROVE  Awake'
    BY NextDisplay DEF AwakeInv
  <1>1. ~behind
    BY BehindStays
  <1>2. CASE UNCHANGED vars
    BY <1>1, <1>2 DEF AwakeInv, Awake, Locked, Timed, Entering, vars
  <1> QED
    BY <1>1, <1>2, LockAwake, ViewAwake, OutsideAwake, KeysAwake, EnterAwake DEF Next, Screens

LEMMA InitAwake == Init => AwakeInv
  <1> SUFFICES ASSUME Init
               PROVE  Awake
    BY InitDisplay DEF AwakeInv
  <1>1. \A f \in Flows : flow[f].phase = "idle"
    BY IdleTyped DEF Init
  <1> QED
    BY <1>1 DEF Init, Awake, Locked, Timed, Entering, Workbench

(* However it was opened, by a password, a second factor or from the copy   *)
(* of the device, and whosever sign-ins overlap, a workbench on display has *)
(* its timer running, until a lock leaves a screen or an entry behind.      *)
(* (auto-lock.ts:21-31, 75-76)                                              *)
THEOREM ArmedWhenOpen == Spec => []OpenIsArmed
  <1>1. AwakeInv => OpenIsArmed
    BY DEF AwakeInv, DisplayInv, ShownInStep, Awake, OpenIsArmed
  <1> QED
    BY <1>1, InitAwake, NextAwake, PTL DEF Spec

-----------------------------------------------------------------------------
(* Whose the workbench is *)

(* While, besides, no account's keys have taken the place of another's: an  *)
(* entry holds the keys it unlocked; and the address, then the names, are   *)
(* the owner's before the workbench is.                                     *)
HoldsItsKeys(f) ==
    /\ Entering(f) /\ flow[f].kind # "again" => keys = flow[f].who
    /\ Entering(f) /\ flow[f].phase # "load" => email = keys
    /\ flow[f].phase = "templates" => names \subseteq keys

Owned == screen \in Workbench => email = keys /\ names \subseteq keys

Calm == Owned /\ \A f \in Flows : HoldsItsKeys(f)

CalmInv == AwakeInv /\ (~behind /\ ~mixed => Calm)

(* A page without keys that enters nothing is nobody's, whoever's keys were *)
(* mixed in it before.                                                      *)
LEMMA LockCalm ==
    ASSUME AwakeInv, ~behind, ~behind', AutoLock \/ LockButton \/ ReauthRequired
    PROVE  Calm'
  BY LockLeaves DEF Calm, Owned, HoldsItsKeys, Entering

(* Nothing but such a lock makes an end of the mixing.                      *)
LEMMA MixedStays ==
    ASSUME [Next]_vars, ~mixed', ~(AutoLock \/ LockButton \/ ReauthRequired)
    PROVE  ~mixed
  BY DEF Next, vars, Submit, LoginAnswered, Verify, KeyringAnswered, Reauthenticate, Unlocked,
         Loaded, Fail, Again, Listed, Named, Entered, Opened, Reread, Navigate, Activity, Repaint,
         Cancel, ChangedElsewhere, Replace

LEMMA ViewCalm ==
    ASSUME CalmInv, ~behind, ~mixed,
           Activity \/ Repaint \/ Cancel \/ ChangedElsewhere \/ (\E s \in Screens : Navigate(s))
    PROVE  Calm'
  <1> USE DEF CalmInv, AwakeInv, DisplayInv
  <1>1. CASE Activity \/ Repaint \/ Cancel \/ ChangedElsewhere
    BY <1>1 DEF Activity, Repaint, Cancel, ChangedElsewhere, Calm, Owned, HoldsItsKeys, Entering
  <1>2. ASSUME NEW s \in Screens, Navigate(s)
        PROVE  Calm'
    <2>1. screen' \in Workbench => screen \in Workbench
      BY <1>2 DEF Navigate, ShownInStep, Workbench
    <2> QED
      BY <1>2, <2>1 DEF Navigate, Calm, Owned, HoldsItsKeys, Entering
  <1> QED
    BY <1>1, <1>2

LEMMA OutsideCalm ==
    ASSUME CalmInv, ~behind, ~mixed, NEW f \in Flows,
           \/ Submit(f) \/ LoginAnswered(f) \/ Verify(f) \/ KeyringAnswered(f)
           \/ Reauthenticate(f) \/ Fail(f)
    PROVE  Calm'
  <1>1. DisplayInv /\ Calm
    BY DEF CalmInv, AwakeInv
  <1> QED
    BY <1>1, OutsideFacts DEF Calm, Owned, HoldsItsKeys, Entering

(* Keys that come take nobody's place.                                      *)
LEMMA KeysCalm ==
    ASSUME CalmInv, ~behind, ~mixed, ~mixed', NEW f \in Flows, Unlocked(f) \/ Opened(f)
    PROVE  Calm'
  <1>i. DisplayInv /\ Awake /\ Calm
    BY DEF CalmInv, AwakeInv
  <1>k. keys = {} \/ keys' = keys
    <2>1. keys' = flow[f].who /\ Replace(flow[f].who)
      BY DEF Unlocked, Opened
    <2> QED
      BY <2>1 DEF Replace
  <1>1. CASE keys = {}
    <2>1. screen \notin Workbench /\ \A g \in Flows : ~Entering(g)
      BY <1>1, <1>i DEF Awake, Locked
    <2> QED
      BY <2>1, <1>i, KeysFacts DEF Calm, Owned, HoldsItsKeys, Entering
  <1>2. CASE keys' = keys
    BY <1>2, <1>i, KeysFacts DEF Calm, Owned, HoldsItsKeys, Entering
  <1> QED
    BY <1>1, <1>2, <1>k

LEMMA EnterCalm ==
    ASSUME CalmInv, ~behind, ~mixed, NEW f \in Flows,
           Loaded(f) \/ Again(f) \/ Listed(f) \/ Named(f) \/ Entered(f) \/ Reread(f)
    PROVE  Calm'
  <1> USE DEF CalmInv, AwakeInv, DisplayInv, Phases
  <1>u. UNCHANGED keys /\ keys # {} /\ \A g \in Flows \ {f} : flow'[g] = flow[g]
    BY EnterFacts
    DEF Loaded, Again, Listed, Named, Entered, Reread, ShownInStep, Awake, Locked, Entering
  <1>o. \A g \in Flows \ {f} : flow'[g].kind = flow[g].kind /\ flow'[g].who = flow[g].who
    BY <1>u
  <1>1. CASE Loaded(f)
    <2>1. flow[f].phase = "load" /\ flow[f].kind # "again" /\ keys = flow[f].who
      BY <1>1 DEF Loaded, Awake, Timed, Calm, HoldsItsKeys, Entering
    <2>2. flow'[f].phase = "enter" /\ flow'[f].kind = flow[f].kind /\ flow'[f].who = flow[f].who
      BY <1>1, SomeoneFacts, AdvanceFacts DEF Loaded
    <2> QED
      BY <1>1, <1>u, <2>1, <2>2 DEF Loaded, Calm, Owned, HoldsItsKeys, Entering
  <1>2. CASE Again(f)
    <2>1. screen \in Workbench /\ email = keys
      BY <1>2 DEF Again, ShownInStep, Calm, Owned
    <2>2. flow'[f].phase = "enter" /\ flow'[f].kind = "again"
      BY <1>2, SomeoneFacts, BeginFacts DEF Again
    <2> QED
      BY <1>2, <1>u, <2>1, <2>2 DEF Again, Calm, Owned, HoldsItsKeys, Entering
  <1>3. CASE Listed(f)
    <2>1. flow'[f].phase = "name" /\ flow'[f].kind = flow[f].kind /\ flow'[f].who = flow[f].who
      BY <1>3, SessionTyped, AdvanceFacts DEF Listed
    <2> QED
      BY <1>3, <1>u, <2>1 DEF Listed, Calm, Owned, HoldsItsKeys, Entering
  <1>4. CASE Named(f)
    <2>1. /\ flow'[f].phase \in {"idle", "templates"}
          /\ flow'[f].phase # "idle" => flow'[f].kind = flow[f].kind /\ flow'[f].who = flow[f].who
      BY <1>4, SomeoneFacts, AdvanceFacts, EndFacts DEF Named
    <2>2. names' \subseteq keys
      BY <1>4 DEF Named
    <2> QED
      BY <1>4, <1>u, <2>1, <2>2 DEF Named, Calm, Owned, HoldsItsKeys, Entering
  <1>5. CASE Entered(f) \/ Reread(f)
    <2>1. flow'[f].phase = "idle"
      BY <1>5, EndFacts DEF Entered, Reread
    <2>2. Entering(f) /\ flow[f].phase # "load" /\ email = keys
      BY <1>5 DEF Entered, Reread, Entering, Calm, HoldsItsKeys
    <2>3. names' \subseteq keys /\ UNCHANGED email
      BY <1>5, <2>2 DEF Entered, Reread, SignsInSomeone, Calm, HoldsItsKeys
    <2>4. \A g \in Flows : ~Entering(g)' \/ (g # f /\ Entering(g))
      BY <1>u, <2>1 DEF Entering
    <2> QED
      BY <1>u, <2>1, <2>2, <2>3, <2>4 DEF Calm, Owned, HoldsItsKeys, Entering
  <1> QED
    BY <1>1, <1>2, <1>3, <1>4, <1>5

LEMMA NextCalm == CalmInv /\ [Next]_vars => CalmInv'
  <1> SUFFICES ASSUME CalmInv, [Next]_vars, ~behind', ~mixed'
               PROVE  Calm'
    BY NextAwake DEF CalmInv
  <1>1. ~behind
    BY BehindStays
  <1>2. CASE AutoLock \/ LockButton \/ ReauthRequired
    BY <1>1, <1>2, LockCalm DEF CalmInv
  <1>3. CASE ~(AutoLock \/ LockButton \/ ReauthRequired)
    <2>1. ~mixed
      BY <1>3, MixedStays
    <2>2. CASE UNCHANGED vars
      BY <1>1, <2>1, <2>2 DEF CalmInv, Calm, Owned, HoldsItsKeys, Entering, vars
    <2> QED
      BY <1>1, <1>3, <2>1, <2>2, ViewCalm, OutsideCalm, KeysCalm, EnterCalm DEF Next, Screens
  <1> QED
    BY <1>2, <1>3

LEMMA InitCalm == Init => CalmInv
  <1> SUFFICES ASSUME Init
               PROVE  Calm
    BY InitAwake DEF CalmInv
  <1>1. \A f \in Flows : flow[f].phase = "idle"
    BY IdleTyped DEF Init
  <1> QED
    BY <1>1 DEF Init, Calm, Owned, HoldsItsKeys, Entering, Workbench

(* Whoever signs in, cancels or is answered late, the names and the address *)
(* on display are of the account whose keys are in memory, until a lock     *)
(* leaves a screen or an entry behind, or two sign-ins overlap so that one  *)
(* account's keys replace another's; after the next lock that leaves        *)
(* nothing behind they are again.  (App.tsx:189-271)                        *)
THEOREM ShowsItsOwner == Spec => []WorkbenchShowsItsOwner
  <1>1. CalmInv => WorkbenchShowsItsOwner
    BY DEF CalmInv, AwakeInv, DisplayInv, ShownInStep, Calm, Owned, WorkbenchShowsItsOwner
  <1> QED
    BY <1>1, InitCalm, NextCalm, PTL DEF Spec
=============================================================================
