----------------------------- MODULE Clipboard ------------------------------
(***************************************************************************)
(* Values of a vault on the clipboard of the device.                       *)
(*                                                                         *)
(* A copy button promises to clear the clipboard half a minute later, if   *)
(* what is there is still its own.  The promise is a timer of the button:  *)
(* it goes with the button, and the button goes with every reload of the   *)
(* list, a search that hides its row, another secret in the detail pane,   *)
(* and the lock.  Writing, reading and clearing are requests to the        *)
(* browser, which may refuse them.                                         *)
(* (frontend/src/components/CopyButton.tsx,                                *)
(* features/secret-detail/SecretDetail.tsx,                                *)
(* features/vault-list/SecretListColumn.tsx, secret-summary.ts)            *)
(***************************************************************************)
EXTENDS Integers, FiniteSets

CONSTANTS
    Buttons,     \* places of a copy button: a row of the list, a field
    Values,      \* the values they copy
    MaxRequests  \* bound: requests to the browser at once

VARIABLES
    clip,        \* what is on the clipboard: a value, or what is the user's
    button,      \* the value each button is mounted with, if it is
    timer,       \* the value whose clearing each button has armed
    writing,     \* copies in flight
    clearing,    \* clearings in flight, and how far they are
    left         \* history: the values whose clearing was given up

vars == <<clip, button, timer, writing, clearing, left>>

-----------------------------------------------------------------------------
Users == "users"

Nothing == "nothing"

(* Where the button of a copy in flight was, when it has gone. *)
Gone == "gone"

Maybe == {{}} \cup {{v} : v \in Values}

Requests == Cardinality(writing) + Cardinality(clearing)

Init ==
    /\ clip = Users
    /\ button = [b \in Buttons |-> {}]
    /\ timer = [b \in Buttons \cup {Gone} |-> {}]
    /\ writing = {} /\ clearing = {} /\ left = {}

(* The list has decrypted the row, or the detail pane shows the secret. *)
Mount(b) ==
    /\ button[b] = {}
    /\ \E v \in Values : button' = [button EXCEPT ![b] = {v}]
    /\ UNCHANGED <<clip, timer, writing, clearing, left>>

(* The rows give way to "Decrypting" on each load, are filtered away, or   *)
(* the page is locked: the effect of the button cancels its timer.         *)
Unmount(b) ==
    /\ button[b] # {}
    /\ button' = [button EXCEPT ![b] = {}]
    /\ timer' = [timer EXCEPT ![b] = {}]
    /\ writing' = {IF w.by = b THEN [w EXCEPT !.by = Gone] ELSE w : w \in writing}
    /\ left' = left \cup timer[b]
    /\ UNCHANGED <<clip, clearing>>

(* The detail pane turns to a secret of the same type, or a save replaces  *)
(* the value: the field keeps its key, so its button stays.                *)
Reuse(b) ==
    /\ button[b] # {}
    /\ \E v \in Values : button' = [button EXCEPT ![b] = {v}]
    /\ button' # button
    /\ UNCHANGED <<clip, timer, writing, clearing, left>>

-----------------------------------------------------------------------------
(* copy *)

Copy(b) ==
    /\ button[b] # {} /\ Requests < MaxRequests
    /\ writing' = writing \cup {[by |-> b, value |-> v] : v \in button[b]}
    /\ UNCHANGED <<clip, button, timer, clearing, left>>

(* Mutant: a timer that runs is left to run. *)
CopiedOnce(w) ==
    /\ w \in writing
    /\ writing' = writing \ {w}
    /\ clip' = w.value
    /\ timer' = IF timer[w.by] = {} THEN [timer EXCEPT ![w.by] = {w.value}] ELSE timer
    /\ left' = left \ {w.value}
    /\ UNCHANGED <<button, clearing>>

(* The browser has written it: the timer is armed anew, for the value that *)
(* was copied, whether or not the button is still there.                   *)
Copied(w) ==
    /\ w \in writing
    /\ writing' = writing \ {w}
    /\ clip' = w.value
    /\ timer' = [timer EXCEPT ![w.by] = {w.value} \cup (IF w.by = Gone THEN @ ELSE {})]
    /\ left' = left \ {w.value}
    /\ UNCHANGED <<button, clearing>>

(* The browser refuses: the button says so and arms nothing. *)
CopyRefused(w) ==
    /\ w \in writing
    /\ writing' = writing \ {w}
    /\ UNCHANGED <<clip, button, timer, clearing, left>>

(* The user copies something, here or elsewhere. *)
UserCopies ==
    /\ clip' = Users
    /\ UNCHANGED <<button, timer, writing, clearing, left>>

-----------------------------------------------------------------------------
(* Half a minute later *)

Due(b, v) ==
    /\ v \in timer[b] /\ Requests < MaxRequests
    /\ timer' = [timer EXCEPT ![b] = @ \ {v}]
    /\ clearing' = clearing \cup {[value |-> v, at |-> "read"]}
    /\ UNCHANGED <<clip, button, writing, left>>

(* The clipboard is read and compared; it is written if it is the same, or *)
(* if the browser would not let it be read.                                *)
Compare(k) ==
    /\ k \in clearing /\ k.at = "read"
    /\ \E refused \in BOOLEAN :
         clearing' = (clearing \ {k})
             \cup (IF refused \/ clip = k.value THEN {[k EXCEPT !.at = "write"]} ELSE {})
    /\ UNCHANGED <<clip, button, timer, writing, left>>

Clear(k) ==
    /\ k \in clearing /\ k.at = "write"
    /\ clearing' = clearing \ {k}
    /\ clip' = Nothing
    /\ UNCHANGED <<button, timer, writing, left>>

(* It says "cleared" all the same. *)
ClearRefused(k) ==
    /\ k \in clearing /\ k.at = "write"
    /\ clearing' = clearing \ {k}
    /\ left' = left \cup {k.value}
    /\ UNCHANGED <<clip, button, timer, writing>>

Next ==
    \/ \E b \in Buttons : Mount(b) \/ Unmount(b) \/ Reuse(b) \/ Copy(b)
    \/ \E b \in Buttons \cup {Gone}, v \in Values : Due(b, v)
    \/ \E w \in writing : Copied(w) \/ CopyRefused(w)
    \/ \E k \in clearing : Compare(k) \/ Clear(k) \/ ClearRefused(k)
    \/ UserCopies

Spec == Init /\ [][Next]_vars

-----------------------------------------------------------------------------
(* Every variable has its type. *)
TypeOK ==
    /\ clip \in {Users, Nothing} \cup Values
    /\ button \in [Buttons -> Maybe]
    /\ timer \in [Buttons \cup {Gone} -> SUBSET Values]
    /\ \A b \in Buttons : timer[b] \in Maybe
    /\ writing \subseteq [by : Buttons \cup {Gone}, value : Values]
    /\ clearing \subseteq [value : Values, at : {"read", "write"}]
    /\ left \subseteq Values

(* A value of the vault that is on the clipboard is on its way off it: a   *)
(* button has its clearing armed, or it is being read or cleared.  It      *)
(* stays for good only where the button went before its time, or the       *)
(* browser refused to clear.                                               *)
CopiesAreCleared ==
    clip \in Values \ left =>
        \/ \E b \in DOMAIN timer : clip \in timer[b]
        \/ \E k \in clearing : k.value = clip
=============================================================================
