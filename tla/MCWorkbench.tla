----------------------------- MODULE MCWorkbench -----------------------------
(***************************************************************************)
(* Nine parts of the program that share no state, checked in one run: the   *)
(* rows of a vault, the types of secret, the page, its offline copy, the   *)
(* backup, the clipboard, the list with its search, what the screens keep  *)
(* of a vault, and the pane beside the list.  Init chooses the part and    *)
(* only that part moves, so that the states of the run are the sum of      *)
(* theirs, not the product.                                                *)
(***************************************************************************)
EXTENDS SecretStore, TLC

CONSTANTS Fields, Typed, Editors, MaxNumber
CONSTANTS Accounts, Flows, MaxCopies
CONSTANTS MaxKey, MaxRequests, Versions, MaxLoads, Vaults, Budget

(* The ids and addresses are none of the words that stand for there being   *)
(* none, or for what someone else has copied.                              *)
ASSUME NamesAssumption ==
    /\ {"none", "unfiled"} \cap Secrets = {}
    /\ {"users", "nothing"} \cap Accounts = {}
    /\ "gone" \notin Pages

(* Keys, versions and calls are counted from one. *)
ASSUME BoundsAssumption ==
    /\ MaxKey \in Nat \ {0}
    /\ MaxLoads \in Nat \ {0}
    /\ Versions \subseteq Nat /\ 1 \in Versions

VARIABLES part
VARIABLES versions, current, written, editor
VARIABLES keys, armed, email, names, screen, pending, reauth, rendered, flow, session,
          behind, mixed
VARIABLES enabled, copy, switching, held, unlocked, address, listed, offline, open, mounted,
          entering, copying, cookie, torn, stray
VARIABLES kind, wraps, sealed, drawer, type, export, file, restored, crossed
VARIABLES clip, button, timer, writing, clearing, left
VARIABLES record, inUse, items, older, index, query, hits, loads, stale, raced
VARIABLES mine, rail, selected, view, filter, home, offered, loaded, people, table, asking,
          removing, adrift, late
VARIABLES filled, own, visible, known, picked, choosing, adding, editing, opened, form, sent,
          revealed, uncovered, wanted, carried, made, unheard, gone, taken

types  == <<versions, current, written, editor>>
client == <<keys, armed, email, names, screen, pending, reauth, rendered, flow, session,
            behind, mixed>>
device == <<enabled, copy, switching, held, unlocked, address, listed, offline, open, mounted,
            entering, copying, cookie, torn, stray>>
backup == <<kind, wraps, sealed, drawer, type, export, file, restored, crossed>>
board  == <<clip, button, timer, writing, clearing, left>>
list   == <<record, inUse, items, older, index, query, hits, loads, stale, raced>>
house  == <<mine, rail, selected, view, filter, home, offered, loaded, people, table, asking,
            removing, adrift, late>>
pane   == <<filled, own, visible, known, picked, choosing, adding, editing, opened, form, sent,
            revealed, uncovered, wanted, carried, made, unheard, gone, taken>>
all    == <<part, vars, types, client, device, backup, board, list, house, pane>>

(* Two parts are instantiated with their proofs, which extend their modules.*)
Types   == INSTANCE TemplatesProofs WITH Secrets <- Typed
Client  == INSTANCE ClientSessionProofs
Copy    == INSTANCE OfflineCopy WITH email <- address
Archive == INSTANCE Backup WITH Rows <- Pages, Folders <- Secrets,
                                row <- sealed, folder <- drawer
Board   == INSTANCE Clipboard WITH Buttons <- Pages, Values <- Accounts
List    == INSTANCE Search WITH Rows <- Secrets, row <- record, current <- inUse,
                                since <- stale, crossed <- raced
Screens == INSTANCE VaultScreens WITH Folders <- Secrets, listed <- rail, shown <- selected,
                                      screen <- view, stray <- adrift
Pane    == INSTANCE DetailPane WITH Secrets <- Folders, Fields <- Secrets, MaxForms <- MaxLoads,
                                MaxCalls <- MaxRequests, selected <- picked, calls <- sent,
                                asked <- wanted, left <- gone

(* The parts take their sets from the same model values, {a, b} and {p, q}, *)
(* which keeps the group small; Vaults are no part of it, for one of them   *)
(* is on the screen from the start.                                         *)
Symmetry == UNION {Permutations(S) : S \in {Folders, Pages, Editors, Accounts, Flows}}

Parts == {"store", "types", "client", "copy", "backup", "board", "list", "screens", "pane"}

(* A part that does not move is in one of its initial states. *)
SumInit ==
    /\ part \in Parts
    /\ Init /\ Types!Init /\ Client!Init /\ Copy!Init
    /\ Archive!Init /\ Board!Init /\ List!Init /\ Screens!Init /\ Pane!Init
    /\ part # "types" => \A v \in versions : v.fields = Fields
    /\ part # "backup" => kind = "personal"
    /\ part # "list" => \A s \in Secrets : \A x \in record[s] : x.word = "title"
    /\ part # "screens" => /\ people = {}
                           /\ selected = {CHOOSE v \in Vaults : TRUE}
                           /\ \A s \in Secrets : {home[s]} = selected
    /\ own = {s \in Folders : filled[s] # {}}
    /\ part # "pane" => own = {}

SumNext ==
    /\ UNCHANGED part
    /\ \/ /\ part = "store" /\ Next
          /\ UNCHANGED <<types, client, device, backup, board, list, house, pane>>
       \/ /\ part = "types" /\ Types!Next
          /\ UNCHANGED <<vars, client, device, backup, board, list, house, pane>>
       \/ /\ part = "client" /\ Client!Next
          /\ UNCHANGED <<vars, types, device, backup, board, list, house, pane>>
       \/ /\ part = "copy" /\ Copy!Next
          /\ UNCHANGED <<vars, types, client, backup, board, list, house, pane>>
       \/ /\ part = "backup" /\ Archive!Next
          /\ UNCHANGED <<vars, types, client, device, board, list, house, pane>>
       \/ /\ part = "board" /\ Board!Next
          /\ UNCHANGED <<vars, types, client, device, backup, list, house, pane>>
       \/ /\ part = "list" /\ List!Next
          /\ UNCHANGED <<vars, types, client, device, backup, board, house, pane>>
       \/ /\ part = "screens" /\ Screens!Next
          /\ UNCHANGED <<vars, types, client, device, backup, board, list, pane>>
       \/ /\ part = "pane" /\ Pane!Next
          /\ UNCHANGED <<vars, types, client, device, backup, board, list, house>>

SumSpec == SumInit /\ [][SumNext]_all

(* Saves, and folders and tags made and deleted, are paid for out of one    *)
(* budget, so that every mixture of a few of them is covered.               *)
Spent ==
    LET Born(f) == Cardinality({n \in DOMAIN f : f[n] # "unborn"})
                     + Cardinality({n \in DOMAIN f : f[n] = "deleted"})
    IN  Born(folder) + Born(tag) + Cardinality(UNION {1..row[s].revision : s \in Secrets})

(* A save under a warning about another draft, which is the exception of    *)
(* LossIsAnnounced, is not followed; nor are two warnings at once, or two   *)
(* editors that have gone on beside a version published by one of them.     *)
Unhurried ==
    /\ \A e \in Editors :
         editor[e].call \in {"sending", "putting"} => editor[e].about = editor[e].sent
    /\ Cardinality({e \in Editors : editor[e].confirming}) <= 1
    /\ current # 1 => Cardinality({e \in Editors : editor[e] # Types!Blank}) <= 1

(* Nor are four things in flight at once: entries, and refreshes of the copy.*)
Uncrowded ==
    Cardinality(copying) + Cardinality({f \in Flows : entering[f].phase # "idle"}) <= 3

(* A constraint: a part is not followed further once it is in an exception  *)
(* of its properties, which are proved of it whatever it goes on to do.     *)
Followed ==
    /\ part = "copy" => ~stray /\ ~torn /\ Uncrowded
    /\ part = "client" => ~behind
    /\ part = "types" => Unhurried
    /\ part = "store" => Spent <= Budget

-----------------------------------------------------------------------------
(* Those of the rows are SecretStore's, which hold of its initial state too.*)
(* Each of the others is that of the part's own module, stated and explained*)
(* there, and is asked of the part that moves.                              *)

(* The type of every variable of the part: TypeOK of its module. *)
WorkbenchTypeOK ==
    CASE part = "store"   -> TypeOK
      [] part = "types"   -> Types!TypeOK
      [] part = "client"  -> Client!TypeOK
      [] part = "copy"    -> Copy!TypeOK
      [] part = "backup"  -> Archive!TypeOK
      [] part = "board"   -> Board!TypeOK
      [] part = "list"    -> List!TypeOK
      [] part = "screens" -> Screens!TypeOK
      [] part = "pane"    -> Pane!TypeOK

(* Templates.SecretsRender *)
SecretsRender == part = "types" => Types!SecretsRender
(* Templates.CurrentIsNewest *)
CurrentIsNewest == part = "types" => Types!CurrentIsNewest
(* Templates.LossIsAnnounced *)
LossIsAnnounced == Types!LossIsAnnounced

(* ClientSession.LockHidesVault *)
LockHidesVault == part = "client" => Client!LockHidesVault
(* ClientSession.WorkbenchShowsItsOwner *)
WorkbenchShowsItsOwner == part = "client" => Client!WorkbenchShowsItsOwner
(* ClientSession.OpenIsArmed *)
OpenIsArmed == part = "client" => Client!OpenIsArmed

(* OfflineCopy.CopyIsOneAccounts *)
CopyIsOneAccounts == part = "copy" => Copy!CopyIsOneAccounts
(* OfflineCopy.OffMeansNoCopy *)
OffMeansNoCopy == part = "copy" => Copy!OffMeansNoCopy

(* Backup.BundleHoldsItsKeys *)
BundleHoldsItsKeys == part = "backup" => Archive!BundleHoldsItsKeys
(* Backup.RestoreIsWhole *)
RestoreIsWhole == part = "backup" => Archive!RestoreIsWhole

(* Clipboard.CopiesAreCleared *)
CopiesAreCleared == part = "board" => Board!CopiesAreCleared

(* Search.ListIsTrue *)
ListIsTrue == part = "list" => List!ListIsTrue

(* VaultScreens.ScreensFitTheVault *)
ScreensFitTheVault == part = "screens" => Screens!ScreensFitTheVault

(* DetailPane.ClearWasAskedFor *)
ClearWasAskedFor == part = "pane" => Pane!ClearWasAskedFor
(* DetailPane.SavesAreTheirForms *)
SavesAreTheirForms == part = "pane" => Pane!SavesAreTheirForms
=============================================================================
