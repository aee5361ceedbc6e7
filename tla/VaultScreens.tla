---------------------------- MODULE VaultScreens ----------------------------
(***************************************************************************)
(* What the workbench keeps of a vault when it turns to another: the       *)
(* filters, which belong to the page, the folders on offer, which belong   *)
(* to the list, and the members on the sharing screen.                     *)
(*                                                                         *)
(* The list is made anew for each vault and each refresh; the filters are  *)
(* not, nor is the sharing screen, whose requests go on under the vault    *)
(* they were made for.  A personal vault shows nothing of the latter and   *)
(* is left out, as are members who do not own the vault; tags are as       *)
(* folders.                                                                *)
(* (frontend/src/App.tsx, features/shell/VaultRail.tsx,                    *)
(* features/vault-list/SecretList.tsx, Filters.tsx,                        *)
(* features/organise/Organise.tsx, features/sharing/Sharing.tsx,           *)
(* IncomingInvitations.tsx)                                                *)
(***************************************************************************)
EXTENDS FiniteSets

CONSTANTS
    Vaults,      \* the vaults this user is in, at one time or another
    Folders      \* ids of folders, each of one vault

VARIABLES
    mine,        \* the vaults this user is an active member of
    listed,      \* App.tsx: vaults
    shown,       \* App.tsx: selectedVaultId, none where there is no vault
    screen,      \* App.tsx: screen
    filter,      \* App.tsx: filters.folderId
    home,        \* the vault of each folder on the server
    offered,     \* the folders in the rail, none before the list has loaded
    loaded,      \* whether it has
    people,      \* the vaults that the other member is in
    table,       \* Sharing.tsx: whose members are on the screen
    asking,      \* the vaults whose members it has asked for
    removing,    \* the vault that a member is being removed from
    stray,       \* history: the folder of the filter has gone, or its vault
    late         \* history: members came, or were refused, for a vault left

page == <<mine, listed, shown, screen, filter, home, offered, loaded, stray>>
sharing == <<table, asking, removing, late>>
vars == <<page, people, sharing>>

-----------------------------------------------------------------------------
None == "none"

Unfiled == "unfiled"

One == {{}} \cup {{v} : v \in Vaults}

In(v) == {f \in Folders : home[f] = v}

Init ==
    /\ mine = Vaults /\ listed = Vaults
    /\ shown \in {{v} : v \in Vaults}
    /\ screen = "vault" /\ filter = None
    /\ home \in [Folders -> Vaults]
    /\ offered = {} /\ loaded = FALSE
    /\ people \in SUBSET Vaults
    /\ table = {} /\ asking = {} /\ removing = {}
    /\ stray = FALSE /\ late = FALSE

(* The list of secrets gets a new key.                                      *)
Remount == offered' = {} /\ loaded' = FALSE

-----------------------------------------------------------------------------
(* The server *)

(* Another owner revokes this user, or the user accepts an invitation,      *)
(* here or on another device.                                               *)
MembershipChanges ==
    /\ \E v \in Vaults : mine' = (mine \ {v}) \cup ({v} \ mine)
    /\ UNCHANGED <<listed, shown, screen, filter, home, offered, loaded, stray, people, sharing>>

(* The other member of v joins or goes. *)
OtherChanges ==
    /\ \E v \in Vaults : people' = (people \ {v}) \cup ({v} \ people)
    /\ UNCHANGED <<page, sharing>>

-----------------------------------------------------------------------------
(* App and VaultRail *)

(* Mutant: the filters are left as they are. *)
SelectVaultOnly(v) ==
    /\ v \in listed
    /\ shown' = {v}
    /\ Remount
    /\ asking' = IF screen = "sharing" /\ shown # {v} THEN asking \cup {v} ELSE asking
    /\ UNCHANGED <<mine, listed, screen, filter, home, stray, people, table, removing, late>>

(* onSelectVault clears the filters; the effect of an open sharing screen   *)
(* asks for the members of v.                                               *)
SelectVault(v) ==
    /\ v \in listed
    /\ shown' = {v}
    /\ filter' = None /\ stray' = FALSE
    /\ Remount
    /\ asking' = IF screen = "sharing" /\ shown # {v} THEN asking \cup {v} ELSE asking
    /\ UNCHANGED <<mine, listed, screen, home, people, table, removing, late>>

(* refreshVaults, after a vault was made, restored or answered for, after   *)
(* an invitation and after a rotation: the vault shown stays if it is still *)
(* there, or the first that is takes its place.                             *)
Refresh ==
    /\ listed' = mine
    /\ shown' \in IF mine = {} THEN {{}} ELSE {{v} : v \in mine}
    /\ shown \cap mine # {} => shown' = shown
    /\ Remount
    /\ stray' = (stray \/ (shown' # shown /\ filter \in Folders))
    /\ IF shown' = {}
         THEN table' = {} /\ asking' = {} /\ removing' = {} /\ late' = FALSE
         ELSE /\ asking' = IF screen = "sharing" /\ shown' # shown THEN asking \cup shown' ELSE asking
              /\ UNCHANGED <<table, removing, late>>
    /\ UNCHANGED <<mine, screen, filter, home, people>>

(* The rows and folders come.  They are refused to who is not a member.     *)
Loaded ==
    /\ ~loaded /\ shown # {} /\ shown \subseteq mine
    /\ loaded' = TRUE
    /\ offered' = UNION {In(v) : v \in shown}
    /\ UNCHANGED <<mine, listed, shown, screen, filter, home, stray, people, sharing>>

(* A folder in the rail, or "Unfiled"; a second time lets go of it.         *)
ToggleFilter(f) ==
    /\ f \in offered \cup {Unfiled}
    /\ filter' = IF filter = f THEN None ELSE f
    /\ stray' = (filter' \in Folders /\ home[f] = None)
    /\ UNCHANGED <<mine, listed, shown, screen, home, offered, loaded, people, sharing>>

(* "All secrets", and "Clear filters", which is there while there are any.  *)
ClearFilters ==
    /\ filter' = None /\ stray' = FALSE
    /\ UNCHANGED <<mine, listed, shown, screen, home, offered, loaded, people, sharing>>

(* A folder goes, by Organise on this page or by someone else; the page     *)
(* that did it reloads the list, and no page lets go of its filter.         *)
RemoveFolder(f) ==
    /\ home[f] \in Vaults
    /\ home' = [home EXCEPT ![f] = None]
    /\ stray' = (stray \/ filter = f)
    /\ \/ {home[f]} = shown /\ shown \subseteq mine /\ f \in offered /\ Remount
       \/ UNCHANGED <<offered, loaded>>
    /\ UNCHANGED <<mine, listed, shown, screen, filter, people, sharing>>

-----------------------------------------------------------------------------
(* Sharing *)

(* The screen is mounted and asks for the members, or is left.              *)
OpenSharing ==
    /\ screen = "vault" /\ shown # {}
    /\ screen' = "sharing"
    /\ asking' = shown
    /\ UNCHANGED <<mine, listed, shown, filter, home, offered, loaded, stray,
                   people, table, removing, late>>

LeaveSharing ==
    /\ screen = "sharing"
    /\ screen' = "vault"
    /\ table' = {} /\ asking' = {} /\ removing' = {} /\ late' = FALSE
    /\ UNCHANGED <<mine, listed, shown, filter, home, offered, loaded, stray, people>>

(* The members of v come and are shown, whichever vault is. *)
Answered(v) ==
    /\ v \in asking /\ v \in mine
    /\ asking' = asking \ {v}
    /\ table' = {v}
    /\ late' = ({v} # shown)
    /\ UNCHANGED <<page, people, removing>>

(* They do not: those on the screen stay. *)
Refused(v) ==
    /\ v \in asking
    /\ asking' = asking \ {v}
    /\ late' = (late \/ table # shown)
    /\ UNCHANGED <<page, people, table, removing>>

(* "Remove", confirmed: the member on the screen, from the vault shown.     *)
Revoke ==
    /\ screen = "sharing" /\ table # {} /\ shown # {} /\ removing = {}
    /\ removing' = shown
    /\ UNCHANGED <<page, people, table, asking, late>>

(* The server removes who is a member there; the list of that vault is      *)
(* asked for again, also when another is shown by then.  It is once more    *)
(* after the rotation, which may take its time.                             *)
Revoked(v) ==
    /\ v \in removing
    /\ v \in people /\ v \in mine
    /\ people' = people \ {v}
    /\ asking' = asking \cup {v}
    /\ removing' \in {{}, removing}
    /\ UNCHANGED <<page, table, late>>

RevokeRefused(v) ==
    /\ v \in removing
    /\ removing' = {}
    /\ UNCHANGED <<page, people, table, asking, late>>

Next ==
    \/ MembershipChanges \/ OtherChanges
    \/ \E v \in Vaults : SelectVault(v)
    \/ Refresh \/ Loaded
    \/ \E f \in Folders \cup {Unfiled} : ToggleFilter(f)
    \/ ClearFilters
    \/ \E f \in Folders : RemoveFolder(f)
    \/ OpenSharing \/ LeaveSharing
    \/ \E v \in Vaults : Answered(v) \/ Refused(v) \/ Revoked(v) \/ RevokeRefused(v)
    \/ Revoke

Spec == Init /\ [][Next]_vars

-----------------------------------------------------------------------------
(* Every variable has its type. *)
TypeOK ==
    /\ mine \subseteq Vaults /\ listed \subseteq Vaults
    /\ shown \in One /\ shown \subseteq listed
    /\ screen \in {"vault", "sharing"}
    /\ filter \in Folders \cup {None, Unfiled}
    /\ home \in [Folders -> Vaults \cup {None}]
    /\ offered \subseteq Folders /\ loaded \in BOOLEAN
    /\ people \subseteq Vaults
    /\ table \in One /\ asking \subseteq Vaults /\ removing \in One
    /\ stray \in BOOLEAN /\ late \in BOOLEAN

(* A filter that hides secrets is one the rail shows as chosen, of a folder *)
(* of the vault on the screen; it is left behind only where its folder has  *)
(* gone, or a refresh turned to another vault.                              *)
FilterIsOffered ==
    loaded /\ filter \in Folders /\ ~stray => filter \in offered

(* Once nothing is asked for, the members one may remove are those of the   *)
(* vault they would be removed from, unless they came for a vault that was  *)
(* left by then, or those of this one were refused.                         *)
MembersAreOfTheVault ==
    screen = "sharing" /\ table # {} /\ asking = {} /\ ~late => table = shown

(* The two, of one workbench. *)
ScreensFitTheVault == FilterIsOffered /\ MembersAreOfTheVault
=============================================================================
