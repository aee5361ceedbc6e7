------------------------------- MODULE Search -------------------------------
(***************************************************************************)
(* The list of one vault and the search over it: what a load brings is     *)
(* shown, indexed on this device, and searched when the query changes.     *)
(*                                                                         *)
(* A load starts when the list is mounted, after each save and whenever    *)
(* the types are fetched anew; nothing orders two of them.  It shows its   *)
(* rows first and fetches the older versions they are written under after. *)
(* React searches while it renders, and rebuilds the index once it has.    *)
(* Folders and tags, which come with the rows, are left out.               *)
(* (frontend/src/features/vault-list/SecretList.tsx, SecretListColumn.tsx, *)
(* features/search/SearchBar.tsx, search/index.ts)                         *)
(***************************************************************************)
EXTENDS Integers, Sequences, SequencesExt

CONSTANTS
    Rows,        \* ids of the secrets
    Versions,    \* the versions of their type, the first of them 1
    MaxLoads     \* bound: loads in flight at once

VARIABLES
    row,         \* the secrets on the server
    current,     \* the version in use, which is all that the page is given
    items,       \* the secrets shown
    older,       \* the versions fetched for them
    index,       \* the rows that the word is found in
    query,       \* whether the word is being searched for
    hits,        \* the rows found, if there is a query
    loads,       \* the loads in flight, in the order they were asked for
    since,       \* history: rows or versions changed since the query did
    crossed      \* history: loads overtook each other, or were refused

list == <<items, older, index, query, hits, loads, since, crossed>>
vars == <<row, current, list>>

-----------------------------------------------------------------------------
(* Where the word is in a secret: in its title; or in a field that is not  *)
(* sensitive, which takes its version to tell.                             *)
Row == [word : {"title", "field", "nowhere"}, version : Versions]

Table == [Rows -> {{}} \cup {{x} : x \in Row}]

Load == [at : {"asked", "read", "shown"}, known : Versions, rows : Table, late : BOOLEAN]

Empty == [r \in Rows |-> {}]

Asked == [at |-> "asked", known |-> current, rows |-> Empty, late |-> FALSE]

(* The rows of i in which the word is found, given the versions known.     *)
Found(i, known) ==
    {r \in Rows : \E x \in i[r] : x.word = "title" \/ (x.word = "field" /\ x.version \in known)}

Missing(i, known) == UNION {{x.version : x \in i[r]} : r \in Rows} \ {known}

(* The list is mounted: nothing is shown and a load has been asked for.    *)
Init ==
    /\ row \in [Rows -> {{[word |-> w, version |-> 1]} : w \in {"title", "field"}}]
    /\ current = 1
    /\ items = Empty /\ older = {} /\ index = {}
    /\ query = FALSE /\ hits = {}
    /\ loads = <<Asked>>
    /\ since = FALSE /\ crossed = FALSE

(* The effect: the index is that of what is shown. *)
Rebuild == index' = Found(items', {current'} \cup older')

Finished(n) == loads' = RemoveAt(loads, n)

(* The loads asked for before n are late from now on. *)
Overtake(n, l) ==
    [m \in DOMAIN loads |-> IF m < n THEN [loads[m] EXCEPT !.late = TRUE]
                            ELSE IF m = n THEN l ELSE loads[m]]

(* n is the one load there is, and of the types there are. *)
Alone(n) == Len(loads) = 1 /\ loads[n].known = current

-----------------------------------------------------------------------------
(* The server *)

(* A save of this page, or of anyone.  A new row has the version in use.   *)
Save(r) ==
    /\ \E x \in Row :
         /\ \A y \in row[r] : x.version = y.version
         /\ row[r] = {} => x.version = current
         /\ row[r] # {x}
         /\ row' = [row EXCEPT ![r] = {x}]
    /\ UNCHANGED <<current, list>>

Delete(r) ==
    /\ row[r] # {}
    /\ row' = [row EXCEPT ![r] = {}]
    /\ UNCHANGED <<current, list>>

-----------------------------------------------------------------------------
(* load *)

(* create, update, file, toggleTag and onConfirm reload when they are done. *)
Ask ==
    /\ Len(loads) < MaxLoads
    /\ loads' = Append(loads, Asked)
    /\ UNCHANGED <<row, current, items, older, index, query, hits, since, crossed>>

(* The types are fetched anew after an edit: a new load is made of them.   *)
RefreshTemplates ==
    /\ Len(loads) < MaxLoads
    /\ current + 1 \in Versions
    /\ current' = current + 1
    /\ loads' = Append(loads, [Asked EXCEPT !.known = current + 1])
    /\ since' = query
    /\ UNCHANGED <<row, items, older, query, hits, crossed>>
    /\ Rebuild

Read(n) ==
    /\ loads[n].at = "asked"
    /\ loads' = [loads EXCEPT ![n].at = "read", ![n].rows = row]
    /\ UNCHANGED <<row, current, items, older, index, query, hits, since, crossed>>

(* A request fails, or a row does not decrypt: all of the load does.       *)
Fail(n) ==
    /\ loads[n].at \in {"asked", "read"}
    /\ Finished(n)
    /\ crossed' = TRUE
    /\ UNCHANGED <<row, current, items, older, index, query, hits, since>>

(* Mutant: the index is built when the list is mounted, for good. *)
ShowUnindexed(n) ==
    /\ loads[n].at = "read"
    /\ items' = loads[n].rows
    /\ hits' = IF query THEN {index} ELSE {}
    /\ since' = query
    /\ crossed' = (loads[n].late \/ (crossed /\ ~Alone(n)))
    /\ IF Missing(items', loads[n].known) = {}
         THEN /\ older' = {}
              /\ loads' = RemoveAt(Overtake(n, loads[n]), n)
         ELSE /\ loads' = Overtake(n, [loads[n] EXCEPT !.at = "shown"])
              /\ UNCHANGED older
    /\ UNCHANGED <<row, current, query, index>>

(* The rows are shown.  The hits are of the index before.                  *)
Show(n) ==
    /\ loads[n].at = "read"
    /\ items' = loads[n].rows
    /\ hits' = IF query THEN {index} ELSE {}
    /\ since' = query
    /\ crossed' = (loads[n].late \/ (crossed /\ ~Alone(n)))
    /\ IF Missing(items', loads[n].known) = {}
         THEN /\ older' = {}
              /\ loads' = RemoveAt(Overtake(n, loads[n]), n)
         ELSE /\ loads' = Overtake(n, [loads[n] EXCEPT !.at = "shown"])
              /\ UNCHANGED older
    /\ UNCHANGED <<row, current, query>>
    /\ Rebuild

(* The versions come, but for those that are refused; they take the place  *)
(* of the ones there were.                                                 *)
Resolve(n) ==
    /\ loads[n].at = "shown"
    /\ \E got \in SUBSET Missing(loads[n].rows, loads[n].known) :
         /\ older' = got
         /\ crossed' = (crossed \/ loads[n].late
                         \/ got # Missing(loads[n].rows, loads[n].known))
    /\ loads' = RemoveAt(Overtake(n, loads[n]), n)
    /\ since' = query
    /\ UNCHANGED <<row, current, items, query, hits>>
    /\ Rebuild

-----------------------------------------------------------------------------
(* The user *)

(* SearchBar hands over what was typed once typing has paused. *)
Search ==
    /\ query' = ~query
    /\ hits' = IF query' THEN {index} ELSE {}
    /\ since' = FALSE
    /\ UNCHANGED <<row, current, items, older, index, loads, crossed>>

(* Another vault, or this one after a change of its folders: the key of    *)
(* the list changes, and what the list that was had asked for is dropped.  *)
Remount ==
    /\ items' = Empty /\ older' = {} /\ index' = {}
    /\ query' = FALSE /\ hits' = {}
    /\ loads' = <<Asked>>
    /\ since' = FALSE /\ crossed' = FALSE
    /\ UNCHANGED <<row, current>>

Next ==
    \/ \E r \in Rows : Save(r) \/ Delete(r)
    \/ Ask \/ RefreshTemplates
    \/ \E n \in DOMAIN loads : Read(n) \/ Fail(n) \/ Show(n) \/ Resolve(n)
    \/ Search \/ Remount

Spec == Init /\ [][Next]_vars

-----------------------------------------------------------------------------
(* Every variable has its type. *)
TypeOK ==
    /\ row \in Table /\ items \in Table
    /\ current \in Versions /\ older \subseteq Versions
    /\ index \subseteq Rows /\ query \in BOOLEAN
    /\ hits \subseteq SUBSET Rows
    /\ Len(loads) <= MaxLoads /\ \A n \in DOMAIN loads : loads[n] \in Load
    /\ since \in BOOLEAN /\ crossed \in BOOLEAN

(* What a search hides or shows is decided by the secrets on the screen:   *)
(* it finds every one that has the word, and no other, unless they were    *)
(* loaded anew under the query, which is then answered from the index of   *)
(* those before.                                                           *)
SearchFindsWhatIsShown ==
    query /\ ~since => hits = {Found(items, {current} \cup older)}

(* Once no load is in flight, every secret on the screen has the version   *)
(* it is written under to render it, unless a load was overtaken by a      *)
(* later one or something was refused to it.                               *)
ShownSecretsRender ==
    loads = <<>> /\ ~crossed => Missing(items, current) \subseteq older

(* The two, of one list. *)
ListIsTrue == SearchFindsWhatIsShown /\ ShownSecretsRender
=============================================================================
