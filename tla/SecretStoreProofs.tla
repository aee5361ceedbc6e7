--------------------------- MODULE SecretStoreProofs ---------------------------
(***************************************************************************)
(* What holds of the rows of a vault, for any number of pages, secrets,    *)
(* folders and tags: the types, that no accepted save discards another,    *)
(* that nothing is filed or tagged under what has gone, and that the log   *)
(* names what was deleted.                                                 *)
(***************************************************************************)
EXTENDS SecretStore, TLAPS

LEMMA ChoicesTyped == Choices \subseteq SUBSET Folders
  BY DEF Choices

LEMMA UnbornTyped ==
    /\ Unborn \in Row
    /\ Unborn.state = "unborn" /\ Unborn.revision = 0 /\ Unborn.basis = 0
    /\ Unborn.folder = {} /\ Unborn.tags = {}
  BY DEF Unborn, Row, States

LEMMA NothingTyped ==
    /\ Nothing \in Asked
    /\ Nothing.kind = "none" /\ Nothing.secrets = {} /\ Nothing.folder = {} /\ Nothing.tags = {}
  BY DEF Nothing, Asked

(* What a row becomes when one thing about it changes.                      *)
LEMMA RetaggedFacts ==
    ASSUME NEW r \in Row, NEW T \in SUBSET Tags
    PROVE  LET n == [r EXCEPT !.tags = T]
           IN  /\ n \in Row /\ n.tags = T
               /\ n.state = r.state /\ n.revision = r.revision
               /\ n.basis = r.basis /\ n.folder = r.folder
  BY DEF Row

LEMMA UnfiledFacts ==
    ASSUME NEW r \in Row, NEW f \in Folders
    PROVE  LET n == [r EXCEPT !.folder = @ \ {f}]
           IN  /\ n \in Row /\ n.folder = r.folder \ {f} /\ (f \notin r.folder => n = r)
               /\ n.state = r.state /\ n.revision = r.revision
               /\ n.basis = r.basis /\ n.tags = r.tags
  BY DEF Row

LEMMA UntaggedFacts ==
    ASSUME NEW r \in Row, NEW t \in Tags
    PROVE  LET n == [r EXCEPT !.tags = @ \ {t}]
           IN  /\ n \in Row /\ n.tags = r.tags \ {t} /\ (t \notin r.tags => n = r)
               /\ n.state = r.state /\ n.revision = r.revision
               /\ n.basis = r.basis /\ n.folder = r.folder
  BY DEF Row

LEMMA DeletedFacts ==
    ASSUME TypeOK, NEW s \in Secrets
    PROVE  /\ Deleted(s) \in Row /\ Deleted(s).state = "deleted"
           /\ Deleted(s).folder = {} /\ Deleted(s).tags = {}
           /\ Deleted(s).revision = row[s].revision /\ Deleted(s).basis = row[s].basis
  BY DEF TypeOK, Deleted, Row, States

(* What becomes of the other pages' requests when one is asked or answered. *)
LEMMA AskFacts ==
    ASSUME TypeOK, NEW p \in Pages, NEW request \in Asked, Ask(p, request)
    PROVE  /\ asked' \in [Pages -> Asked]
           /\ asked[p] = Nothing /\ asked'[p] = request
           /\ \A q \in Pages \ {p} : asked'[q] = asked[q]
           /\ UNCHANGED <<row, folder, tag, shown, logged, moved, overtaken>>
  BY DEF TypeOK, Ask, labels

LEMMA AnsweredFacts ==
    ASSUME TypeOK, NEW p \in Pages, Answered(p)
    PROVE  /\ asked' \in [Pages -> Asked]
           /\ asked'[p] = Nothing
           /\ \A q \in Pages \ {p} : asked'[q] = asked[q]
  BY NothingTyped DEF TypeOK, Answered

LEMMA AskedTyped ==
    ASSUME TypeOK, NEW p \in Pages
    PROVE  /\ asked[p].secrets \subseteq Secrets /\ asked[p].folder \subseteq Folders
           /\ asked[p].tags \subseteq Tags
  BY DEF TypeOK, Asked

LEMMA ShownTyped ==
    ASSUME TypeOK, NEW p \in Pages, NEW seen \in shown[p]
    PROVE  seen.secret \in Secrets /\ seen.row \in Row
  BY DEF TypeOK

LEMMA MarkTyped ==
    ASSUME TypeOK, NEW s \in Secrets, MarkMoved(s)
    PROVE  moved' \subseteq Secrets /\ moved \subseteq moved' /\ (Emptying => s \in moved')
  BY DEF TypeOK, MarkMoved

-----------------------------------------------------------------------------
(* The steps, by what they do to the rows *)

(* Something is looked up, and asked; nothing is written.                   *)
Looking(p) ==
    CreateRead(p) \/ SaveRead(p) \/ RetagRead(p) \/ DeleteRead(p) \/ FolderRead(p)

LEMMA LookingFacts ==
    ASSUME TypeOK, NEW p \in Pages, Looking(p)
    PROVE  /\ asked' \in [Pages -> Asked]
           /\ asked'[p].folder \in Choices
           /\ asked'[p].kind \in {"create", "save", "retag", "delete", "orphan", "cascade"}
           /\ asked'[p].kind = "cascade" => \A f \in asked'[p].folder : folder[f] = "live"
           /\ asked[p] = Nothing
           /\ \A q \in Pages \ {p} : asked'[q] = asked[q]
           /\ UNCHANGED <<row, folder, tag, shown, logged, moved, overtaken>>
  <1>c. {} \in Choices /\ \A f \in Folders : {f} \in Choices
    BY DEF Choices
  <1>1. CASE CreateRead(p)
    <2> PICK s \in Secrets, where \in Choices, tags \in SUBSET Tags :
          Ask(p, [kind |-> "create", secrets |-> {s}, folder |-> where, tags |-> tags])
      BY <1>1 DEF CreateRead
    <2> DEFINE R == [kind |-> "create", secrets |-> {s}, folder |-> where, tags |-> tags]
    <2>1. R \in Asked /\ R.folder = where /\ R.kind = "create"
      BY ChoicesTyped DEF Asked
    <2> QED
      BY <2>1, AskFacts
  <1>2. CASE SaveRead(p)
    <2> PICK seen \in shown[p], where \in Choices, tags \in SUBSET Tags :
          Ask(p, [kind |-> "save", secrets |-> {seen.secret}, folder |-> where, tags |-> tags])
      BY <1>2 DEF SaveRead
    <2> DEFINE R == [kind |-> "save", secrets |-> {seen.secret}, folder |-> where, tags |-> tags]
    <2>1. R \in Asked /\ R.folder = where /\ R.kind = "save"
      BY ChoicesTyped, ShownTyped DEF Asked
    <2> QED
      BY <2>1, AskFacts
  <1>3. CASE RetagRead(p)
    <2> PICK seen \in shown[p], tags \in SUBSET Tags :
          Ask(p, [kind |-> "retag", secrets |-> {seen.secret}, folder |-> {}, tags |-> tags])
      <3> PICK seen \in shown[p], t \in Tags :
            LET tags == IF t \in seen.row.tags THEN seen.row.tags \ {t} ELSE seen.row.tags \cup {t}
            IN  Ask(p, [kind |-> "retag", secrets |-> {seen.secret}, folder |-> {}, tags |-> tags])
        BY <1>3 DEF RetagRead
      <3>1. seen.row.tags \subseteq Tags
        BY ShownTyped DEF Row
      <3> QED
        BY <3>1
    <2> DEFINE R == [kind |-> "retag", secrets |-> {seen.secret}, folder |-> {}, tags |-> tags]
    <2>1. R \in Asked /\ R.folder = {} /\ R.kind = "retag"
      BY ShownTyped DEF Asked
    <2> QED
      BY <1>c, <2>1, AskFacts
  <1>4. CASE DeleteRead(p)
    <2> PICK seen \in shown[p] : Ask(p, [Nothing EXCEPT !.kind = "delete", !.secrets = {seen.secret}])
      BY <1>4 DEF DeleteRead
    <2> DEFINE R == [Nothing EXCEPT !.kind = "delete", !.secrets = {seen.secret}]
    <2>1. R \in Asked /\ R.folder = {} /\ R.kind = "delete"
      BY ShownTyped DEF Asked, Nothing
    <2> QED
      BY <1>c, <2>1, AskFacts
  <1>5. CASE FolderRead(p)
    <2> PICK f \in Folders, d \in {"orphan", "cascade"} :
          folder[f] = "live" /\ Ask(p, [Nothing EXCEPT !.kind = d, !.folder = {f}])
      BY <1>5 DEF FolderRead
    <2> DEFINE R == [Nothing EXCEPT !.kind = d, !.folder = {f}]
    <2>1. R \in Asked /\ R.folder = {f} /\ R.kind = d
      BY DEF Asked, Nothing
    <2>2. /\ asked' \in [Pages -> Asked] /\ asked[p] = Nothing /\ asked'[p] = R
          /\ \A q \in Pages \ {p} : asked'[q] = asked[q]
          /\ UNCHANGED <<row, folder, tag, shown, logged, moved, overtaken>>
      BY <2>1, AskFacts
    <2> HIDE DEF R
    <2> QED
      BY <1>c, <2>1, <2>2
  <1> QED
    BY <1>1, <1>2, <1>3, <1>4, <1>5 DEF Looking

LEMMA CreateFacts ==
    ASSUME TypeOK, NEW p \in Pages, CreateCommit(p)
    PROVE  \E s \in Secrets :
             /\ row[s].state = "unborn"
             /\ row' \in [Secrets -> Row] /\ \A o \in Secrets \ {s} : row'[o] = row[o]
             /\ row'[s].state = "live" /\ row'[s].revision = 1 /\ row'[s].basis = 1
             /\ row'[s].folder = asked[p].folder /\ row'[s].tags = asked[p].tags
             /\ MarkMoved(s)
  <1> PICK s \in asked[p].secrets :
        /\ row[s].state = "unborn"
        /\ row' = [row EXCEPT ![s] = [state |-> "live", revision |-> 1, basis |-> 1,
                                      folder |-> asked[p].folder, tags |-> asked[p].tags]]
        /\ MarkMoved(s)
    BY DEF CreateCommit
  <1> DEFINE n == [state |-> "live", revision |-> 1, basis |-> 1,
                   folder |-> asked[p].folder, tags |-> asked[p].tags]
  <1>1. s \in Secrets
    BY AskedTyped
  <1>2. /\ n \in Row /\ n.state = "live" /\ n.revision = 1 /\ n.basis = 1
        /\ n.folder = asked[p].folder /\ n.tags = asked[p].tags
    BY AskedTyped DEF Row, States
  <1>3. row'[s] = n /\ row' \in [Secrets -> Row] /\ \A o \in Secrets \ {s} : row'[o] = row[o]
    BY <1>1, <1>2 DEF TypeOK
  <1> HIDE DEF n
  <1> QED
    BY <1>1, <1>2, <1>3

LEMMA SaveFacts ==
    ASSUME TypeOK, NEW p \in Pages, SaveCommit(p)
    PROVE  \E seen \in shown[p] :
             LET s == seen.secret
             IN  /\ s \in Secrets /\ row[s].state = "live" /\ row[s].revision = seen.row.revision
                 /\ row' \in [Secrets -> Row] /\ \A o \in Secrets \ {s} : row'[o] = row[o]
                 /\ row'[s].state = "live" /\ row'[s].revision = row[s].revision + 1
                 /\ row'[s].basis = seen.row.basis + 1
                 /\ row'[s].folder = asked[p].folder /\ row'[s].tags = asked[p].tags
                 /\ MarkMoved(s)
  <1> PICK seen \in shown[p] :
        /\ row[seen.secret].state = "live"
        /\ row[seen.secret].revision = seen.row.revision
        /\ row' = [row EXCEPT ![seen.secret] = Replaced(p, seen)]
        /\ MarkMoved(seen.secret)
    BY DEF SaveCommit
  <1> DEFINE n == Replaced(p, seen)
  <1>1. seen.secret \in Secrets /\ seen.row \in Row /\ row[seen.secret] \in Row
    BY ShownTyped DEF TypeOK
  <1>2. /\ n \in Row /\ n.state = "live" /\ n.revision = row[seen.secret].revision + 1
        /\ n.basis = seen.row.basis + 1
        /\ n.folder = asked[p].folder /\ n.tags = asked[p].tags
    BY <1>1, AskedTyped DEF Row, States, Replaced
  <1> HIDE DEF n
  <1>3. /\ row'[seen.secret] = n /\ row' \in [Secrets -> Row]
        /\ \A o \in Secrets \ {seen.secret} : row'[o] = row[o]
    BY <1>1, <1>2 DEF TypeOK, n
  <1> QED
    BY <1>1, <1>2, <1>3

LEMMA RetagFacts ==
    ASSUME TypeOK, NEW p \in Pages, RetagCommit(p)
    PROVE  \E s \in Secrets :
             /\ row[s].state = "live"
             /\ row' \in [Secrets -> Row] /\ \A o \in Secrets \ {s} : row'[o] = row[o]
             /\ row'[s].state = "live" /\ row'[s].revision = row[s].revision
             /\ row'[s].basis = row[s].basis /\ row'[s].folder = row[s].folder
             /\ row'[s].tags = asked[p].tags
             /\ Overtake(p, s)
  <1> PICK s \in asked[p].secrets :
        row[s].state = "live" /\ row' = [row EXCEPT ![s].tags = asked[p].tags] /\ Overtake(p, s)
    BY DEF RetagCommit
  <1>1. s \in Secrets /\ row[s] \in Row /\ asked[p].tags \subseteq Tags
    BY AskedTyped DEF TypeOK
  <1> DEFINE n == [row[s] EXCEPT !.tags = asked[p].tags]
  <1>2. row' = [row EXCEPT ![s] = n]
    OBVIOUS
  <1>3. /\ n \in Row /\ n.tags = asked[p].tags /\ n.state = row[s].state
        /\ n.revision = row[s].revision /\ n.basis = row[s].basis /\ n.folder = row[s].folder
    BY <1>1, RetaggedFacts
  <1> HIDE DEF n
  <1>4. row'[s] = n /\ row' \in [Secrets -> Row] /\ \A o \in Secrets \ {s} : row'[o] = row[o]
    BY <1>1, <1>2, <1>3 DEF TypeOK
  <1> QED
    BY <1>1, <1>3, <1>4

LEMMA DeleteFacts ==
    ASSUME TypeOK, NEW p \in Pages, DeleteCommit(p)
    PROVE  \E s \in Secrets :
             /\ row[s].state = "live"
             /\ row' \in [Secrets -> Row] /\ \A o \in Secrets \ {s} : row'[o] = row[o]
             /\ row'[s] = Deleted(s) /\ logged' = logged \cup {s} /\ MarkMoved(s)
  BY AskedTyped, DeletedFacts DEF DeleteCommit, TypeOK

LEMMA DeleteTagFacts ==
    ASSUME TypeOK, NEW p \in Pages, DeleteTag(p)
    PROVE  \E t \in Tags :
             /\ tag[t] = "live"
             /\ tag' = [tag EXCEPT ![t] = "deleted"] /\ tag' \in [Tags -> States]
             /\ row' \in [Secrets -> Row]
             /\ \A s \in Secrets :
                  /\ row'[s].tags = row[s].tags \ {t} /\ (t \notin row[s].tags => row'[s] = row[s])
                  /\ row'[s].state = row[s].state /\ row'[s].revision = row[s].revision
                  /\ row'[s].basis = row[s].basis /\ row'[s].folder = row[s].folder
             /\ overtaken' = overtaken \cup
                    {q \in Pages : \E seen \in shown[q] : t \in row[seen.secret].tags}
  <1> PICK t \in Tags :
         /\ tag[t] = "live"
         /\ tag' = [tag EXCEPT ![t] = "deleted"]
         /\ row' = [s \in Secrets |-> [row[s] EXCEPT !.tags = @ \ {t}]]
         /\ overtaken' = overtaken \cup
                {q \in Pages : \E seen \in shown[q] : t \in row[seen.secret].tags}
    BY DEF DeleteTag
  <1>1. ASSUME NEW s \in Secrets
        PROVE  /\ row'[s].tags = row[s].tags \ {t} /\ (t \notin row[s].tags => row'[s] = row[s])
               /\ row'[s].state = row[s].state /\ row'[s].revision = row[s].revision
               /\ row'[s].basis = row[s].basis /\ row'[s].folder = row[s].folder
               /\ row'[s] \in Row
    <2> DEFINE n == [row[s] EXCEPT !.tags = @ \ {t}]
    <2>1. row[s] \in Row /\ row'[s] = n
      BY DEF TypeOK
    <2> HIDE DEF n
    <2> QED
      BY <2>1, UntaggedFacts DEF n
  <1>2. row' \in [Secrets -> Row]
    BY <1>1
  <1>3. tag' \in [Tags -> States]
    BY DEF TypeOK, States
  <1> QED
    BY <1>1, <1>2, <1>3

LEMMA OrphanFacts ==
    ASSUME TypeOK, NEW p \in Pages, OrphanCommit(p)
    PROVE  \E f \in Folders :
             /\ folder[f] = "live"
             /\ folder' = [folder EXCEPT ![f] = "deleted"] /\ folder' \in [Folders -> States]
             /\ row' \in [Secrets -> Row]
             /\ \A s \in Secrets :
                  /\ row'[s].folder = row[s].folder \ {f} /\ (f \notin row[s].folder => row'[s] = row[s])
                  /\ row'[s].state = row[s].state /\ row'[s].revision = row[s].revision
                  /\ row'[s].basis = row[s].basis /\ row'[s].tags = row[s].tags
             /\ overtaken' = overtaken \cup
                    {q \in Pages : \E seen \in shown[q] : f \in row[seen.secret].folder}
  <1> PICK f \in asked[p].folder :
         /\ folder[f] = "live"
         /\ folder' = [folder EXCEPT ![f] = "deleted"]
         /\ row' = [s \in Secrets |-> [row[s] EXCEPT !.folder = @ \ {f}]]
         /\ overtaken' = overtaken \cup
                {q \in Pages : \E seen \in shown[q] : f \in row[seen.secret].folder}
    BY DEF OrphanCommit, Stands
  <1>0. f \in Folders
    BY AskedTyped
  <1>1. ASSUME NEW s \in Secrets
        PROVE  /\ row'[s].folder = row[s].folder \ {f} /\ (f \notin row[s].folder => row'[s] = row[s])
               /\ row'[s].state = row[s].state /\ row'[s].revision = row[s].revision
               /\ row'[s].basis = row[s].basis /\ row'[s].tags = row[s].tags
               /\ row'[s] \in Row
    <2> DEFINE n == [row[s] EXCEPT !.folder = @ \ {f}]
    <2>1. row[s] \in Row /\ row'[s] = n
      BY DEF TypeOK
    <2> HIDE DEF n
    <2> QED
      BY <1>0, <2>1, UnfiledFacts DEF n
  <1>2. row' \in [Secrets -> Row]
    BY <1>1
  <1>3. folder' \in [Folders -> States]
    BY <1>0 DEF TypeOK, States
  <1> QED
    BY <1>0, <1>1, <1>2, <1>3

LEMMA ListFacts ==
    ASSUME TypeOK, NEW p \in Pages, CascadeList(p)
    PROVE  /\ asked' \in [Pages -> Asked]
           /\ asked[p].kind = "cascade" /\ asked'[p].kind = "emptying"
           /\ asked'[p].folder = asked[p].folder
           /\ asked'[p].secrets = UNION {Inside(f) : f \in asked[p].folder}
           /\ \A q \in Pages \ {p} : asked'[q] = asked[q]
  <1>1. UNION {Inside(f) : f \in asked[p].folder} \subseteq Secrets
    BY DEF Inside
  <1> QED
    BY <1>1 DEF CascadeList, TypeOK, Asked

LEMMA CascadeFacts ==
    ASSUME TypeOK, NEW p \in Pages, CascadeCommit(p)
    PROVE  \E f \in asked[p].folder :
             /\ f \in Folders /\ folder[f] = "live"
             /\ folder' = [folder EXCEPT ![f] = "deleted"] /\ folder' \in [Folders -> States]
             /\ row' \in [Secrets -> Row]
             /\ \A s \in Inside(f) : row'[s] = Deleted(s)
             /\ \A s \in Secrets \ Inside(f) : row'[s] = row[s]
  <1> PICK f \in asked[p].folder :
         /\ folder[f] = "live"
         /\ folder' = [folder EXCEPT ![f] = "deleted"]
         /\ row' = [s \in Secrets |-> IF s \in Inside(f) THEN Deleted(s) ELSE row[s]]
    BY DEF CascadeCommit, Stands
  <1>0. f \in Folders /\ Inside(f) \subseteq Secrets
    BY AskedTyped DEF Inside
  <1>1. \A s \in Secrets : Deleted(s) \in Row /\ row[s] \in Row
    BY DeletedFacts DEF TypeOK
  <1>2. row' \in [Secrets -> Row]
    BY <1>1
  <1>3. folder' \in [Folders -> States]
    BY <1>0 DEF TypeOK, States
  <1> QED
    BY <1>0, <1>2, <1>3

(* The kinds of step, and what each leaves alone.                           *)
LEMMA NextCases ==
    ASSUME [Next]_vars
    PROVE  \/ UNCHANGED vars
           \/ \E p \in Pages :
                \/ Looking(p) \/ Load(p) \/ Refused(p) \/ CreateLabel(p) \/ CreateCommit(p) \/ SaveCommit(p)
                \/ RetagCommit(p) \/ DeleteCommit(p) \/ DeleteTag(p) \/ OrphanCommit(p)
                \/ CascadeList(p) \/ CascadeCommit(p)
  BY DEF Next, Looking

-----------------------------------------------------------------------------
(* Types *)

LEMMA InitTyped == Init => TypeOK
  BY UnbornTyped, NothingTyped DEF Init, TypeOK, States

LEMMA NextTyped == TypeOK /\ [Next]_vars => TypeOK'
  <1> SUFFICES ASSUME TypeOK, [Next]_vars
               PROVE  TypeOK'
    OBVIOUS
  <1>0. CASE UNCHANGED vars
    BY <1>0 DEF TypeOK, vars, labels
  <1>1. ASSUME NEW p \in Pages, Looking(p)
        PROVE  TypeOK'
    BY <1>1, LookingFacts DEF TypeOK
  <1>2. ASSUME NEW p \in Pages, Load(p)
        PROVE  TypeOK'
    <2> PICK s \in Secrets : shown' = [shown EXCEPT ![p] = {[secret |-> s, row |-> row[s]]}]
      BY <1>2 DEF Load
    <2>1. {[secret |-> s, row |-> row[s]]} \in SUBSET [secret : Secrets, row : Row]
      BY DEF TypeOK
    <2>2. shown' \in [Pages -> SUBSET [secret : Secrets, row : Row]]
      BY <2>1 DEF TypeOK
    <2> QED
      BY <1>2, <2>2 DEF TypeOK, Load, labels
  <1>3. ASSUME NEW p \in Pages, Refused(p)
        PROVE  TypeOK'
    BY <1>3, AnsweredFacts DEF TypeOK, Refused, labels
  <1>4. ASSUME NEW p \in Pages, CreateLabel(p)
        PROVE  TypeOK'
    BY <1>4 DEF TypeOK, CreateLabel, States
  <1>5. ASSUME NEW p \in Pages, CreateCommit(p)
        PROVE  TypeOK'
    <2>1. row' \in [Secrets -> Row] /\ moved' \subseteq Secrets
      BY <1>5, CreateFacts, MarkTyped
    <2> QED
      BY <1>5, <2>1, AnsweredFacts DEF TypeOK, CreateCommit, labels
  <1>6. ASSUME NEW p \in Pages, SaveCommit(p)
        PROVE  TypeOK'
    <2>1. row' \in [Secrets -> Row] /\ moved' \subseteq Secrets
      BY <1>6, SaveFacts, MarkTyped
    <2>2. shown' = [shown EXCEPT ![p] = {}]
      BY <1>6 DEF SaveCommit
    <2> QED
      BY <1>6, <2>1, <2>2, AnsweredFacts DEF TypeOK, SaveCommit, labels
  <1>7. ASSUME NEW p \in Pages, RetagCommit(p)
        PROVE  TypeOK'
    <2>1. row' \in [Secrets -> Row] /\ overtaken' \subseteq Pages
      BY <1>7, RetagFacts DEF Overtake, TypeOK
    <2> QED
      BY <1>7, <2>1, AnsweredFacts DEF TypeOK, RetagCommit, labels
  <1>8. ASSUME NEW p \in Pages, DeleteCommit(p)
        PROVE  TypeOK'
    <2>1. row' \in [Secrets -> Row] /\ moved' \subseteq Secrets /\ logged' \subseteq Secrets
      BY <1>8, DeleteFacts, MarkTyped DEF TypeOK
    <2> QED
      BY <1>8, <2>1, AnsweredFacts DEF TypeOK, DeleteCommit, labels
  <1>9. ASSUME NEW p \in Pages, DeleteTag(p)
        PROVE  TypeOK'
    <2>1. row' \in [Secrets -> Row] /\ tag' \in [Tags -> States] /\ overtaken' \subseteq Pages
      BY <1>9, DeleteTagFacts DEF TypeOK
    <2> QED
      BY <1>9, <2>1 DEF TypeOK, DeleteTag
  <1>10. ASSUME NEW p \in Pages, OrphanCommit(p)
         PROVE  TypeOK'
    <2>1. row' \in [Secrets -> Row] /\ folder' \in [Folders -> States] /\ overtaken' \subseteq Pages
      BY <1>10, OrphanFacts DEF TypeOK
    <2> QED
      BY <1>10, <2>1, AnsweredFacts DEF TypeOK, OrphanCommit
  <1>11. ASSUME NEW p \in Pages, CascadeList(p)
         PROVE  TypeOK'
    BY <1>11, ListFacts DEF TypeOK, CascadeList, labels
  <1>12. ASSUME NEW p \in Pages, CascadeCommit(p)
         PROVE  TypeOK'
    <2>1. row' \in [Secrets -> Row] /\ folder' \in [Folders -> States]
      BY <1>12, CascadeFacts
    <2>2. logged' \subseteq Secrets
      BY <1>12, AskedTyped DEF CascadeCommit, TypeOK
    <2> QED
      BY <1>12, <2>1, <2>2, AnsweredFacts DEF TypeOK, CascadeCommit
  <1> QED
    BY <1>0, <1>1, <1>2, <1>3, <1>4, <1>5, <1>6, <1>7, <1>8, <1>9, <1>10, <1>11, <1>12, NextCases

(* Every variable of the store has its type, however the requests of the    *)
(* pages interleave.  (SecretStore, all of it)                              *)
THEOREM RowsTyped == Spec => []TypeOK
  BY InitTyped, NextTyped, PTL DEF Spec

-----------------------------------------------------------------------------
(* Saves *)

(* A page shows a row as it was when it had taken in every save so far.     *)
ShownCounts == \A p \in Pages : \A seen \in shown[p] : seen.row.basis = seen.row.revision

SaveInv == TypeOK /\ EverySaveCounts /\ ShownCounts

(* What pages show is dropped, or left as it is.                            *)
LEMMA ShownShrinks ==
    ASSUME TypeOK, NEW p \in Pages, shown' = [shown EXCEPT ![p] = {}] \/ UNCHANGED shown
    PROVE  \A q \in Pages : shown'[q] \subseteq shown[q]
  BY DEF TypeOK

LEMMA NextSave == SaveInv /\ [Next]_vars => SaveInv'
  <1> SUFFICES ASSUME SaveInv, [Next]_vars
               PROVE  EverySaveCounts' /\ ShownCounts'
    BY NextTyped DEF SaveInv
  <1> USE DEF SaveInv
  <1>0. CASE UNCHANGED vars
    BY <1>0 DEF EverySaveCounts, ShownCounts, vars
  <1>1. ASSUME NEW p \in Pages, Looking(p) \/ Refused(p) \/ CreateLabel(p) \/ CascadeList(p)
        PROVE  EverySaveCounts' /\ ShownCounts'
    BY <1>1, LookingFacts DEF Refused, CreateLabel, CascadeList, EverySaveCounts, ShownCounts
  <1>2. ASSUME NEW p \in Pages, Load(p)
        PROVE  EverySaveCounts' /\ ShownCounts'
    <2> PICK s \in Secrets : shown' = [shown EXCEPT ![p] = {[secret |-> s, row |-> row[s]]}]
      BY <1>2 DEF Load
    <2>1. \A q \in Pages : \A seen \in shown'[q] :
             seen \in shown[q] \/ seen.row = row[s]
      BY DEF TypeOK
    <2> QED
      BY <1>2, <2>1 DEF Load, EverySaveCounts, ShownCounts
  <1>3. ASSUME NEW p \in Pages,
               CreateCommit(p) \/ SaveCommit(p) \/ RetagCommit(p) \/ DeleteCommit(p)
        PROVE  EverySaveCounts' /\ ShownCounts'
    <2>1. EverySaveCounts'
      <3>1. CASE CreateCommit(p)
        BY <3>1, CreateFacts DEF EverySaveCounts
      <3>2. CASE SaveCommit(p)
        BY <3>2, SaveFacts DEF EverySaveCounts, ShownCounts
      <3>3. CASE RetagCommit(p)
        BY <3>3, RetagFacts DEF EverySaveCounts
      <3>4. CASE DeleteCommit(p)
        BY <3>4, DeleteFacts, DeletedFacts DEF EverySaveCounts
      <3> QED
        BY <1>3, <3>1, <3>2, <3>3, <3>4
    <2>2. shown' = [shown EXCEPT ![p] = {}] \/ UNCHANGED shown
      BY <1>3 DEF CreateCommit, SaveCommit, RetagCommit, DeleteCommit
    <2> QED
      BY <2>1, <2>2, ShownShrinks DEF ShownCounts
  <1>4. ASSUME NEW p \in Pages, DeleteTag(p) \/ OrphanCommit(p) \/ CascadeCommit(p)
        PROVE  EverySaveCounts' /\ ShownCounts'
    <2>1. UNCHANGED shown
      BY <1>4 DEF DeleteTag, OrphanCommit, CascadeCommit
    <2>2. \A s \in Secrets : row'[s].basis = row[s].basis /\ row'[s].revision = row[s].revision
      BY <1>4, DeleteTagFacts, OrphanFacts, CascadeFacts, DeletedFacts DEF Inside
    <2> QED
      BY <2>1, <2>2 DEF EverySaveCounts, ShownCounts
  <1> QED
    BY <1>0, <1>1, <1>2, <1>3, <1>4, NextCases

(* A save that is accepted has been made of the text that it replaces, so   *)
(* the text of a secret has taken in every save of it, whoever else was     *)
(* writing.  (secrets.routes.ts:160-171, SecretList.tsx:320)                *)
THEOREM NoSaveIsLost == Spec => []EverySaveCounts
  <1>1. Init => SaveInv
    BY InitTyped, UnbornTyped DEF Init, SaveInv, EverySaveCounts, ShownCounts
  <1>2. SaveInv => EverySaveCounts
    BY DEF SaveInv
  <1> QED
    BY <1>1, <1>2, NextSave, PTL DEF Spec

(* Unless it has been overtaken, a page that shows a live row at its        *)
(* revision shows the row: only a save moves the revision, and only what    *)
(* overtakes the page changes a row without moving it.                      *)
ShownOnce == \A p \in Pages : \A a, b \in shown[p] : a = b

ShownBehind ==
    \A p \in Pages : \A seen \in shown[p] :
        LET s == seen.secret
        IN  /\ row[s].state # "unborn" /\ seen.row.revision <= row[s].revision
            /\ row[s].state = "live" /\ row[s].revision = seen.row.revision /\ p \notin overtaken
                => row[s] = seen.row

ShownInv == TypeOK /\ ShownOnce /\ ShownBehind

LEMMA NextShown == ShownInv /\ [Next]_vars => ShownInv'
  <1> SUFFICES ASSUME ShownInv, [Next]_vars
               PROVE  ShownOnce' /\ ShownBehind'
    BY NextTyped DEF ShownInv
  <1> USE DEF ShownInv
  <1>r. \A s \in Secrets : row[s].revision \in Nat
    BY DEF TypeOK, Row
  <1>t. \A p \in Pages : \A seen \in shown[p] : seen.secret \in Secrets /\ seen.row.revision \in Nat
    BY DEF TypeOK, Row
  <1>0. CASE UNCHANGED vars
    BY <1>0 DEF ShownOnce, ShownBehind, vars
  <1>1. ASSUME NEW p \in Pages, Looking(p) \/ Refused(p) \/ CreateLabel(p) \/ CascadeList(p)
        PROVE  ShownOnce' /\ ShownBehind'
    BY <1>1, LookingFacts DEF Refused, CreateLabel, CascadeList, ShownOnce, ShownBehind
  <1>2. ASSUME NEW p \in Pages, Load(p)
        PROVE  ShownOnce' /\ ShownBehind'
    <2> PICK s \in Secrets :
          /\ row[s].state = "live"
          /\ shown' = [shown EXCEPT ![p] = {[secret |-> s, row |-> row[s]]}]
      BY <1>2 DEF Load
    <2>1. /\ shown'[p] = {[secret |-> s, row |-> row[s]]}
          /\ \A q \in Pages \ {p} : shown'[q] = shown[q]
      BY DEF TypeOK
    <2>2. UNCHANGED row /\ overtaken' = overtaken \ {p}
      BY <1>2 DEF Load
    <2>3. ShownOnce'
      BY <2>1 DEF ShownOnce
    <2>4. ASSUME NEW q \in Pages, NEW seen \in shown'[q]
          PROVE  /\ row[seen.secret].state # "unborn" /\ seen.row.revision <= row[seen.secret].revision
                 /\ row[seen.secret].state = "live" /\ row[seen.secret].revision = seen.row.revision
                    /\ q \notin overtaken' => row[seen.secret] = seen.row
      <3>1. CASE q = p
        <4>1. seen.secret = s /\ seen.row = row[s]
          BY <2>1, <3>1
        <4> QED
          BY <4>1, <1>r
      <3>2. CASE q # p
        BY <2>1, <2>2, <3>2 DEF ShownBehind
      <3> QED
        BY <3>1, <3>2
    <2> QED
      BY <2>2, <2>3, <2>4 DEF ShownBehind
  <1>3. ASSUME NEW p \in Pages, CreateCommit(p)
        PROVE  ShownOnce' /\ ShownBehind'
    <2>1. UNCHANGED <<shown, overtaken>>
      BY <1>3 DEF CreateCommit
    <2> QED
      BY <1>3, <1>t, <2>1, CreateFacts DEF ShownOnce, ShownBehind
  <1>4. ASSUME NEW p \in Pages, SaveCommit(p)
        PROVE  ShownOnce' /\ ShownBehind'
    <2>1. /\ shown'[p] = {} /\ \A q \in Pages \ {p} : shown'[q] = shown[q]
          /\ overtaken' = overtaken \ {p}
      BY <1>4 DEF SaveCommit, TypeOK
    <2> PICK s \in Secrets :
          /\ row[s].state = "live" /\ row'[s].state = "live" /\ row'[s].revision = row[s].revision + 1
          /\ \A o \in Secrets \ {s} : row'[o] = row[o]
      BY <1>4, SaveFacts
    <2>2. ShownOnce'
      BY <2>1 DEF ShownOnce
    <2>3. ASSUME NEW q \in Pages, NEW seen \in shown'[q]
          PROVE  /\ row'[seen.secret].state # "unborn" /\ seen.row.revision <= row'[seen.secret].revision
                 /\ row'[seen.secret].state = "live" /\ row'[seen.secret].revision = seen.row.revision
                    /\ q \notin overtaken' => row'[seen.secret] = seen.row
      <3>1. q # p /\ seen \in shown[q]
        BY <2>1
      <3>2. CASE seen.secret = s
        BY <1>r, <1>t, <3>1, <3>2 DEF ShownBehind
      <3>3. CASE seen.secret # s
        BY <1>t, <2>1, <3>1, <3>3 DEF ShownBehind
      <3> QED
        BY <3>2, <3>3
    <2> QED
      BY <2>2, <2>3 DEF ShownBehind
  <1>5. ASSUME NEW p \in Pages, RetagCommit(p)
        PROVE  ShownOnce' /\ ShownBehind'
    <2>1. shown'[p] = {} /\ \A q \in Pages \ {p} : shown'[q] = shown[q]
      BY <1>5 DEF RetagCommit, TypeOK
    <2> PICK s \in Secrets :
          /\ row[s].state = "live" /\ row'[s].state = "live" /\ row'[s].revision = row[s].revision
          /\ \A o \in Secrets \ {s} : row'[o] = row[o]
          /\ Overtake(p, s)
      BY <1>5, RetagFacts
    <2> QED
      BY <1>t, <2>1 DEF Overtake, ShownOnce, ShownBehind
  <1>6. ASSUME NEW p \in Pages, DeleteCommit(p)
        PROVE  ShownOnce' /\ ShownBehind'
    <2>1. /\ shown'[p] = {} /\ \A q \in Pages \ {p} : shown'[q] = shown[q]
          /\ UNCHANGED overtaken
      BY <1>6 DEF DeleteCommit, TypeOK
    <2> PICK s \in Secrets :
          /\ row'[s].state = "deleted" /\ row'[s].revision = row[s].revision
          /\ \A o \in Secrets \ {s} : row'[o] = row[o]
      BY <1>6, DeleteFacts, DeletedFacts
    <2> QED
      BY <1>t, <2>1 DEF ShownOnce, ShownBehind
  <1>7. ASSUME NEW p \in Pages, DeleteTag(p)
        PROVE  ShownOnce' /\ ShownBehind'
    <2>1. UNCHANGED shown
      BY <1>7 DEF DeleteTag
    <2> QED
      BY <1>7, <1>t, <2>1, DeleteTagFacts DEF ShownOnce, ShownBehind
  <1>8. ASSUME NEW p \in Pages, OrphanCommit(p)
        PROVE  ShownOnce' /\ ShownBehind'
    <2>1. UNCHANGED shown
      BY <1>8 DEF OrphanCommit
    <2> QED
      BY <1>8, <1>t, <2>1, OrphanFacts DEF ShownOnce, ShownBehind
  <1>9. ASSUME NEW p \in Pages, CascadeCommit(p)
        PROVE  ShownOnce' /\ ShownBehind'
    <2>1. UNCHANGED <<shown, overtaken>>
      BY <1>9 DEF CascadeCommit
    <2>2. \A s \in Secrets :
            \/ row'[s] = row[s]
            \/ row'[s].state = "deleted" /\ row'[s].revision = row[s].revision
      BY <1>9, CascadeFacts, DeletedFacts DEF Inside
    <2> QED
      BY <1>t, <2>1, <2>2 DEF ShownOnce, ShownBehind
  <1> QED
    BY <1>0, <1>1, <1>2, <1>3, <1>4, <1>5, <1>6, <1>7, <1>8, <1>9, NextCases

(* The request of a page is answered by a step of that page, and the only   *)
(* answer that moves a revision is that to a save.                          *)
LEMMA StepReplacesShown ==
    ASSUME ShownInv, [Next]_vars, NEW p \in Pages, NEW seen \in shown[p],
           asked[p].kind = "save", row'[seen.secret].revision > row[seen.secret].revision,
           asked'[p] = Nothing
    PROVE  row[seen.secret] = seen.row \/ p \in overtaken
  <1> USE DEF ShownInv
  <1>s. seen.secret \in Secrets /\ row[seen.secret].revision \in Nat
    BY DEF TypeOK, Row
  <1>n. asked'[p] # asked[p]
    BY NothingTyped
  <1>1. CASE UNCHANGED vars
    BY <1>1, <1>n DEF vars
  <1>2. ASSUME NEW q \in Pages,
               Looking(q) \/ Load(q) \/ Refused(q) \/ CreateLabel(q) \/ CascadeList(q)
        PROVE  FALSE
    <2>1. UNCHANGED row
      BY <1>2, LookingFacts DEF Load, Refused, CreateLabel, CascadeList
    <2> QED
      BY <1>s, <2>1
  <1>3. ASSUME NEW q \in Pages,
               CreateCommit(q) \/ RetagCommit(q) \/ DeleteCommit(q) \/ OrphanCommit(q) \/ CascadeCommit(q)
        PROVE  FALSE
    <2>1. q # p
      BY <1>3 DEF CreateCommit, RetagCommit, DeleteCommit, OrphanCommit, CascadeCommit
    <2>2. Answered(q)
      BY <1>3 DEF CreateCommit, RetagCommit, DeleteCommit, OrphanCommit, CascadeCommit
    <2> QED
      BY <1>n, <2>1, <2>2, AnsweredFacts
  <1>4. ASSUME NEW q \in Pages, DeleteTag(q)
        PROVE  FALSE
    BY <1>4, <1>n DEF DeleteTag
  <1>5. ASSUME NEW q \in Pages, SaveCommit(q)
        PROVE  row[seen.secret] = seen.row \/ p \in overtaken
    <2>1. q = p
      BY <1>5, <1>n, AnsweredFacts DEF SaveCommit
    <2> PICK mine \in shown[p] :
          row[mine.secret].state = "live" /\ row[mine.secret].revision = mine.row.revision
      BY <1>5, <2>1, SaveFacts
    <2>2. mine = seen
      BY DEF ShownOnce
    <2> QED
      BY <2>2 DEF ShownBehind
  <1> QED
    BY <1>1, <1>2, <1>3, <1>4, <1>5, NextCases

(* The row that a save replaces is filed and tagged as the page that made   *)
(* it was showing, unless somebody has changed its tags or deleted its      *)
(* folder or a tag of it since: those do not move the revision, and the     *)
(* save takes them back.  (SecretList.tsx:333-350)                          *)
THEOREM SaveTakesNothingBack == Spec => SavesReplaceWhatIsShown
  <1> DEFINE Taken ==
        \A p \in Pages : \A seen \in shown[p] :
            /\ asked[p].kind = "save"
            /\ row'[seen.secret].revision > row[seen.secret].revision
            /\ asked'[p] = Nothing
            => row[seen.secret] = seen.row \/ p \in overtaken
  <1>1. Init => ShownInv
    BY InitTyped DEF Init, ShownInv, ShownOnce, ShownBehind
  <1>2. ShownInv /\ [Next]_vars => Taken
    BY StepReplacesShown
  <1>3. SavesReplaceWhatIsShown <=> [][Taken]_vars
    BY DEF SavesReplaceWhatIsShown
  <1> QED
    BY <1>1, <1>2, <1>3, NextShown, PTL DEF Spec

-----------------------------------------------------------------------------
(* Folders and tags *)

(* What is not live is filed nowhere and carries nothing.                   *)
GoneIsBare ==
    \A s \in Secrets : row[s].state # "live" => row[s].folder = {} /\ row[s].tags = {}

LabelInv == TypeOK /\ GoneIsBare /\ NothingDangles

LEMMA NextLabel == LabelInv /\ [Next]_vars => LabelInv'
  <1> SUFFICES ASSUME LabelInv, [Next]_vars
               PROVE  GoneIsBare' /\ NothingDangles'
    BY NextTyped DEF LabelInv
  <1> USE DEF LabelInv
  <1>t. \A s \in Secrets : row[s].folder \subseteq Folders /\ row[s].tags \subseteq Tags
    BY DEF TypeOK, Row
  <1>0. CASE UNCHANGED vars
    BY <1>0 DEF GoneIsBare, NothingDangles, Stands, vars, labels
  <1>1. ASSUME NEW p \in Pages, Looking(p) \/ Refused(p) \/ Load(p) \/ CascadeList(p)
        PROVE  GoneIsBare' /\ NothingDangles'
    <2>1. UNCHANGED <<row, folder, tag>>
      BY <1>1, LookingFacts DEF Refused, Load, CascadeList, labels
    <2> QED
      BY <2>1 DEF GoneIsBare, NothingDangles, Stands
  <1>2. ASSUME NEW p \in Pages, CreateLabel(p)
        PROVE  GoneIsBare' /\ NothingDangles'
    <2>1. UNCHANGED row
      BY <1>2 DEF CreateLabel
    <2>2. /\ \A f \in Folders : folder[f] = "live" => folder'[f] = "live"
          /\ \A t \in Tags : tag[t] = "live" => tag'[t] = "live"
      BY <1>2 DEF CreateLabel, TypeOK
    <2> QED
      BY <1>t, <2>1, <2>2 DEF GoneIsBare, NothingDangles, Stands
  <1>3. ASSUME NEW p \in Pages, CreateCommit(p) \/ SaveCommit(p)
        PROVE  GoneIsBare' /\ NothingDangles'
    <2>1. /\ Stands(asked[p].folder, folder) /\ Stands(asked[p].tags, tag)
          /\ UNCHANGED <<folder, tag>>
      BY <1>3 DEF CreateCommit, SaveCommit, labels
    <2> PICK s \in Secrets :
          /\ row'[s].state = "live"
          /\ row'[s].folder = asked[p].folder /\ row'[s].tags = asked[p].tags
          /\ \A o \in Secrets \ {s} : row'[o] = row[o]
      BY <1>3, CreateFacts, SaveFacts
    <2> QED
      BY <2>1 DEF GoneIsBare, NothingDangles, Stands
  <1>4. ASSUME NEW p \in Pages, RetagCommit(p)
        PROVE  GoneIsBare' /\ NothingDangles'
    <2>1. Stands(asked[p].tags, tag) /\ UNCHANGED <<folder, tag>>
      BY <1>4 DEF RetagCommit, labels
    <2> PICK s \in Secrets :
          /\ row'[s].state = "live"
          /\ row'[s].folder = row[s].folder /\ row'[s].tags = asked[p].tags
          /\ \A o \in Secrets \ {s} : row'[o] = row[o]
      BY <1>4, RetagFacts
    <2> QED
      BY <2>1 DEF GoneIsBare, NothingDangles, Stands
  <1>5. ASSUME NEW p \in Pages, DeleteCommit(p)
        PROVE  GoneIsBare' /\ NothingDangles'
    <2>1. UNCHANGED <<folder, tag>>
      BY <1>5 DEF DeleteCommit, labels
    <2> PICK s \in Secrets :
          /\ row'[s].folder = {} /\ row'[s].tags = {}
          /\ \A o \in Secrets \ {s} : row'[o] = row[o]
      BY <1>5, DeleteFacts, DeletedFacts
    <2> QED
      BY <2>1 DEF GoneIsBare, NothingDangles, Stands
  <1>6. ASSUME NEW p \in Pages, DeleteTag(p)
        PROVE  GoneIsBare' /\ NothingDangles'
    <2>1. UNCHANGED folder
      BY <1>6 DEF DeleteTag
    <2> PICK t \in Tags :
          /\ \A u \in Tags \ {t} : tag'[u] = tag[u]
          /\ \A s \in Secrets : /\ row'[s].tags = row[s].tags \ {t} /\ row'[s].state = row[s].state
                                /\ row'[s].folder = row[s].folder
      BY <1>6, DeleteTagFacts DEF TypeOK
    <2> QED
      BY <1>t, <2>1 DEF GoneIsBare, NothingDangles, Stands
  <1>7. ASSUME NEW p \in Pages, OrphanCommit(p)
        PROVE  GoneIsBare' /\ NothingDangles'
    <2>1. UNCHANGED tag
      BY <1>7 DEF OrphanCommit
    <2> PICK f \in Folders :
          /\ \A g \in Folders \ {f} : folder'[g] = folder[g]
          /\ \A s \in Secrets : /\ row'[s].folder = row[s].folder \ {f} /\ row'[s].state = row[s].state
                                /\ row'[s].tags = row[s].tags
      BY <1>7, OrphanFacts DEF TypeOK
    <2> QED
      BY <1>t, <2>1 DEF GoneIsBare, NothingDangles, Stands
  <1>8. ASSUME NEW p \in Pages, CascadeCommit(p)
        PROVE  GoneIsBare' /\ NothingDangles'
    <2>1. UNCHANGED tag
      BY <1>8 DEF CascadeCommit
    <2> PICK f \in Folders :
          /\ \A g \in Folders \ {f} : folder'[g] = folder[g]
          /\ \A s \in Inside(f) : row'[s] = Deleted(s)
          /\ \A s \in Secrets \ Inside(f) : row'[s] = row[s]
      BY <1>8, CascadeFacts DEF TypeOK
    <2>2. \A s \in Secrets :
            \/ row'[s].folder = {} /\ row'[s].tags = {}
            \/ row'[s] = row[s] /\ f \notin row[s].folder
      BY DeletedFacts DEF Inside, GoneIsBare
    <2> QED
      BY <1>t, <2>1, <2>2 DEF GoneIsBare, NothingDangles, Stands
  <1> QED
    BY <1>0, <1>1, <1>2, <1>3, <1>4, <1>5, <1>6, <1>7, <1>8, NextCases

(* A secret is never left in a folder that has gone or under a tag that     *)
(* has, whatever was between a handler's look and its write.                *)
(* (organise.routes.ts:55-59, 123-126)                                      *)
THEOREM LabelsStand == Spec => []NothingDangles
  <1>1. Init => LabelInv
    BY InitTyped, UnbornTyped DEF Init, LabelInv, GoneIsBare, NothingDangles, Stands
  <1>2. LabelInv => NothingDangles
    BY DEF LabelInv
  <1> QED
    BY <1>1, <1>2, NextLabel, PTL DEF Spec

-----------------------------------------------------------------------------
(* The log *)

(* A secret is in one folder at most, and a request names one at most.      *)
OneFolder ==
    /\ \A s \in Secrets : row[s].folder \in Choices
    /\ \A p \in Pages : asked[p].folder \in Choices

(* A folder that is to be emptied has been there.                           *)
EmptiesWhatWas ==
    \A p \in Pages : \A f \in asked[p].folder :
        asked[p].kind \in {"cascade", "emptying"} => folder[f] # "unborn"

(* What a page has listed of a folder that still stands is what is in it,   *)
(* but for the secrets written since.                                       *)
ListedIsInside ==
    \A p \in Pages : \A f \in asked[p].folder :
        asked[p].kind = "emptying" /\ folder[f] = "live"
        => \A s \in Secrets \ moved : s \in asked[p].secrets <=> s \in Inside(f)

LogInv == TypeOK /\ OneFolder /\ EmptiesWhatWas /\ ListedIsInside /\ LogMatchesDeletions

LEMMA ChoicesFacts ==
    /\ {} \in Choices
    /\ \A c \in Choices : \A f, g \in c : f = g
    /\ \A c \in Choices : \A f : c \ {f} \in Choices
  BY DEF Choices

(* The lists that were made of a folder are still right when no request     *)
(* has begun to empty one, and what is in a folder that stands is what was, *)
(* but for secrets that have been written.                                  *)
LEMMA StillListed ==
    ASSUME LogInv, moved \subseteq moved',
           \A q \in Pages : asked'[q] = asked[q] \/ asked'[q].kind # "emptying",
           \A f \in Folders : folder'[f] = "live" => folder[f] \in {"unborn", "live"},
           \A f \in Folders : folder'[f] = "live" =>
              \A s \in Secrets \ moved' : s \in Inside(f) <=> s \in Inside(f)'
    PROVE  ListedIsInside'
  <1> SUFFICES ASSUME NEW q \in Pages, NEW f \in asked'[q].folder,
                      asked'[q].kind = "emptying", folder'[f] = "live",
                      NEW s \in Secrets \ moved'
               PROVE  s \in asked'[q].secrets <=> s \in Inside(f)'
    BY DEF ListedIsInside
  <1>1. asked'[q] = asked[q] /\ f \in Folders
    BY AskedTyped DEF LogInv
  <1>2. folder[f] = "live"
    BY <1>1 DEF LogInv, EmptiesWhatWas
  <1>3. s \in asked[q].secrets <=> s \in Inside(f)
    BY <1>1, <1>2 DEF LogInv, ListedIsInside
  <1> QED
    BY <1>1, <1>3

(* Nobody has yet been promised the new folder, and a folder that has gone  *)
(* does not come back.                                                      *)
LEMMA StillAimed ==
    ASSUME LogInv,
           \A q \in Pages : asked'[q] = asked[q] \/ asked'[q] = Nothing,
           \A f \in Folders : folder[f] # "unborn" => folder'[f] # "unborn"
    PROVE  EmptiesWhatWas'
  BY NothingTyped, AskedTyped DEF LogInv, EmptiesWhatWas

LEMMA NextLog == LogInv /\ [Next]_vars => LogInv'
  <1> SUFFICES ASSUME LogInv, [Next]_vars
               PROVE  OneFolder' /\ EmptiesWhatWas' /\ ListedIsInside' /\ LogMatchesDeletions'
    BY NextTyped DEF LogInv
  <1> USE DEF LogInv
  <1>n. Nothing.kind # "emptying" /\ Nothing.folder \in Choices
    BY NothingTyped, ChoicesFacts
  <1>0. CASE UNCHANGED vars
    BY <1>0 DEF OneFolder, EmptiesWhatWas, ListedIsInside, LogMatchesDeletions, Inside, vars, labels
  <1>1. ASSUME NEW p \in Pages, Looking(p)
        PROVE  OneFolder' /\ EmptiesWhatWas' /\ ListedIsInside' /\ LogMatchesDeletions'
    <2>1. OneFolder' /\ EmptiesWhatWas' /\ LogMatchesDeletions'
      BY <1>1, LookingFacts DEF OneFolder, EmptiesWhatWas, LogMatchesDeletions
    <2>2. ListedIsInside'
      BY <1>1, LookingFacts DEF ListedIsInside, Inside
    <2> QED
      BY <2>1, <2>2
  <1>2. ASSUME NEW p \in Pages, Refused(p) \/ Load(p)
        PROVE  OneFolder' /\ EmptiesWhatWas' /\ ListedIsInside' /\ LogMatchesDeletions'
    <2>1. UNCHANGED <<row, folder, moved, logged>>
      BY <1>2 DEF Refused, Load, labels
    <2>2. \A q \in Pages : asked'[q] = asked[q] \/ asked'[q] = Nothing
      BY <1>2, AnsweredFacts DEF Refused, Load
    <2> QED
      BY <1>n, <2>1, <2>2, StillAimed DEF OneFolder, ListedIsInside, LogMatchesDeletions, Inside
  <1>3. ASSUME NEW p \in Pages, CreateLabel(p)
        PROVE  OneFolder' /\ EmptiesWhatWas' /\ ListedIsInside' /\ LogMatchesDeletions'
    <2>1. UNCHANGED <<row, asked, moved, logged>>
      BY <1>3 DEF CreateLabel
    <2>2. /\ \A f \in Folders : folder'[f] = "live" => folder[f] \in {"unborn", "live"}
          /\ \A f \in Folders : folder[f] # "unborn" => folder'[f] # "unborn"
      BY <1>3 DEF CreateLabel, TypeOK
    <2>3. ListedIsInside'
      BY <2>1, <2>2, StillListed DEF Inside
    <2> QED
      BY <2>1, <2>2, <2>3, StillAimed DEF OneFolder, LogMatchesDeletions
  <1>4. ASSUME NEW p \in Pages, CreateCommit(p) \/ SaveCommit(p) \/ DeleteCommit(p)
        PROVE  OneFolder' /\ EmptiesWhatWas' /\ ListedIsInside' /\ LogMatchesDeletions'
    <2>1. UNCHANGED folder
      BY <1>4 DEF CreateCommit, SaveCommit, DeleteCommit, labels
    <2>2. \A q \in Pages : asked'[q] = asked[q] \/ asked'[q] = Nothing
      BY <1>4, AnsweredFacts DEF CreateCommit, SaveCommit, DeleteCommit
    <2> PICK s \in Secrets :
          /\ row[s].state # "deleted"
          /\ \A o \in Secrets \ {s} : row'[o] = row[o]
          /\ row'[s].folder \in Choices
          /\ \/ row'[s].state = "live" /\ UNCHANGED logged
             \/ row'[s].state = "deleted" /\ logged' = logged \cup {s}
          /\ MarkMoved(s)
      <3>1. CASE CreateCommit(p)
        BY <3>1, CreateFacts DEF CreateCommit, OneFolder
      <3>2. CASE SaveCommit(p)
        BY <3>2, SaveFacts DEF SaveCommit, OneFolder
      <3>3. CASE DeleteCommit(p)
        <4> PICK s \in Secrets :
              /\ row[s].state = "live" /\ \A o \in Secrets \ {s} : row'[o] = row[o]
              /\ row'[s] = Deleted(s) /\ logged' = logged \cup {s} /\ MarkMoved(s)
          BY <3>3, DeleteFacts
        <4>1. row'[s].state = "deleted" /\ row'[s].folder \in Choices
          BY DeletedFacts, ChoicesFacts
        <4> QED
          BY <4>1
      <3> QED
        BY <1>4, <3>1, <3>2, <3>3
    <2>3. moved \subseteq moved' /\ (Emptying => s \in moved')
      BY MarkTyped
    <2>4. ListedIsInside'
      <3>1. CASE Emptying
        BY <2>1, <2>2, <2>3, <3>1, <1>n, StillListed DEF Inside
      <3>2. CASE ~Emptying
        BY <2>2, <3>2, <1>n DEF Emptying, ListedIsInside
      <3> QED
        BY <3>1, <3>2
    <2>5. LogMatchesDeletions'
      BY <2>3 DEF LogMatchesDeletions
    <2> QED
      BY <1>n, <2>1, <2>2, <2>4, <2>5, StillAimed DEF OneFolder
  <1>5. ASSUME NEW p \in Pages, RetagCommit(p) \/ DeleteTag(p)
        PROVE  OneFolder' /\ EmptiesWhatWas' /\ ListedIsInside' /\ LogMatchesDeletions'
    <2>1. UNCHANGED <<folder, moved, logged>>
      BY <1>5 DEF RetagCommit, DeleteTag, labels
    <2>2. \A q \in Pages : asked'[q] = asked[q] \/ asked'[q] = Nothing
      BY <1>5, AnsweredFacts DEF RetagCommit, DeleteTag
    <2>3. \A s \in Secrets : row'[s].state = row[s].state /\ row'[s].folder = row[s].folder
      BY <1>5, RetagFacts, DeleteTagFacts
    <2>4. ListedIsInside'
      BY <1>n, <2>1, <2>2, <2>3, StillListed DEF Inside, TypeOK, States
    <2> QED
      BY <1>n, <2>1, <2>2, <2>3, <2>4, StillAimed DEF OneFolder, LogMatchesDeletions
  <1>6. ASSUME NEW p \in Pages, OrphanCommit(p)
        PROVE  OneFolder' /\ EmptiesWhatWas' /\ ListedIsInside' /\ LogMatchesDeletions'
    <2>1. UNCHANGED <<moved, logged>>
      BY <1>6 DEF OrphanCommit
    <2>2. \A q \in Pages : asked'[q] = asked[q] \/ asked'[q] = Nothing
      BY <1>6, AnsweredFacts DEF OrphanCommit
    <2> PICK f \in Folders :
          /\ folder[f] = "live" /\ folder' = [folder EXCEPT ![f] = "deleted"]
          /\ \A s \in Secrets : row'[s].folder = row[s].folder \ {f} /\ row'[s].state = row[s].state
      BY <1>6, OrphanFacts
    <2>3. \A g \in Folders : /\ folder'[g] = "live" => g # f /\ folder[g] = "live"
                             /\ folder[g] # "unborn" => folder'[g] # "unborn"
      BY DEF TypeOK
    <2>4. ListedIsInside'
      BY <1>n, <2>1, <2>2, <2>3, StillListed DEF Inside
    <2>5. OneFolder'
      <3>1. ASSUME NEW s \in Secrets
            PROVE  row'[s].folder \in Choices
        <4>1. row[s].folder \in Choices
          BY DEF OneFolder
        <4>2. row[s].folder \ {f} \in Choices
          BY <4>1, ChoicesFacts
        <4> QED
          BY <4>2
      <3>2. \A q \in Pages : asked'[q].folder \in Choices
        BY <1>n, <2>2 DEF OneFolder
      <3> QED
        BY <3>1, <3>2 DEF OneFolder
    <2>6. EmptiesWhatWas'
      BY <2>2, <2>3, StillAimed
    <2> QED
      BY <2>1, <2>4, <2>5, <2>6 DEF LogMatchesDeletions
  <1>7. ASSUME NEW p \in Pages, CascadeList(p)
        PROVE  OneFolder' /\ EmptiesWhatWas' /\ ListedIsInside' /\ LogMatchesDeletions'
    <2>1. UNCHANGED <<row, folder, moved, logged>>
      BY <1>7 DEF CascadeList, labels
    <2>2. \A f \in asked[p].folder : asked'[p].secrets = Inside(f)
      <3> TAKE f \in asked[p].folder
      <3>1. asked[p].folder = {f}
        BY ChoicesFacts DEF OneFolder
      <3>2. asked'[p].secrets = UNION {Inside(g) : g \in asked[p].folder}
        BY <1>7, ListFacts
      <3> QED
        BY <3>1, <3>2
    <2>3. ListedIsInside'
      BY <1>7, <2>1, <2>2, ListFacts DEF ListedIsInside, Inside
    <2> QED
      BY <1>7, <2>1, <2>3, ListFacts DEF OneFolder, EmptiesWhatWas, LogMatchesDeletions
  <1>8. ASSUME NEW p \in Pages, CascadeCommit(p)
        PROVE  OneFolder' /\ EmptiesWhatWas' /\ ListedIsInside' /\ LogMatchesDeletions'
    <2>1. /\ asked[p].kind = "emptying"
          /\ UNCHANGED moved /\ logged' = logged \cup asked[p].secrets
      BY <1>8 DEF CascadeCommit
    <2>2. \A q \in Pages : asked'[q] = asked[q] \/ asked'[q] = Nothing
      BY <1>8, AnsweredFacts DEF CascadeCommit
    <2> PICK f \in asked[p].folder :
          /\ f \in Folders /\ folder[f] = "live" /\ folder' = [folder EXCEPT ![f] = "deleted"]
          /\ \A s \in Inside(f) : row'[s] = Deleted(s)
          /\ \A s \in Secrets \ Inside(f) : row'[s] = row[s]
      BY <1>8, CascadeFacts
    <2>3. \A g \in Folders : /\ folder'[g] = "live" => g # f /\ folder[g] = "live"
                             /\ folder[g] # "unborn" => folder'[g] # "unborn"
      BY DEF TypeOK
    <2>4. \A s \in Secrets :
            \/ s \in Inside(f) /\ row'[s].state = "deleted" /\ row'[s].folder = {}
            \/ s \notin Inside(f) /\ row'[s] = row[s]
      BY DeletedFacts DEF Inside
    <2>5. \A g \in Folders \ {f} : \A s \in Secrets : s \in Inside(g) <=> s \in Inside(g)'
      BY <2>4, ChoicesFacts DEF Inside, OneFolder
    <2>6. ListedIsInside'
      BY <1>n, <2>1, <2>2, <2>3, <2>5, StillListed
    <2>7. \A s \in Secrets \ moved : s \in asked[p].secrets <=> s \in Inside(f)
      BY <2>1 DEF ListedIsInside
    <2>8. LogMatchesDeletions'
      BY <2>1, <2>4, <2>7 DEF LogMatchesDeletions
    <2> QED
      BY <1>n, <2>2, <2>3, <2>4, <2>6, <2>8, StillAimed, ChoicesFacts DEF OneFolder
  <1> QED
    BY <1>0, <1>1, <1>2, <1>3, <1>4, <1>5, <1>6, <1>7, <1>8, NextCases

(* The log names the secrets that were deleted and no others, one by one or *)
(* with their folder, and whatever else is tagged, filed or emptied         *)
(* meanwhile; but for those written while their folder was being emptied.   *)
(* (organise.routes.ts:82-83)                                               *)
THEOREM LogIsTrue == Spec => []LogMatchesDeletions
  <1>1. Init => LogInv
    <2> SUFFICES ASSUME Init
                 PROVE  OneFolder /\ EmptiesWhatWas /\ ListedIsInside /\ LogMatchesDeletions
      BY InitTyped DEF LogInv
    <2>1. \A s \in Secrets : row[s].state = "unborn" /\ row[s].folder = {}
      BY UnbornTyped DEF Init
    <2>2. \A p \in Pages : asked[p].kind = "none" /\ asked[p].folder = {}
      BY NothingTyped DEF Init
    <2> QED
      BY <2>1, <2>2, ChoicesFacts
      DEF Init, OneFolder, EmptiesWhatWas, ListedIsInside, LogMatchesDeletions
  <1>2. LogInv => LogMatchesDeletions
    BY DEF LogInv
  <1> QED
    BY <1>1, <1>2, NextLog, PTL DEF Spec
=============================================================================
