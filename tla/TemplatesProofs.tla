---------------------------- MODULE TemplatesProofs ----------------------------
(***************************************************************************)
(* What holds of a secret type, for any fields, secrets and editors: the   *)
(* types, that every secret renders as it was authored, that the current   *)
(* version is the newest, and that no edit hides a value unannounced.      *)
(***************************************************************************)
EXTENDS Templates, TLAPS

EditorType == [draft : SUBSET Fields, confirming : BOOLEAN, names : SUBSET Fields,
               about : SUBSET Fields, since : SUBSET Secrets, call : Calls,
               sent : SUBSET Fields, number : Nat]

Saving(r) == r.call \in {"sending", "putting"}

LEMMA BlankFacts ==
    /\ Blank \in EditorType
    /\ Blank.names = {} /\ Blank.call = "none" /\ Blank.confirming = FALSE
  BY DEF Blank, EditorType, Calls

LEMMA NotWrittenFacts ==
    /\ NotWritten \in [under : Nat, values : SUBSET Fields]
    /\ NotWritten.under = 0 /\ NotWritten.values = {}
  BY DEF NotWritten

(* What an editor is after each of its steps, and that the others stay.     *)
LEMMA SetFacts ==
    ASSUME TypeOK, NEW e \in Editors, NEW r \in EditorType, Becomes(e, r)
    PROVE  /\ editor' \in [Editors -> EditorType]
           /\ editor'[e] = r /\ \A d \in Editors \ {e} : editor'[d] = editor[d]
  BY DEF TypeOK, EditorType, Becomes

(* Nothing that is in flight is touched when a warning goes.                *)
LEMMA WithdrawnFacts ==
    ASSUME NEW r \in EditorType
    PROVE  /\ Withdrawn(r) \in EditorType
           /\ Withdrawn(r).call = r.call /\ Withdrawn(r).sent = r.sent
           /\ Withdrawn(r).number = r.number /\ Withdrawn(r).confirming = FALSE
           /\ ~r.confirming => Withdrawn(r) = r
           /\ r.confirming => Withdrawn(r).names = {}
  BY DEF Withdrawn, Unwarned, EditorType

LEMMA EndedFacts ==
    ASSUME NEW r \in EditorType
    PROVE  /\ Ended(r) \in EditorType /\ Ended(r).call = "none"
           /\ r.confirming => /\ Ended(r).names = r.names /\ Ended(r).about = r.about
                              /\ Ended(r).since = r.since
           /\ ~r.confirming => Ended(r).names = {}
  BY DEF Ended, Unwarned, EditorType, Calls

(* What a warning names are fields.                                         *)
LEMMA NamedFacts ==
    ASSUME TypeOK, NEW fields
    PROVE  Named(fields) \in SUBSET Fields
  BY DEF TypeOK, Named, Known, Version, FieldSets

(* What q shows, or was confirmed on, is what r does.                       *)
SameWarning(r, q) == q.names = r.names /\ q.about = r.about /\ q.since = r.since

(* Each step of an editor, by what it does to its warning and its request.  *)
LEMMA DraftFacts ==
    ASSUME TypeOK, NEW e \in Editors, Start(e) \/ Update(e) \/ Remove(e) \/ Close(e)
    PROVE  \E q \in EditorType :
             /\ Becomes(e, q)
             /\ q.call = editor[e].call /\ q.sent = editor[e].sent /\ q.number = editor[e].number
             /\ \/ q.confirming = editor[e].confirming /\ SameWarning(editor[e], q)
                \/ editor[e].confirming /\ ~q.confirming /\ q.names = {}
  <1> DEFINE r == editor[e]
  <1>0. r \in EditorType
    BY DEF TypeOK, EditorType
  <1>1. CASE Start(e)
    <2> PICK v \in versions : Becomes(e, [r EXCEPT !.draft = v.fields])
      BY <1>1 DEF Start
    <2>1. v.fields \in SUBSET Fields
      BY DEF TypeOK, Version, FieldSets
    <2> QED
      BY <1>0, <2>1 DEF EditorType, SameWarning
  <1>2. CASE Update(e)
    <2> PICK f \in Fields : Becomes(e, [Withdrawn(r) EXCEPT !.draft = Withdrawn(r).draft \cup {f}])
      BY <1>2 DEF Update
    <2> DEFINE w == Withdrawn(r)
    <2>1. /\ w \in EditorType /\ w.call = r.call /\ w.sent = r.sent
          /\ w.number = r.number /\ w.confirming = FALSE
          /\ ~r.confirming => w = r
          /\ r.confirming => w.names = {}
      BY <1>0, WithdrawnFacts
    <2>2. Becomes(e, [w EXCEPT !.draft = w.draft \cup {f}])
      OBVIOUS
    <2> HIDE DEF w
    <2> QED
      BY <1>0, <2>1, <2>2 DEF EditorType, SameWarning
  <1>3. CASE Remove(e)
    <2> PICK f \in r.draft : Becomes(e, [r EXCEPT !.draft = r.draft \ {f}])
      BY <1>3 DEF Remove
    <2> QED
      BY <1>0 DEF EditorType, SameWarning
  <1>4. CASE Close(e)
    <2> DEFINE w == Withdrawn(r)
    <2>1. /\ w \in EditorType /\ w.call = r.call /\ w.sent = r.sent
          /\ w.number = r.number /\ w.confirming = FALSE
          /\ ~r.confirming => w = r
          /\ r.confirming => w.names = {}
      BY <1>0, WithdrawnFacts
    <2>2. Becomes(e, [w EXCEPT !.draft = {}])
      BY <1>4 DEF Close
    <2> HIDE DEF w
    <2> QED
      BY <1>0, <2>1, <2>2 DEF EditorType, SameWarning
  <1> QED
    BY <1>1, <1>2, <1>3, <1>4

LEMMA NotedFacts ==
    ASSUME TypeOK, NEW e \in Editors, Noted(e)
    PROVE  \E draft \in FieldSets : \E names \in {{}, Named(draft)} : \E q \in EditorType :
             /\ Becomes(e, q) /\ q.confirming /\ editor[e].confirming
             /\ q.call = editor[e].call /\ q.sent = editor[e].sent /\ q.number = editor[e].number
             /\ q.names = names /\ q.about = draft /\ q.since = {}
  <1> PICK draft \in FieldSets : \E names \in {{}, Named(draft)} :
        Becomes(e, [editor[e] EXCEPT !.names = names, !.about = draft, !.since = {}])
    BY DEF Noted
  <1> PICK names \in {{}, Named(draft)} :
        Becomes(e, [editor[e] EXCEPT !.names = names, !.about = draft, !.since = {}])
    OBVIOUS
  <1>1. names \in SUBSET Fields /\ draft \in SUBSET Fields
    BY NamedFacts DEF FieldSets
  <1>2. editor[e] \in EditorType /\ editor[e].confirming
    BY DEF TypeOK, EditorType, Noted
  <1> DEFINE q == [editor[e] EXCEPT !.names = names, !.about = draft, !.since = {}]
  <1>3. /\ q \in EditorType /\ q.confirming /\ q.call = editor[e].call
        /\ q.sent = editor[e].sent /\ q.number = editor[e].number
        /\ q.names = names /\ q.about = draft /\ q.since = {}
    BY <1>1, <1>2 DEF EditorType
  <1>4. Becomes(e, q)
    OBVIOUS
  <1> HIDE DEF q
  <1> QED
    BY <1>2, <1>3, <1>4

LEMMA ImpactFacts ==
    ASSUME TypeOK, NEW e \in Editors, Impact(e)
    PROVE  \E q \in EditorType :
             /\ Becomes(e, q) /\ editor[e].call = "asked"
             /\ q.names = Named(editor[e].sent) /\ q.about = editor[e].sent /\ q.since = {}
             /\ q.number = editor[e].number
             /\ \/ q.call = "sending" /\ q.sent = editor[e].sent /\ ~q.confirming
                \/ q.call = "none" /\ q.confirming
  <1> DEFINE r == editor[e]
             checked == [r EXCEPT !.names = Named(r.sent), !.about = r.sent, !.since = {}]
             q == IF Affected(r.sent) = {}
                    THEN [checked EXCEPT !.call = "sending", !.confirming = FALSE]
                    ELSE [checked EXCEPT !.call = "none", !.confirming = TRUE, !.sent = {}]
  <1>1. r \in EditorType /\ Named(r.sent) \in SUBSET Fields
    BY NamedFacts DEF TypeOK, EditorType
  <1>2. /\ checked \in EditorType /\ checked.names = Named(r.sent) /\ checked.about = r.sent
        /\ checked.since = {} /\ checked.sent = r.sent /\ checked.number = r.number
    BY <1>1 DEF EditorType
  <1>3. Becomes(e, q) /\ r.call = "asked"
    BY DEF Impact
  <1> HIDE DEF checked
  <1>4. /\ q \in EditorType /\ q.names = Named(r.sent) /\ q.about = r.sent
        /\ q.since = {} /\ q.number = r.number
        /\ \/ q.call = "sending" /\ q.sent = r.sent /\ ~q.confirming
           \/ q.call = "none" /\ q.confirming
    BY <1>1, <1>2 DEF EditorType, Calls
  <1> HIDE DEF q
  <1> QED
    BY <1>3, <1>4

LEMMA CallFacts ==
    ASSUME TypeOK, NEW e \in Editors,
           Submit(e) \/ Confirm(e) \/ PutRead(e) \/ RemoveRead(e), Newest \in Nat \/ ~PutRead(e)
    PROVE  \E q \in EditorType :
             /\ Becomes(e, q) /\ SameWarning(editor[e], q)
             /\ \/ Submit(e) /\ q.call = "asked" /\ q.sent # {}
                            /\ q.confirming = editor[e].confirming
                \/ Confirm(e) /\ q.call = "sending" /\ q.sent # {} /\ q.names # {} /\ ~q.confirming
                \/ /\ PutRead(e) /\ editor[e].call = "sending" /\ q.call = "putting"
                   /\ q.sent = editor[e].sent /\ q.number = Newest + 1
                   /\ q.confirming = editor[e].confirming
                \/ RemoveRead(e) /\ q.call = "deleting" /\ q.confirming = editor[e].confirming
  <1> DEFINE r == editor[e]
  <1>0. r \in EditorType
    BY DEF TypeOK, EditorType
  <1>1. CASE Submit(e)
    <2>1. r.draft # {} /\ Becomes(e, [r EXCEPT !.call = "asked", !.sent = r.draft])
      BY <1>1 DEF Submit
    <2> DEFINE q == [r EXCEPT !.call = "asked", !.sent = r.draft]
    <2>2. /\ q \in EditorType /\ SameWarning(r, q)
          /\ q.call = "asked" /\ q.sent # {} /\ q.confirming = r.confirming
      BY <1>0, <2>1 DEF EditorType, SameWarning, Calls
    <2>3. Becomes(e, q)
      BY <2>1
    <2> HIDE DEF q
    <2> QED
      BY <1>1, <2>1, <2>2, <2>3
  <1>2. CASE Confirm(e)
    <2>1. /\ r.draft # {} /\ r.names # {}
          /\ Becomes(e, [r EXCEPT !.call = "sending", !.sent = r.draft, !.confirming = FALSE])
      BY <1>2 DEF Confirm
    <2> DEFINE q == [r EXCEPT !.call = "sending", !.sent = r.draft, !.confirming = FALSE]
    <2>2. /\ q \in EditorType /\ SameWarning(r, q)
          /\ q.call = "sending" /\ q.sent # {} /\ q.names # {} /\ ~q.confirming
      BY <1>0, <2>1 DEF EditorType, SameWarning, Calls
    <2>3. Becomes(e, q)
      BY <2>1
    <2> HIDE DEF q
    <2> QED
      BY <1>2, <2>1, <2>2, <2>3
  <1>3. CASE PutRead(e)
    <2>1. /\ r.call = "sending" /\ Newest + 1 \in Nat
          /\ Becomes(e, [r EXCEPT !.call = "putting", !.number = Newest + 1])
      BY <1>3 DEF PutRead
    <2> DEFINE q == [r EXCEPT !.call = "putting", !.number = Newest + 1]
    <2>2. /\ q \in EditorType /\ SameWarning(r, q)
          /\ q.call = "putting" /\ q.sent = r.sent /\ q.number = Newest + 1
          /\ q.confirming = r.confirming
      BY <1>0, <2>1 DEF EditorType, SameWarning, Calls
    <2>3. Becomes(e, q)
      BY <2>1
    <2> HIDE DEF q
    <2> QED
      BY <1>3, <2>1, <2>2, <2>3
  <1>4. CASE RemoveRead(e)
    <2>1. Becomes(e, [r EXCEPT !.call = "deleting"])
      BY <1>4 DEF RemoveRead
    <2> DEFINE q == [r EXCEPT !.call = "deleting"]
    <2>2. /\ q \in EditorType /\ SameWarning(r, q)
          /\ q.call = "deleting" /\ q.confirming = r.confirming
      BY <1>0, <2>1 DEF EditorType, SameWarning, Calls
    <2>3. Becomes(e, q)
      BY <2>1
    <2> HIDE DEF q
    <2> QED
      BY <1>4, <2>1, <2>2, <2>3
  <1> QED
    BY <1>1, <1>2, <1>3, <1>4

LEMMA FailFacts ==
    ASSUME TypeOK, NEW e \in Editors, Fail(e)
    PROVE  /\ Ended(editor[e]) \in EditorType /\ Becomes(e, Ended(editor[e]))
           /\ Ended(editor[e]).call = "none"
  BY EndedFacts DEF TypeOK, EditorType, Fail

-----------------------------------------------------------------------------
(* Numbers *)

(* The numbers are 1 to current, each of one version; those who put have    *)
(* read one that follows a number there was; nothing is left of a deleted   *)
(* type.                                                                    *)
Numbered ==
    /\ Exists => \A n \in 1 .. current : \E v \in versions : v.number = n
    /\ \A v \in versions : v.number \in 1 .. current
    /\ \A v, w \in versions : v.number = w.number => v = w

PutsNext ==
    \A e \in Editors : Exists /\ editor[e].call = "putting" => editor[e].number \in 1 .. (current + 1)

(* What is submitted has a field; a secret that is not there no value.      *)
Drafted == \A e \in Editors : editor[e].call \in {"asked", "sending", "putting"} => editor[e].sent # {}

Bare == \A s \in Secrets : written[s].under = 0 => written[s].values = {}

NumberInv == TypeOK /\ Numbered /\ PutsNext /\ Drafted /\ Bare

LEMMA NewestIsCurrent ==
    ASSUME TypeOK, Numbered, Exists
    PROVE  Newest = current
  <1> DEFINE S == {v.number : v \in versions}
  <1>1. current \in S /\ \A n \in S : n \in Nat /\ n <= current
    BY DEF TypeOK, Numbered, Exists
  <1> DEFINE m == CHOOSE x \in S : \A y \in S : x >= y
  <1> HIDE DEF S
  <1>2. m \in S /\ \A n \in S : m >= n
    BY <1>1
  <1> HIDE DEF m
  <1>3. m = current
    BY <1>1, <1>2
  <1> QED
    BY <1>3 DEF Newest, Max, S, m

(* Steps of an editor that leave the versions and the secrets alone.        *)
Drafting(e) ==
    \/ Start(e) \/ Update(e) \/ Remove(e) \/ Close(e) \/ Noted(e) \/ Submit(e) \/ Impact(e)
    \/ Confirm(e) \/ Fail(e) \/ PutRead(e) \/ RemoveRead(e)

LEMMA DraftingFacts ==
    ASSUME NumberInv, NEW e \in Editors, Drafting(e)
    PROVE  /\ UNCHANGED <<versions, current, written>>
           /\ editor' \in [Editors -> EditorType]
           /\ \A d \in Editors \ {e} : editor'[d] = editor[d]
           /\ editor'[e].call \in {"asked", "sending", "putting"} => editor'[e].sent # {}
           /\ editor'[e].call = "putting" =>
                 \/ Exists /\ editor'[e].number = current + 1
                 \/ editor[e].call = "putting" /\ editor'[e].number = editor[e].number
  <1> USE DEF NumberInv
  <1>0. UNCHANGED <<versions, current, written>>
    BY DEF Drafting, Start, Update, Remove, Close, Noted, Submit, Impact, Confirm, Fail, PutRead,
           RemoveRead
  <1>d. editor[e].call \in {"asked", "sending", "putting"} => editor[e].sent # {}
    BY DEF Drafted
  <1>n. PutRead(e) => Exists /\ Newest = current /\ Newest \in Nat
    BY NewestIsCurrent DEF PutRead, TypeOK
  <1> SUFFICES \E q \in EditorType :
                 /\ Becomes(e, q)
                 /\ q.call \in {"asked", "sending", "putting"} => q.sent # {}
                 /\ q.call = "putting" =>
                       \/ Exists /\ q.number = current + 1
                       \/ editor[e].call = "putting" /\ q.number = editor[e].number
    BY <1>0, SetFacts
  <1>1. CASE Start(e) \/ Update(e) \/ Remove(e) \/ Close(e)
    BY <1>1, <1>d, DraftFacts
  <1>2. CASE Noted(e)
    BY <1>2, <1>d, NotedFacts
  <1>3. CASE Impact(e)
    BY <1>3, <1>d, ImpactFacts
  <1>4. CASE Submit(e) \/ Confirm(e) \/ PutRead(e) \/ RemoveRead(e)
    BY <1>4, <1>d, <1>n, CallFacts
  <1>5. CASE Fail(e)
    BY <1>5, FailFacts
  <1> QED
    BY <1>1, <1>2, <1>3, <1>4, <1>5 DEF Drafting

(* The version that is published has the number after the current one.      *)
LEMMA PutFacts ==
    ASSUME NumberInv, NEW e \in Editors, PutCommit(e)
    PROVE  /\ editor[e].call = "putting" /\ editor[e].number = current + 1 /\ current' = current + 1
           /\ editor[e].sent \in FieldSets
           /\ versions' = versions \cup {[number |-> current + 1, fields |-> editor[e].sent]}
           /\ UNCHANGED written
           /\ editor' \in [Editors -> EditorType]
           /\ editor'[e].call = "none"
           /\ editor[e].confirming => SameWarning(editor[e], editor'[e])
           /\ ~editor[e].confirming => editor'[e].names = {}
           /\ \A d \in Editors \ {e} : editor'[d] = editor[d]
  <1> USE DEF NumberInv
  <1>1. editor[e].call = "putting" /\ Exists /\ editor[e].number \in 1 .. (current + 1)
    BY DEF PutCommit, PutsNext
  <1>2. \A v \in versions : v.number # editor[e].number
    BY DEF PutCommit
  <1>3. editor[e].number = current + 1
    <2>1. \A n \in 1 .. current : \E v \in versions : v.number = n
      BY <1>1 DEF Numbered
    <2>2. editor[e].number \notin 1 .. current
      BY <1>2, <2>1
    <2>3. current \in Nat
      BY DEF TypeOK
    <2>4. editor[e].number \in 1 .. (current + 1)
      BY <1>1
    <2> QED
      BY <2>2, <2>3, <2>4
  <1>4. editor[e].sent # {} /\ editor[e].sent \in SUBSET Fields
    BY <1>1 DEF Drafted, TypeOK
  <1>5. PICK draft \in {{}, editor[e].draft} : Becomes(e, [Ended(editor[e]) EXCEPT !.draft = draft])
    BY DEF PutCommit, Publish
  <1> DEFINE q == [Ended(editor[e]) EXCEPT !.draft = draft]
  <1>6. editor[e] \in EditorType /\ draft \in SUBSET Fields
    BY DEF TypeOK, EditorType
  <1>7. /\ q \in EditorType /\ q.call = "none"
        /\ editor[e].confirming => SameWarning(editor[e], q)
        /\ ~editor[e].confirming => q.names = {}
    BY <1>6, EndedFacts DEF EditorType, SameWarning
  <1> HIDE DEF q
  <1>8. /\ editor' \in [Editors -> EditorType]
        /\ editor'[e] = q /\ \A d \in Editors \ {e} : editor'[d] = editor[d]
    BY <1>5, <1>7, SetFacts DEF q
  <1>9. /\ current' = current + 1 /\ UNCHANGED written
        /\ versions' = versions \cup {[number |-> current + 1, fields |-> editor[e].sent]}
    BY <1>3 DEF PutCommit, Publish
  <1> QED
    BY <1>1, <1>3, <1>4, <1>7, <1>8, <1>9 DEF FieldSets

LEMMA InitNumber == Init => NumberInv
  <1> SUFFICES ASSUME Init
               PROVE  NumberInv
    OBVIOUS
  <1> PICK fields \in FieldSets : versions = {[number |-> 1, fields |-> fields]}
    BY DEF Init
  <1>1. versions \subseteq Version /\ \A v \in versions : v.number = 1
    BY DEF Version
  <1>2. \A v, w \in versions : v = w
    OBVIOUS
  <1>3. TypeOK
    BY <1>1, BlankFacts, NotWrittenFacts DEF Init, TypeOK, EditorType
  <1>4. Numbered
    BY <1>1, <1>2 DEF Init, Numbered
  <1>5. PutsNext /\ Drafted /\ Bare
    BY BlankFacts, NotWrittenFacts DEF Init, PutsNext, Drafted, Bare
  <1> QED
    BY <1>3, <1>4, <1>5 DEF NumberInv

LEMMA NextCases ==
    ASSUME [Next]_vars
    PROVE  \/ UNCHANGED vars
           \/ \E e \in Editors : Drafting(e) \/ PutCommit(e) \/ RemoveCommit(e)
           \/ \E s \in Secrets : Write(s) \/ Erase(s)
  BY DEF Next, Drafting

LEMMA RemoveFacts ==
    ASSUME TypeOK, NEW e \in Editors, RemoveCommit(e)
    PROVE  /\ versions' = {} /\ current' = 0 /\ Uses = {} /\ UNCHANGED written
           /\ editor[e].call = "deleting"
           /\ editor' \in [Editors -> EditorType] /\ editor'[e].call = "none"
           /\ editor[e].confirming => SameWarning(editor[e], editor'[e])
           /\ ~editor[e].confirming => editor'[e].names = {}
           /\ \A d \in Editors \ {e} : editor'[d] = editor[d]
  <1>1. editor[e] \in EditorType
    BY DEF TypeOK, EditorType
  <1>2. editor' \in [Editors -> EditorType] /\ editor'[e] = Ended(editor[e])
        /\ \A d \in Editors \ {e} : editor'[d] = editor[d]
    BY <1>1, EndedFacts, SetFacts DEF RemoveCommit
  <1> QED
    BY <1>1, <1>2, EndedFacts DEF RemoveCommit, SameWarning

(* A secret that is written is remembered where a warning may be out.       *)
LEMMA WriteFacts ==
    ASSUME TypeOK, NEW s \in Secrets, Write(s)
    PROVE  \E v \in versions :
             /\ v.number \in Nat
             /\ written' \in [Secrets -> [under : Nat, values : SUBSET Fields]]
             /\ written'[s].under = v.number /\ written'[s].values \subseteq FieldsOf(v.number)
             /\ \A o \in Secrets \ {s} : written'[o] = written[o]
             /\ editor' \in [Editors -> EditorType]
             /\ \A e \in Editors :
                  /\ editor'[e].call = editor[e].call /\ editor'[e].sent = editor[e].sent
                  /\ editor'[e].number = editor[e].number /\ editor'[e].names = editor[e].names
                  /\ editor'[e].about = editor[e].about
                  /\ editor'[e].confirming = editor[e].confirming
                  /\ editor[e].about # {} => editor'[e].since = editor[e].since \cup {s}
             /\ UNCHANGED <<versions, current>>
  <1> PICK v \in versions :
        \E values \in SUBSET FieldsOf(v.number) :
            written' = [written EXCEPT ![s] = [under |-> v.number, values |-> values]]
    BY DEF Write
  <1> PICK values \in SUBSET FieldsOf(v.number) :
        written' = [written EXCEPT ![s] = [under |-> v.number, values |-> values]]
    OBVIOUS
  <1>1. v.number \in Nat
    BY DEF TypeOK, Version
  <1>2. FieldsOf(v.number) \subseteq Fields
    BY DEF FieldsOf, TypeOK, Version, FieldSets
  <1>3. [under |-> v.number, values |-> values] \in [under : Nat, values : SUBSET Fields]
    BY <1>1, <1>2
  <1>4. /\ written' \in [Secrets -> [under : Nat, values : SUBSET Fields]]
        /\ written'[s].under = v.number /\ written'[s].values = values
        /\ \A o \in Secrets \ {s} : written'[o] = written[o]
    BY <1>3 DEF TypeOK
  <1> DEFINE after(e) == IF editor[e].about = {} THEN editor[e]
                                               ELSE [editor[e] EXCEPT !.since = editor[e].since \cup {s}]
  <1>5. editor' = [e \in Editors |-> after(e)] /\ UNCHANGED <<versions, current>>
    BY DEF Write
  <1>6. ASSUME NEW e \in Editors
        PROVE  /\ after(e) \in EditorType
               /\ after(e).call = editor[e].call /\ after(e).sent = editor[e].sent
               /\ after(e).number = editor[e].number /\ after(e).names = editor[e].names
               /\ after(e).about = editor[e].about /\ after(e).confirming = editor[e].confirming
               /\ editor[e].about # {} => after(e).since = editor[e].since \cup {s}
    <2>1. editor[e] \in EditorType
      BY DEF TypeOK, EditorType
    <2>2. CASE editor[e].about = {}
      BY <2>1, <2>2
    <2>3. CASE editor[e].about # {}
      <3>1. after(e) = [editor[e] EXCEPT !.since = editor[e].since \cup {s}]
        BY <2>3
      <3> HIDE DEF after
      <3> QED
        BY <2>1, <2>3, <3>1 DEF EditorType
    <2> QED
      BY <2>2, <2>3
  <1> HIDE DEF after
  <1> QED
    BY <1>1, <1>4, <1>5, <1>6

LEMMA EraseFacts ==
    ASSUME TypeOK, NEW s \in Secrets, Erase(s)
    PROVE  /\ written' \in [Secrets -> [under : Nat, values : SUBSET Fields]]
           /\ written'[s].under = 0 /\ written'[s].values = {}
           /\ \A o \in Secrets \ {s} : written'[o] = written[o]
           /\ UNCHANGED <<versions, current, editor>>
  BY NotWrittenFacts DEF TypeOK, Erase

LEMMA NextNumber == NumberInv /\ [Next]_vars => NumberInv'
  <1> SUFFICES ASSUME NumberInv, [Next]_vars
               PROVE  NumberInv'
    OBVIOUS
  <1> USE DEF NumberInv
  <1>0. CASE UNCHANGED vars
    BY <1>0 DEF vars, TypeOK, Numbered, PutsNext, Drafted, Bare, Exists
  <1>1. ASSUME NEW e \in Editors, Drafting(e)
        PROVE  NumberInv'
    <2>2. TypeOK'
      BY <1>1, DraftingFacts DEF TypeOK, EditorType
    <2>3. Numbered' /\ Bare'
      BY <1>1, DraftingFacts DEF Numbered, Bare, Exists
    <2>4. PutsNext'
      <3>1. current \in Nat
        BY DEF TypeOK
      <3> QED
        BY <1>1, <3>1, DraftingFacts DEF PutsNext, Exists
    <2>5. Drafted'
      BY <1>1, DraftingFacts DEF Drafted
    <2> QED
      BY <2>2, <2>3, <2>4, <2>5
  <1>2. ASSUME NEW e \in Editors, PutCommit(e)
        PROVE  NumberInv'
    <2> DEFINE added == [number |-> current + 1, fields |-> editor[e].sent]
    <2>0. current \in Nat /\ current' = current + 1 /\ UNCHANGED written
      BY <1>2, PutFacts DEF TypeOK
    <2>1. added \in Version /\ added.number = current + 1 /\ versions' = versions \cup {added}
      BY <1>2, <2>0, PutFacts DEF Version
    <2> HIDE DEF added
    <2>2. TypeOK'
      BY <1>2, <2>0, <2>1, PutFacts DEF TypeOK, EditorType
    <2>3. Numbered'
      <3>1. \A n \in 1 .. (current + 1) : \E w \in versions' : w.number = n
        BY <2>0, <2>1 DEF Numbered, Exists
      <3>2. \A w \in versions' : w.number \in 1 .. (current + 1)
        BY <2>0, <2>1 DEF Numbered
      <3>3. \A w \in versions : w.number # added.number
        BY <2>0, <2>1 DEF Numbered
      <3>4. \A w, x \in versions' : w.number = x.number => w = x
        BY <2>1, <3>3 DEF Numbered
      <3> QED
        BY <2>0, <3>1, <3>2, <3>4 DEF Numbered
    <2>4. PutsNext'
      <3>1. Exists
        BY <1>2 DEF PutCommit
      <3> QED
        BY <1>2, <2>0, <3>1, PutFacts DEF PutsNext
    <2>5. Drafted' /\ Bare'
      BY <1>2, <2>0, PutFacts DEF Drafted, Bare
    <2> QED
      BY <2>2, <2>3, <2>4, <2>5
  <1>3. ASSUME NEW e \in Editors, RemoveCommit(e)
        PROVE  NumberInv'
    <2>1. TypeOK'
      BY <1>3, RemoveFacts DEF TypeOK, EditorType
    <2>2. Numbered' /\ PutsNext'
      BY <1>3, RemoveFacts DEF Numbered, PutsNext, Exists
    <2>3. Drafted' /\ Bare'
      BY <1>3, RemoveFacts DEF Drafted, Bare
    <2> QED
      BY <2>1, <2>2, <2>3
  <1>4. ASSUME NEW s \in Secrets, Write(s)
        PROVE  NumberInv'
    <2> PICK v \in versions :
          /\ written' \in [Secrets -> [under : Nat, values : SUBSET Fields]]
          /\ written'[s].under = v.number
          /\ \A o \in Secrets \ {s} : written'[o] = written[o]
          /\ editor' \in [Editors -> EditorType]
          /\ \A e \in Editors : /\ editor'[e].call = editor[e].call
                                /\ editor'[e].sent = editor[e].sent
                                /\ editor'[e].number = editor[e].number
          /\ UNCHANGED <<versions, current>>
      BY <1>4, WriteFacts
    <2>1. v.number # 0
      BY DEF Numbered
    <2> QED
      BY <2>1 DEF TypeOK, EditorType, Numbered, PutsNext, Drafted, Bare, Exists
  <1>5. ASSUME NEW s \in Secrets, Erase(s)
        PROVE  NumberInv'
    BY <1>5, EraseFacts DEF TypeOK, Numbered, PutsNext, Drafted, Bare, Exists
  <1> QED
    BY <1>0, <1>1, <1>2, <1>3, <1>4, <1>5, NextCases

(* Every variable of a type has its type; a version that is published has a *)
(* field, because the draft it comes from has.  (Templates, all of it)      *)
THEOREM TypesTyped == Spec => []TypeOK
  <1>1. NumberInv => TypeOK
    BY DEF NumberInv
  <1> QED
    BY <1>1, InitNumber, NextNumber, PTL DEF Spec

(* Whoever has read which number, the versions are numbered without a gap   *)
(* or a double and the last of them is what new secrets are written under.  *)
(* (templates.routes.ts:214-220)                                            *)
THEOREM NewestIsInUse == Spec => []CurrentIsNewest
  <1>1. NumberInv => CurrentIsNewest
    BY NewestIsCurrent DEF NumberInv, Numbered, CurrentIsNewest
  <1> QED
    BY <1>1, InitNumber, NextNumber, PTL DEF Spec

-----------------------------------------------------------------------------
(* Rendering *)

RenderInv == NumberInv /\ SecretsRender

LEMMA NextRender == RenderInv /\ [Next]_vars => RenderInv'
  <1> SUFFICES ASSUME RenderInv, [Next]_vars
               PROVE  SecretsRender'
    BY NextNumber DEF RenderInv
  <1> USE DEF RenderInv, NumberInv
  <1>0. CASE UNCHANGED vars
    BY <1>0 DEF vars, SecretsRender, Uses
  <1>1. ASSUME NEW e \in Editors, Drafting(e)
        PROVE  SecretsRender'
    BY <1>1, DraftingFacts DEF SecretsRender, Uses
  <1>2. ASSUME NEW e \in Editors, PutCommit(e)
        PROVE  SecretsRender'
    <2>1. versions \subseteq versions' /\ UNCHANGED written
      BY <1>2, PutFacts
    <2> QED
      BY <2>1 DEF SecretsRender, Uses
  <1>3. ASSUME NEW e \in Editors, RemoveCommit(e)
        PROVE  SecretsRender'
    BY <1>3, RemoveFacts DEF SecretsRender, Uses
  <1>4. ASSUME NEW s \in Secrets, Write(s)
        PROVE  SecretsRender'
    <2> PICK v \in versions :
          /\ written'[s].under = v.number /\ written'[s].values \subseteq FieldsOf(v.number)
          /\ \A o \in Secrets \ {s} : written'[o] = written[o]
          /\ UNCHANGED versions
      BY <1>4, WriteFacts
    <2>1. FieldsOf(v.number) \subseteq v.fields
      BY DEF FieldsOf, Numbered
    <2> QED
      BY <2>1 DEF SecretsRender, Uses
  <1>5. ASSUME NEW s \in Secrets, Erase(s)
        PROVE  SecretsRender'
    BY <1>5, EraseFacts DEF SecretsRender, Uses
  <1> QED
    BY <1>0, <1>1, <1>2, <1>3, <1>4, <1>5, NextCases

LEMMA InitRender == Init => RenderInv
  <1> SUFFICES ASSUME Init
               PROVE  SecretsRender
    BY InitNumber DEF RenderInv
  <1>1. \A s \in Secrets : written[s].under = 0
    BY NotWrittenFacts DEF Init
  <1> QED
    BY <1>1 DEF SecretsRender, Uses

(* The version that a secret was written under is there, with a field for   *)
(* every value of it, whatever has been published since and whoever tries   *)
(* to delete the type.  (templates.routes.ts:200-203)                       *)
THEOREM OldSecretsRender == Spec => []SecretsRender
  <1>1. RenderInv => SecretsRender
    BY DEF RenderInv
  <1> QED
    BY <1>1, InitRender, NextRender, PTL DEF Spec

-----------------------------------------------------------------------------
(* Loss *)

(* A secret keeps no value where a warning says that it loses none, unless  *)
(* it was written since the check.                                          *)
Told(r) == \A s \in Secrets \ r.since : written[s].values \subseteq r.about \cup r.names

(* What is confirmed, or sent unasked, was told; and the check of it was of *)
(* a draft.                                                                 *)
Informed(r) == r.names # {} \/ Saving(r) => r.about # {} /\ Told(r)

SentKnowingly == \A e \in Editors : Informed(editor[e])

(* While a save is under way no warning is on display.                      *)
SavesAlone == \A e \in Editors : Saving(editor[e]) => ~editor[e].confirming

LossInv == RenderInv /\ SavesAlone /\ SentKnowingly

(* The check finds every field in which a secret would lose a value.        *)
LEMMA CheckIsComplete ==
    ASSUME RenderInv, NEW fields, NEW s \in Secrets
    PROVE  written[s].values \subseteq fields \cup Named(fields)
  <1> SUFFICES ASSUME NEW x \in written[s].values, x \notin fields
               PROVE  x \in Named(fields)
    OBVIOUS
  <1>1. s \in Uses
    BY DEF RenderInv, NumberInv, Bare, Uses
  <1>2. x \in Known
    BY <1>1 DEF RenderInv, SecretsRender, Known
  <1>3. Affected(fields) # {}
    BY <1>1, <1>2 DEF Affected
  <1> QED
    BY <1>2, <1>3 DEF Named

LEMMA DraftingInforms ==
    ASSUME LossInv, NEW e \in Editors, Drafting(e)
    PROVE  SavesAlone' /\ SentKnowingly'
  <1>t. TypeOK /\ NumberInv /\ RenderInv
    BY DEF LossInv, RenderInv, NumberInv
  <1>0. UNCHANGED written
    BY <1>t, DraftingFacts
  <1>i. /\ Informed(editor[e]) /\ (Saving(editor[e]) => ~editor[e].confirming)
        /\ editor[e].call = "asked" => editor[e].sent # {}
    BY DEF LossInv, SentKnowingly, SavesAlone, RenderInv, NumberInv, Drafted
  <1> SUFFICES \E q \in EditorType : /\ Becomes(e, q)
                                     /\ Informed(q) /\ (Saving(q) => ~q.confirming)
    <2> PICK q \in EditorType : Becomes(e, q) /\ Informed(q) /\ (Saving(q) => ~q.confirming)
      OBVIOUS
    <2>1. editor'[e] = q /\ \A d \in Editors \ {e} : editor'[d] = editor[d]
      BY <1>t, SetFacts
    <2>2. SavesAlone'
      BY <2>1 DEF LossInv, SavesAlone
    <2>3. SentKnowingly'
      BY <1>0, <2>1 DEF LossInv, SentKnowingly, Informed, Told
    <2> QED
      BY <2>2, <2>3
  <1>1. CASE Start(e) \/ Update(e) \/ Remove(e) \/ Close(e)
    <2> PICK q \in EditorType :
          /\ Becomes(e, q) /\ q.call = editor[e].call
          /\ \/ q.confirming = editor[e].confirming /\ SameWarning(editor[e], q)
             \/ editor[e].confirming /\ ~q.confirming /\ q.names = {}
      BY <1>t, <1>1, DraftFacts
    <2> QED
      BY <1>i DEF Informed, Told, Saving, SameWarning
  <1>2. CASE Noted(e)
    <2> PICK draft \in FieldSets : \E names \in {{}, Named(draft)} : \E q \in EditorType :
          /\ Becomes(e, q) /\ q.confirming /\ editor[e].confirming /\ q.call = editor[e].call
          /\ q.names = names /\ q.about = draft /\ q.since = {}
      BY <1>t, <1>2, NotedFacts
    <2> PICK q \in EditorType :
          /\ Becomes(e, q) /\ q.confirming /\ editor[e].confirming /\ q.call = editor[e].call
          /\ q.names \in {{}, Named(draft)} /\ q.about = draft /\ q.since = {}
      OBVIOUS
    <2>1. ~Saving(q) /\ q.about # {}
      BY <1>i DEF Saving, FieldSets
    <2>2. q.names # {} => Told(q)
      BY <1>t, CheckIsComplete DEF Told
    <2> QED
      BY <2>1, <2>2 DEF Informed
  <1>3. CASE Impact(e)
    <2> PICK q \in EditorType :
          /\ Becomes(e, q) /\ editor[e].call = "asked"
          /\ q.names = Named(editor[e].sent) /\ q.about = editor[e].sent /\ q.since = {}
          /\ \/ q.call = "sending" /\ ~q.confirming
             \/ q.call = "none" /\ q.confirming
      BY <1>t, <1>3, ImpactFacts
    <2>1. Told(q)
      BY <1>t, CheckIsComplete DEF Told
    <2> QED
      BY <1>i, <2>1 DEF Informed, Saving
  <1>4. CASE Submit(e) \/ Confirm(e) \/ PutRead(e) \/ RemoveRead(e)
    <2>1. Newest \in Nat \/ ~PutRead(e)
      BY <1>t, NewestIsCurrent DEF NumberInv, PutRead, TypeOK
    <2> PICK q \in EditorType :
          /\ Becomes(e, q) /\ SameWarning(editor[e], q)
          /\ \/ q.call \in {"asked", "deleting"}
             \/ q.call = "sending" /\ q.names # {} /\ ~q.confirming
             \/ /\ editor[e].call = "sending" /\ q.call = "putting"
                /\ q.confirming = editor[e].confirming
      BY <1>t, <1>4, <2>1, CallFacts
    <2> QED
      BY <1>i DEF Informed, Told, Saving, SameWarning
  <1>5. CASE Fail(e)
    <2> DEFINE q == Ended(editor[e])
    <2>1. editor[e] \in EditorType
      BY <1>t DEF TypeOK, EditorType
    <2>2. /\ Becomes(e, q) /\ q \in EditorType /\ q.call = "none"
          /\ editor[e].confirming => SameWarning(editor[e], q)
          /\ ~editor[e].confirming => q.names = {}
      BY <1>t, <1>5, <2>1, FailFacts, EndedFacts DEF SameWarning
    <2> HIDE DEF q
    <2> QED
      BY <1>i, <2>2 DEF Informed, Told, Saving, SameWarning
  <1> QED
    BY <1>1, <1>2, <1>3, <1>4, <1>5 DEF Drafting

LEMMA NextLoss == LossInv /\ [Next]_vars => LossInv'
  <1> SUFFICES ASSUME LossInv, [Next]_vars
               PROVE  SavesAlone' /\ SentKnowingly'
    BY NextRender DEF LossInv
  <1>t. TypeOK /\ NumberInv
    BY DEF LossInv, RenderInv, NumberInv
  <1> USE DEF LossInv
  <1>0. CASE UNCHANGED vars
    BY <1>0 DEF vars, SavesAlone, SentKnowingly, Informed, Told
  <1>1. ASSUME NEW e \in Editors, Drafting(e)
        PROVE  SavesAlone' /\ SentKnowingly'
    BY <1>1, DraftingInforms
  <1>2. ASSUME NEW e \in Editors, PutCommit(e) \/ RemoveCommit(e)
        PROVE  SavesAlone' /\ SentKnowingly'
    <2>1. /\ UNCHANGED written /\ \A d \in Editors \ {e} : editor'[d] = editor[d]
          /\ editor'[e].call = "none"
          /\ editor[e].confirming => SameWarning(editor[e], editor'[e])
          /\ ~editor[e].confirming => editor'[e].names = {}
      BY <1>2, <1>t, PutFacts, RemoveFacts
    <2>2. SavesAlone'
      BY <2>1 DEF SavesAlone, Saving
    <2>3. SentKnowingly'
      BY <2>1 DEF SentKnowingly, Informed, Told, Saving, SameWarning
    <2> QED
      BY <2>2, <2>3
  <1>3. ASSUME NEW s \in Secrets, Write(s)
        PROVE  SavesAlone' /\ SentKnowingly'
    <2>1. /\ \A o \in Secrets \ {s} : written'[o] = written[o]
          /\ \A e \in Editors :
               /\ editor'[e].call = editor[e].call /\ editor'[e].names = editor[e].names
               /\ editor'[e].about = editor[e].about
               /\ editor'[e].confirming = editor[e].confirming
               /\ editor[e].about # {} => editor'[e].since = editor[e].since \cup {s}
      BY <1>3, <1>t, WriteFacts
    <2>2. SavesAlone'
      BY <2>1 DEF SavesAlone, Saving
    <2>3. SentKnowingly'
      BY <2>1 DEF SentKnowingly, Informed, Told, Saving
    <2> QED
      BY <2>2, <2>3
  <1>4. ASSUME NEW s \in Secrets, Erase(s)
        PROVE  SavesAlone' /\ SentKnowingly'
    <2>1. /\ \A o \in Secrets \ {s} : written'[o] = written[o]
          /\ written'[s].values = {}
          /\ UNCHANGED editor
      BY <1>4, <1>t, EraseFacts
    <2> QED
      BY <2>1 DEF SavesAlone, SentKnowingly, Informed, Told
  <1> QED
    BY <1>0, <1>1, <1>2, <1>3, <1>4, NextCases

(* A save hides no value in a field that the confirmed warning did not name *)
(* unless the secret was written since the check, or the warning was about  *)
(* another draft than the one it publishes: fields were removed under it,   *)
(* or a live check of another draft answered last.                          *)
(* (TemplateEditor.tsx:66-150, 228-327)                                     *)
THEOREM NoSilentLoss == Spec => LossIsAnnounced
  <1> DEFINE Announced ==
        \A e \in Editors :
            (editor[e].call = "putting" /\ versions' # versions /\ editor'[e].call # "putting") =>
                (editor[e].about = editor[e].sent => Unnamed(e) \subseteq editor[e].since)
  <1>1. Init => LossInv
    BY InitRender, BlankFacts DEF Init, LossInv, SavesAlone, SentKnowingly, Informed, Saving
  <1>2. LossInv => Announced
    BY DEF LossInv, SentKnowingly, Informed, Told, Saving, Unnamed
  <1>3. LossIsAnnounced <=> [][Announced]_vars
    BY DEF LossIsAnnounced
  <1> QED
    BY <1>1, <1>2, <1>3, NextLoss, PTL DEF Spec
=============================================================================
