------------------------- MODULE RotationWorkerProofs -------------------------
(***************************************************************************)
(* What holds of the clients of a vault, for any devices, rows, batches,   *)
(* rotations and saves, wherever runs of the worker stop and others take   *)
(* over: the types, that quiet rows open, that saves survive, and that up  *)
(* to date writers strand nothing.                                         *)
(***************************************************************************)
EXTENDS RotationWorker, TLAPS

Copies == UNION {[S -> Row] : S \in SUBSET Items}

Run == [phase : Phases, from : Nat, copies : Copies, oldKey : BOOLEAN]

(* The first rotation leads from generation 1 to 2.                         *)
ServerTyped ==
    /\ keyVersion \in Nat /\ keyVersion >= 1
    /\ rotating \in BOOLEAN /\ (rotating => keyVersion >= 2)
    /\ row \in [Items -> Row]

(* A device holds keys the vault has had, and one of them is the highest:   *)
(* what writeKeyFor asks for.                                               *)
HoldsHighest ==
    \A d \in Devices :
        /\ \A n \in keyring[d] : n \in 1..keyVersion
        /\ \E m \in keyring[d] : \A n \in keyring[d] : n <= m

KeysTyped ==
    /\ keyring \in [Devices -> SUBSET Nat]
    /\ seen \in [Devices -> Nat]
    /\ HoldsHighest

(* A run that has begun leads from a generation the vault has had: nothing  *)
(* that does not exist is ever taken for stale.                             *)
RunsTyped ==
    /\ worker \in [Devices -> Run]
    /\ \A d \in Devices : worker[d].phase # "none" => worker[d].from >= 1

FormsTyped == editor \in [Devices -> [item : Items, revision : Nat]]

HistoryTyped == atRisk \subseteq Items /\ overtaken \subseteq Items

Typing == ServerTyped /\ KeysTyped /\ RunsTyped /\ FormsTyped /\ HistoryTyped

-----------------------------------------------------------------------------
(* Operators *)

LEMMA CopiesFacts ==
    ASSUME NEW c \in Copies
    PROVE  /\ c \in [DOMAIN c -> Row]
           /\ DOMAIN c \subseteq Items
           /\ \A i \in DOMAIN c : c[i] \in Row
  BY DEF Copies

LEMMA CopiesIntro ==
    ASSUME NEW S \in SUBSET Items, NEW c \in [S -> Row]
    PROVE  c \in Copies
  BY DEF Copies

LEMMA AbsentFacts ==
    /\ Absent \in Row /\ Absent.label = 0 /\ Absent.revision = 0 /\ Absent.text = 0
    /\ Deleted \in Row /\ Deleted.label = -1
  BY DEF Absent, Deleted, Row

LEMMA NoRunFacts ==
    /\ NoRun \in Run /\ NoRun.phase = "none" /\ NoRun.from = 0 /\ DOMAIN NoRun.copies = {}
    /\ NoCopies \in Copies /\ DOMAIN NoCopies = {}
  <1>1. NoCopies \in [{} -> Row] /\ DOMAIN NoCopies = {}
    BY DEF NoCopies
  <1>2. NoCopies \in Copies
    BY <1>1, CopiesIntro
  <1> QED
    BY <1>1, <1>2 DEF NoRun, Run, Phases

LEMMA NoEditFacts == NoEdit \in [item : Items, revision : Nat]
  BY DEF NoEdit, Items

(* The highest key of a device is one that it holds.                        *)
LEMMA WriteKeyFacts ==
    ASSUME ServerTyped, KeysTyped, NEW d \in Devices
    PROVE  /\ writeKeyFor(d) \in keyring[d]
           /\ writeKeyFor(d) \in Nat /\ writeKeyFor(d) <= keyVersion
  <1>1. PICK m \in keyring[d] : \A n \in keyring[d] : n <= m
    BY DEF KeysTyped, HoldsHighest
  <1>2. keyring[d] \subseteq Nat
    BY DEF KeysTyped
  <1>3. \A n \in keyring[d] : m >= n
    BY <1>1, <1>2
  <1>4. writeKeyFor(d) \in keyring[d]
    BY <1>3 DEF writeKeyFor, Max
  <1> QED
    BY <1>4 DEF ServerTyped, KeysTyped, HoldsHighest

LEMMA ServedFacts ==
    ASSUME ServerTyped
    PROVE  /\ Served \subseteq 1..keyVersion /\ Served \subseteq Nat /\ keyVersion \in Served
           /\ \A n : n \in Served <=> n = keyVersion \/ (rotating /\ n = keyVersion - 1)
  BY DEF ServerTyped, Served

(* A device's keys are replaced by all those served, as lock and unlock do. *)
LEMMA ReplacesKeys ==
    ASSUME ServerTyped, KeysTyped, NEW d \in Devices, keyVersion' = keyVersion,
           keyring' = [keyring EXCEPT ![d] = Served],
           seen' = [seen EXCEPT ![d] = keyVersion]
    PROVE  KeysTyped'
  <1>1. keyring' \in [Devices -> SUBSET Nat] /\ seen' \in [Devices -> Nat]
    BY ServedFacts DEF KeysTyped, ServerTyped
  <1>2. keyring'[d] = Served /\ \A e \in Devices \ {d} : keyring'[e] = keyring[e]
    BY DEF KeysTyped
  <1>3. \A n \in Served : n \in 1..keyVersion /\ n <= keyVersion
    BY ServedFacts DEF ServerTyped
  <1>4. HoldsHighest'
    BY <1>2, <1>3, ServedFacts DEF KeysTyped, HoldsHighest
  <1> QED
    BY <1>1, <1>4 DEF KeysTyped

(* Wraps of generations served are added to a device's keys.                *)
LEMMA AddsKeys ==
    ASSUME ServerTyped, KeysTyped, NEW d \in Devices, keyVersion' = keyVersion,
           NEW more \in SUBSET Served,
           keyVersion \in more \/ (\A m, n \in more : m = n),
           keyring' = [keyring EXCEPT ![d] = @ \cup more],
           seen' \in [Devices -> Nat]
    PROVE  KeysTyped'
  <1>1. more \subseteq 1..keyVersion /\ keyVersion \in Nat
    BY ServedFacts DEF ServerTyped
  <1>2. keyring' \in [Devices -> SUBSET Nat]
    <2>1. more \subseteq Nat
      BY ServedFacts
    <2>2. keyring[d] \subseteq Nat
      BY DEF KeysTyped
    <2>3. keyring[d] \cup more \in SUBSET Nat
      BY <2>1, <2>2
    <2> QED
      BY <2>3 DEF KeysTyped
  <1>3. keyring'[d] = keyring[d] \cup more /\ \A e \in Devices \ {d} : keyring'[e] = keyring[e]
    BY DEF KeysTyped
  <1>4. PICK h \in keyring[d] : \A n \in keyring[d] : n <= h
    BY DEF KeysTyped, HoldsHighest
  <1>5. \A n \in keyring'[d] : n \in 1..keyVersion
    BY <1>1, <1>3 DEF KeysTyped, HoldsHighest
  <1>6. \E m \in keyring'[d] : \A n \in keyring'[d] : n <= m
    <2>1. CASE keyVersion \in more
      BY <1>1, <1>3, <1>5, <2>1
    <2>2. CASE more = {}
      BY <1>3, <1>4, <2>2
    <2>3. CASE \E m \in more : \A n \in more : n = m
      <3>1. PICK m \in more : \A n \in more : n = m
        BY <2>3
      <3>2. \A n \in keyring[d] : n \in Nat
        BY DEF KeysTyped
      <3>3. h \in Nat /\ m \in Nat
        BY <1>1, <3>2
      <3>4. CASE h <= m
        <4>1. \A n \in keyring[d] : n <= m
          BY <1>4, <3>2, <3>3, <3>4
        <4>2. \A n \in more : n <= m
          BY <3>1, <3>3
        <4>3. m \in keyring'[d] /\ \A n \in keyring'[d] : n <= m
          BY <1>3, <4>1, <4>2
        <4> QED
          BY <4>3
      <3>5. CASE m <= h
        BY <1>3, <1>4, <3>1, <3>5
      <3> QED
        BY <3>3, <3>4, <3>5
    <2> QED
      BY <2>1, <2>2, <2>3
  <1>7. HoldsHighest'
    BY <1>3, <1>5, <1>6 DEF KeysTyped, HoldsHighest
  <1> QED
    BY <1>2, <1>7 DEF KeysTyped

(* Keys that stay while the vault's generation goes up or stays.            *)
LEMMA KeepsKeys ==
    ASSUME ServerTyped, KeysTyped, UNCHANGED <<keyring, seen>>,
           keyVersion' \in Nat, keyVersion' >= keyVersion
    PROVE  KeysTyped'
  BY DEF ServerTyped, KeysTyped, HoldsHighest

(* One run is replaced.                                                     *)
LEMMA ReplacesRun ==
    ASSUME RunsTyped, NEW d \in Devices, NEW r \in Run,
           r.phase # "none" => r.from >= 1,
           worker' = [worker EXCEPT ![d] = r]
    PROVE  RunsTyped'
  BY DEF RunsTyped

LEMMA EndsRun ==
    ASSUME RunsTyped, NEW d \in Devices, worker' = [worker EXCEPT ![d] = NoRun]
    PROVE  RunsTyped'
  BY ReplacesRun, NoRunFacts

(* Copies of the stale rows among some: rows of the old generation.         *)
LEMMA CopyStaleFacts ==
    ASSUME ServerTyped, RunsTyped, NEW d \in Devices, NEW items \in SUBSET Items,
           NEW phase \in Phases, worker[d].phase # "none",
           worker' = CopyStale(d, items, phase)
    PROVE  /\ RunsTyped'
           /\ \A e \in Devices \ {d} : worker'[e] = worker[e]
           /\ \A i \in DOMAIN worker'[d].copies :
                \/ row[i].label = worker[d].from /\ worker'[d].copies[i] = row[i]
                \/ i \in Copied(d) /\ worker'[d].copies[i] = worker[d].copies[i]
  <1> DEFINE stale == {i \in items : row[i].label = worker[d].from}
             copies == [i \in stale \cup Copied(d) |->
                          IF i \in stale THEN row[i] ELSE worker[d].copies[i]]
             r == [worker[d] EXCEPT !.phase = phase, !.copies = copies]
  <1>1. worker[d] \in Run /\ worker[d].copies \in Copies /\ worker[d].from >= 1
    BY DEF RunsTyped, Run
  <1>2. copies \in [stale \cup Copied(d) -> Row] /\ stale \cup Copied(d) \subseteq Items
    BY <1>1, CopiesFacts DEF ServerTyped, Copied
  <1>3. copies \in Copies
    BY <1>2, CopiesIntro
  <1> HIDE DEF copies
  <1>4. r \in Run /\ r.from = worker[d].from /\ r.copies = copies
    BY <1>1, <1>3 DEF Run
  <1>5. worker' = [worker EXCEPT ![d] = r]
    BY DEF CopyStale, copies
  <1> HIDE DEF r
  <1>6. worker'[d] = r /\ \A e \in Devices \ {d} : worker'[e] = worker[e]
    BY <1>5 DEF RunsTyped
  <1>7. RunsTyped'
    BY <1>1, <1>4, <1>5, ReplacesRun
  <1> QED
    BY <1>4, <1>6, <1>7 DEF copies

(* A batch overwrites rows with rows.                                       *)
LEMMA OverwriteFacts ==
    ASSUME ServerTyped, HistoryTyped, NEW d \in Devices, NEW copies \in Copies,
           worker[d].from \in Nat, Overwrite(d, copies)
    PROVE  /\ row' \in [Items -> Row] /\ atRisk' \subseteq Items
           /\ \A i \in Items \ DOMAIN copies : row'[i] = row[i]
           /\ \A i \in DOMAIN copies :
                /\ i \in Items
                /\ row'[i].label = worker[d].from + 1 /\ row'[i].seal = worker[d].from + 1
                /\ row'[i].text = copies[i].text /\ row'[i].revision = row[i].revision
           /\ atRisk' = atRisk \ DOMAIN copies
  <1> DEFINE to == worker[d].from + 1
             sent(i) == [row[i] EXCEPT !.label = to, !.seal = to, !.text = copies[i].text]
  <1>1. /\ row' = [i \in Items |-> IF i \in DOMAIN copies THEN sent(i) ELSE row[i]]
        /\ atRisk' = atRisk \ DOMAIN copies
    BY DEF Overwrite
  <1>2. \A i \in DOMAIN copies : i \in Items /\ copies[i] \in Row
    BY CopiesFacts
  <1>3. ASSUME NEW i \in DOMAIN copies
        PROVE  /\ sent(i) \in Row
               /\ sent(i).label = to /\ sent(i).seal = to
               /\ sent(i).text = copies[i].text /\ sent(i).revision = row[i].revision
    <2>1. row[i] \in Row /\ copies[i] \in Row /\ to \in Nat
      BY <1>2 DEF ServerTyped
    <2> QED
      BY <2>1 DEF Row
  <1> HIDE DEF sent
  <1>4. row' \in [Items -> Row] /\ atRisk' \subseteq Items
    BY <1>1, <1>2, <1>3 DEF ServerTyped, HistoryTyped
  <1>5. \A i \in Items \ DOMAIN copies : row'[i] = row[i]
    BY <1>1
  <1>6. \A i \in DOMAIN copies : i \in Items /\ row'[i] = sent(i)
    BY <1>1, <1>2
  <1> QED
    BY <1>1, <1>3, <1>4, <1>5, <1>6

(* Part of a run's copies.                                                  *)
LEMMA RestrictFacts ==
    ASSUME NEW c \in Copies, NEW S \in SUBSET (DOMAIN c)
    PROVE  /\ Restrict(c, S) \in Copies
           /\ DOMAIN Restrict(c, S) = S
           /\ \A i \in S : Restrict(c, S)[i] = c[i]
  <1>1. Restrict(c, S) \in [S -> Row] /\ S \in SUBSET Items
    BY CopiesFacts DEF Restrict
  <1> QED
    BY <1>1, CopiesIntro DEF Restrict

-----------------------------------------------------------------------------
(* Types *)

LEMMA TypingImpliesTypeOK == Typing => TypeOK
  <1> SUFFICES ASSUME Typing PROVE TypeOK
    OBVIOUS
  <1>1. ASSUME NEW d \in Devices
        PROVE  /\ worker[d].phase \in Phases
               /\ worker[d].from \in Nat /\ worker[d].oldKey \in BOOLEAN
               /\ Copied(d) \subseteq Items
               /\ \A i \in Copied(d) : worker[d].copies[i] \in Row
    <2>1. worker[d] \in Run /\ worker[d].copies \in Copies
      BY DEF Typing, RunsTyped, Run
    <2> QED
      BY <2>1, CopiesFacts DEF Run, Copied
  <1> QED
    BY <1>1 DEF Typing, ServerTyped, KeysTyped, FormsTyped, HistoryTyped, TypeOK

LEMMA InitTyping == Init => Typing
  <1> SUFFICES ASSUME Init PROVE Typing
    OBVIOUS
  <1>1. ServerTyped
    <2>1. \A i \in Items : row[i] \in Row
      BY AbsentFacts DEF Init, Row
    <2>2. row \in [Items -> Row]
      BY <2>1 DEF Init
    <2>3. keyVersion \in Nat /\ keyVersion >= 1
      BY DEF Init
    <2>4. rotating \in BOOLEAN /\ ~rotating
      BY Zenon DEF Init
    <2> QED
      BY <2>2, <2>3, <2>4 DEF ServerTyped
  <1>2. KeysTyped
    <2>1. \A d \in Devices : keyring[d] = {1}
      BY DEF Init
    <2>2. HoldsHighest
      BY <2>1 DEF Init, HoldsHighest
    <2> QED
      BY <2>2 DEF Init, KeysTyped
  <1>3. RunsTyped
    BY NoRunFacts DEF Init, RunsTyped
  <1>4. FormsTyped /\ HistoryTyped
    BY NoEditFacts DEF Init, FormsTyped, HistoryTyped
  <1> QED
    BY <1>1, <1>2, <1>3, <1>4 DEF Typing

(* What a save does to the rows.                                            *)
LEMMA SaveFacts ==
    ASSUME ServerTyped, KeysTyped, FormsTyped, NEW d \in Devices, Save(d),
           NEW i, i = editor[d].item
    PROVE  /\ i \in Items
           /\ row' \in [Items -> Row]
           /\ \A j \in Items \ {i} : row'[j] = row[j]
           /\ \/ row' = row
              \/ /\ Exists(i) /\ row[i].revision = editor[d].revision
                 /\ row'[i].seal = writeKeyFor(d) /\ row'[i].label = row[i].label
                 /\ row'[i].text = editor[d].revision + 1
                 /\ row'[i].revision = row[i].revision + 1
                 /\ atRisk' = IF rotating \/ writeKeyFor(d) # keyVersion
                                 THEN atRisk \cup {i} ELSE atRisk
                 /\ overtaken' = IF \E w \in Devices : i \in Copied(w)
                                    THEN overtaken \cup {i} ELSE overtaken
  <1> DEFINE saved == Exists(i) /\ row[i].revision = editor[d].revision
             seal == writeKeyFor(d)
             text == editor[d].revision + 1
             revision == row[i].revision + 1
             new == [row[i] EXCEPT !.seal = seal, !.text = text, !.revision = revision]
  <1>1. i \in Items /\ row[i] \in Row /\ row \in [Items -> Row]
    BY DEF FormsTyped, ServerTyped
  <1>2. seal \in Nat /\ text \in Nat /\ revision \in Nat
    BY <1>1, WriteKeyFacts DEF FormsTyped, Row
  <1>3. row' = IF saved THEN [row EXCEPT ![i] = new] ELSE row
    BY <1>1 DEF Save
  <1> HIDE DEF seal, text, revision
  <1>4. /\ new \in Row
        /\ new.seal = seal /\ new.label = row[i].label
        /\ new.text = text /\ new.revision = revision
    BY <1>1, <1>2 DEF Row
  <1> HIDE DEF new
  <1>5. CASE ~saved
    BY <1>1, <1>3, <1>5
  <1>6. CASE saved
    <2>1. /\ atRisk' = IF rotating \/ writeKeyFor(d) # keyVersion
                          THEN atRisk \cup {i} ELSE atRisk
          /\ overtaken' = IF \E w \in Devices : i \in Copied(w)
                             THEN overtaken \cup {i} ELSE overtaken
      BY <1>6 DEF Save
    <2>2. row' = [row EXCEPT ![i] = new]
      BY <1>3, <1>6
    <2>3. row' \in [Items -> Row] /\ row'[i] = new /\ \A j \in Items \ {i} : row'[j] = row[j]
      BY <1>1, <1>4, <2>2
    <2> QED
      BY <1>1, <1>4, <1>6, <2>1, <2>3 DEF seal, text, revision
  <1> QED
    BY <1>5, <1>6

(* A run that goes on with some of its copies.                              *)
LEMMA KeepsSomeCopies ==
    ASSUME RunsTyped, NEW d \in Devices, NEW phase \in Phases, NEW c \in Copies,
           worker[d].phase # "none",
           DOMAIN c \subseteq Copied(d), \A i \in DOMAIN c : c[i] = worker[d].copies[i],
           worker' = [worker EXCEPT ![d] = [@ EXCEPT !.phase = phase, !.copies = c]]
    PROVE  /\ RunsTyped'
           /\ \A e \in Devices \ {d} : worker'[e] = worker[e]
           /\ \A i \in DOMAIN worker'[d].copies :
                i \in Copied(d) /\ worker'[d].copies[i] = worker[d].copies[i]
  <1> DEFINE r == [worker[d] EXCEPT !.phase = phase, !.copies = c]
  <1>1. worker[d] \in Run /\ worker[d].from >= 1
    BY DEF RunsTyped
  <1>2. r \in Run /\ r.from = worker[d].from /\ r.copies = c
    BY <1>1 DEF Run
  <1>3. worker' = [worker EXCEPT ![d] = r]
    OBVIOUS
  <1> HIDE DEF r
  <1>4. worker'[d] = r /\ \A e \in Devices \ {d} : worker'[e] = worker[e]
    BY <1>3 DEF RunsTyped
  <1>5. RunsTyped'
    BY <1>1, <1>2, <1>3, ReplacesRun
  <1> QED
    BY <1>2, <1>4, <1>5

(* The batch of names: copies, and the vault's name as it is now.           *)
LEMMA NamesBatchFacts ==
    ASSUME Typing, NEW d \in Devices
    PROVE  LET name  == IF row[VaultName].label = worker[d].from THEN {VaultName} ELSE {}
               batch == [i \in Copied(d) \cup name |->
                           IF i = VaultName THEN row[i] ELSE worker[d].copies[i]]
           IN /\ batch \in Copies
              /\ \A i \in DOMAIN batch :
                   \/ i \in Copied(d) /\ batch[i] = worker[d].copies[i]
                   \/ batch[i] = row[i]
  <1> DEFINE name  == IF row[VaultName].label = worker[d].from THEN {VaultName} ELSE {}
             batch == [i \in Copied(d) \cup name |->
                         IF i = VaultName THEN row[i] ELSE worker[d].copies[i]]
  <1>1. worker[d] \in Run /\ worker[d].copies \in Copies
    BY DEF Typing, RunsTyped, Run
  <1>2. VaultName \in Items
    BY DEF Items
  <1>3. \A i \in Copied(d) : i \in Items /\ worker[d].copies[i] \in Row
    BY <1>1, CopiesFacts DEF Copied
  <1>4. \A i \in Items : row[i] \in Row
    BY DEF Typing, ServerTyped
  <1>5. Copied(d) \cup name \subseteq Items
    BY <1>2, <1>3
  <1>6. batch \in [Copied(d) \cup name -> Row]
    BY <1>2, <1>3, <1>4
  <1>7. batch \in Copies
    BY <1>5, <1>6, CopiesIntro
  <1> QED
    BY <1>7

(* An empty batch changes nothing.                                          *)
LEMMA OverwritesNothing ==
    ASSUME ServerTyped, NEW d \in Devices, NEW copies, DOMAIN copies = {},
           Overwrite(d, copies)
    PROVE  UNCHANGED <<row, atRisk>>
  <1>1. row' = [i \in Items |-> row[i]] /\ atRisk' = atRisk
    BY DEF Overwrite
  <1> QED
    BY <1>1 DEF ServerTyped

(* What sending does, of secrets or of names: the run ends or lets go of    *)
(* copies, and either no row changes or a batch, accepted, overwrites rows. *)
LEMMA SendingFacts ==
    ASSUME Typing, NEW d \in Devices, SendSecrets(d) \/ SendNames(d)
    PROVE  /\ UNCHANGED <<keyVersion, rotating, keyring, seen, editor, overtaken>>
           /\ RunsTyped'
           /\ \A e \in Devices \ {d} : worker'[e] = worker[e]
           /\ \A i \in DOMAIN worker'[d].copies :
                i \in Copied(d) /\ worker'[d].copies[i] = worker[d].copies[i]
           /\ \/ UNCHANGED <<row, atRisk>>
              \/ \E batch \in Copies :
                    /\ \A i \in DOMAIN batch :
                         \/ i \in Copied(d) /\ batch[i] = worker[d].copies[i]
                         \/ batch[i] = row[i]
                    /\ Accepted(d, batch) /\ Overwrite(d, batch)
  <1> DEFINE Keeps ==
               /\ RunsTyped'
               /\ \A e \in Devices \ {d} : worker'[e] = worker[e]
               /\ \A i \in DOMAIN worker'[d].copies :
                    i \in Copied(d) /\ worker'[d].copies[i] = worker[d].copies[i]
             Current(batch) ==
               \A i \in DOMAIN batch :
                 \/ i \in Copied(d) /\ batch[i] = worker[d].copies[i]
                 \/ batch[i] = row[i]
  <1>1. worker[d] \in Run /\ worker[d].copies \in Copies
    BY DEF Typing, RunsTyped, Run
  <1>2. ASSUME worker' = [worker EXCEPT ![d] = NoRun] PROVE Keeps
    BY <1>2, EndsRun, NoRunFacts DEF Typing, RunsTyped
  <1>3. CASE SendSecrets(d)
    <2>1. /\ worker[d].phase = "sending"
          /\ UNCHANGED <<keyVersion, rotating, keyring, seen, editor, overtaken>>
      BY <1>3 DEF SendSecrets
    <2>2. PICK slice \in SUBSET (Copied(d) \cap Secrets) :
            LET batch == Restrict(worker[d].copies, slice)
            IN IF Accepted(d, batch)
                 THEN /\ Overwrite(d, batch)
                      /\ worker' = [worker EXCEPT ![d].copies = Restrict(@, Copied(d) \ slice)]
                 ELSE /\ worker' = [worker EXCEPT ![d] = NoRun]
                      /\ UNCHANGED <<row, atRisk>>
      BY <1>3 DEF SendSecrets
    <2> DEFINE batch == Restrict(worker[d].copies, slice)
               rest == Restrict(worker[d].copies, Copied(d) \ slice)
    <2>3. /\ batch \in Copies /\ DOMAIN batch = slice
          /\ \A i \in slice : batch[i] = worker[d].copies[i]
      BY <1>1, RestrictFacts DEF Copied
    <2>4. /\ rest \in Copies /\ DOMAIN rest = Copied(d) \ slice
          /\ \A i \in Copied(d) \ slice : rest[i] = worker[d].copies[i]
      BY <1>1, RestrictFacts DEF Copied
    <2>5. CASE Accepted(d, batch)
      <3>1. /\ Overwrite(d, batch)
            /\ worker' = [worker EXCEPT ![d].copies = rest]
        BY <2>2, <2>5
      <3> HIDE DEF batch, rest
      <3>2. [worker[d] EXCEPT !.copies = rest]
              = [worker[d] EXCEPT !.phase = "sending", !.copies = rest]
        BY <1>1, <2>1 DEF Run
      <3>3. worker' = [worker EXCEPT ![d] = [@ EXCEPT !.phase = "sending", !.copies = rest]]
        BY <3>1, <3>2
      <3>4. Keeps
        <4>1. /\ RunsTyped /\ "sending" \in Phases /\ worker[d].phase # "none"
              /\ DOMAIN rest \subseteq Copied(d)
              /\ \A i \in DOMAIN rest : rest[i] = worker[d].copies[i]
          BY <2>1, <2>4 DEF Typing, Phases
        <4> HIDE DEF Keeps
        <4>2. /\ RunsTyped'
              /\ \A e \in Devices \ {d} : worker'[e] = worker[e]
              /\ \A i \in DOMAIN worker'[d].copies :
                   i \in Copied(d) /\ worker'[d].copies[i] = worker[d].copies[i]
          BY <2>4, <3>3, <4>1, KeepsSomeCopies
        <4> QED
          BY <4>2 DEF Keeps
      <3>5. Current(batch)
        BY <2>3
      <3> QED
        BY <2>1, <2>3, <2>5, <3>1, <3>4, <3>5
    <2>6. CASE ~Accepted(d, batch)
      BY <1>2, <2>1, <2>2, <2>6
    <2> QED
      BY <2>5, <2>6
  <1>4. CASE SendNames(d)
    <2> DEFINE name  == IF row[VaultName].label = worker[d].from THEN {VaultName} ELSE {}
               batch == [i \in Copied(d) \cup name |->
                           IF i = VaultName THEN row[i] ELSE worker[d].copies[i]]
    <2>1. batch \in Copies /\ Current(batch)
      BY NamesBatchFacts
    <2>2. /\ worker[d].phase = "sending"
          /\ UNCHANGED <<keyVersion, rotating, keyring, seen, editor, overtaken>>
          /\ IF DOMAIN batch = {} \/ Accepted(d, batch)
               THEN /\ Overwrite(d, batch)
                    /\ worker' = [worker EXCEPT ![d] = [@ EXCEPT !.phase = "closing",
                                                                 !.copies = NoCopies]]
               ELSE /\ worker' = [worker EXCEPT ![d] = NoRun]
                    /\ UNCHANGED <<row, atRisk>>
      BY <1>4 DEF SendNames
    <2> HIDE DEF batch
    <2>3. CASE DOMAIN batch = {} \/ Accepted(d, batch)
      <3>1. /\ Overwrite(d, batch)
            /\ worker' = [worker EXCEPT ![d] = [@ EXCEPT !.phase = "closing",
                                                         !.copies = NoCopies]]
        BY <2>2, <2>3
      <3>2. Keeps
        BY <2>2, <3>1, KeepsSomeCopies, NoRunFacts DEF Typing, Phases
      <3>3. UNCHANGED <<row, atRisk>> \/ Accepted(d, batch)
        BY <2>3, <3>1, OverwritesNothing DEF Typing
      <3> QED
        BY <2>1, <2>2, <3>1, <3>2, <3>3
    <2>4. CASE ~(DOMAIN batch = {} \/ Accepted(d, batch))
      BY <1>2, <2>2, <2>4
    <2> QED
      BY <2>3, <2>4
  <1> QED
    BY <1>3, <1>4

LEMMA NextTyping == Typing /\ [Next]_vars => Typing'
  <1> SUFFICES ASSUME Typing, [Next]_vars PROVE Typing'
    OBVIOUS
  <1> USE DEF Typing
  <1>1. ASSUME NEW d \in Devices, Refresh(d) PROVE Typing'
    <2>1. UNCHANGED <<server, worker, editor, history>>
      BY <1>1 DEF Refresh
    <2>2. seen' \in [Devices -> Nat]
      BY <1>1 DEF Refresh, KeysTyped, ServerTyped
    <2>3. KeysTyped'
      BY <1>1, <2>1, <2>2, AddsKeys, ServedFacts DEF Refresh, server
    <2> QED
      BY <2>1, <2>3 DEF server, history, ServerTyped, RunsTyped, FormsTyped, HistoryTyped
  <1>2. ASSUME NEW d \in Devices, Restart(d) PROVE Typing'
    <2>1. UNCHANGED <<server, history>>
      BY <1>2 DEF Restart
    <2>2. KeysTyped'
      BY <1>2, ReplacesKeys DEF Restart, server
    <2>3. RunsTyped'
      BY <1>2, EndsRun DEF Restart
    <2>4. FormsTyped'
      BY <1>2, NoEditFacts DEF Restart, FormsTyped
    <2> QED
      BY <2>1, <2>2, <2>3, <2>4 DEF server, history, ServerTyped, HistoryTyped
  <1>3. ASSUME NEW d \in Devices, Relock(d) PROVE Typing'
    <2>1. UNCHANGED <<server, history>>
      BY <1>3 DEF Relock
    <2>2. KeysTyped'
      BY <1>3, ReplacesKeys DEF Relock, server
    <2>3. RunsTyped'
      <3> DEFINE r == [worker[d] EXCEPT !.oldKey = FALSE]
      <3>1. worker[d] \in Run
        BY DEF RunsTyped
      <3>2. r \in Run /\ r.phase = worker[d].phase /\ r.from = worker[d].from
        BY <3>1 DEF Run
      <3>3. worker' = [worker EXCEPT ![d] = r]
        BY <1>3 DEF Relock
      <3> QED
        BY <3>2, <3>3, ReplacesRun DEF RunsTyped
    <2>4. FormsTyped'
      BY <1>3, NoEditFacts DEF Relock, FormsTyped
    <2> QED
      BY <2>1, <2>2, <2>3, <2>4 DEF server, history, ServerTyped, HistoryTyped
  <1>4. ASSUME NEW d \in Devices, Save(d) PROVE Typing'
    <2>1. UNCHANGED <<keyVersion, rotating, keyring, seen, worker>>
      BY <1>4 DEF Save
    <2>2. row' \in [Items -> Row] /\ editor[d].item \in Items
      BY <1>4, SaveFacts
    <2>3. KeysTyped'
      BY <2>1, KeepsKeys DEF ServerTyped
    <2>4. FormsTyped'
      BY <1>4, NoEditFacts DEF Save, FormsTyped
    <2>5. HistoryTyped'
      BY <1>4, <2>2 DEF Save, HistoryTyped
    <2> QED
      BY <2>1, <2>2, <2>3, <2>4, <2>5 DEF ServerTyped, RunsTyped
  <1>5. ASSUME NEW d \in Devices, NEW i \in Secrets, OpenForm(d, i) PROVE Typing'
    <2>1. UNCHANGED <<server, keyring, seen, worker, history>>
      BY <1>5 DEF OpenForm
    <2>2. FormsTyped'
      <3>1. i \in Items /\ row[i].revision \in Nat
        BY DEF Items, ServerTyped, Row
      <3> QED
        BY <1>5, <3>1 DEF OpenForm, FormsTyped
    <2>3. KeysTyped'
      BY <2>1, KeepsKeys DEF ServerTyped, server
    <2> QED
      BY <2>1, <2>2, <2>3 DEF server, history, ServerTyped, RunsTyped, HistoryTyped
  <1>6. ASSUME NEW d \in Devices, NEW i \in Secrets \cup Names, Create(d, i) PROVE Typing'
    <2>1. UNCHANGED <<keyVersion, rotating, keyring, seen, worker, editor, overtaken>>
      BY <1>6 DEF Create
    <2>2. i \in Items
      BY DEF Items
    <2>3. ServerTyped'
      <3>1. [label |-> keyVersion, seal |-> writeKeyFor(d), text |-> 1, revision |-> 1] \in Row
        BY WriteKeyFacts DEF Row, ServerTyped
      <3>2. row' \in [Items -> Row]
        BY <1>6, <3>1 DEF Create, ServerTyped
      <3> QED
        BY <2>1, <3>2 DEF ServerTyped
    <2>4. KeysTyped'
      BY <2>1, KeepsKeys DEF ServerTyped
    <2>5. HistoryTyped'
      BY <1>6, <2>2 DEF Create, HistoryTyped
    <2> QED
      BY <2>1, <2>3, <2>4, <2>5 DEF RunsTyped, FormsTyped
  <1>7. ASSUME NEW d \in Devices, NEW i \in Secrets \cup Names, Delete(d, i) PROVE Typing'
    <2>1. UNCHANGED <<keyVersion, rotating, keyring, seen, worker, editor>>
      BY <1>7 DEF Delete
    <2>2. ServerTyped'
      <3>1. row' \in [Items -> Row]
        BY <1>7, AbsentFacts DEF Delete, ServerTyped
      <3> QED
        BY <2>1, <3>1 DEF ServerTyped
    <2>3. KeysTyped'
      BY <2>1, KeepsKeys DEF ServerTyped
    <2>4. HistoryTyped'
      BY <1>7 DEF Delete, HistoryTyped
    <2> QED
      BY <2>1, <2>2, <2>3, <2>4 DEF RunsTyped, FormsTyped
  <1>8. ASSUME NEW d \in Devices, Rotate(d) PROVE Typing'
    <2>1. /\ UNCHANGED <<row, keyring, seen, editor, history>>
          /\ keyVersion' = keyVersion + 1 /\ rotating' = TRUE
      BY <1>8 DEF Rotate
    <2>2. ServerTyped'
      BY <2>1 DEF ServerTyped
    <2>3. KeysTyped'
      BY <2>1, KeepsKeys DEF ServerTyped
    <2>4. RunsTyped'
      <3> DEFINE r == [NoRun EXCEPT !.phase = "opened", !.from = keyVersion]
      <3>1. r \in Run /\ r.from = keyVersion /\ keyVersion >= 1
        BY NoRunFacts DEF Run, ServerTyped, Phases
      <3>2. worker' = [worker EXCEPT ![d] = r]
        BY <1>8 DEF Rotate
      <3> HIDE DEF r
      <3> QED
        BY <3>1, <3>2, ReplacesRun
    <2> QED
      BY <2>1, <2>2, <2>3, <2>4 DEF history, FormsTyped, HistoryTyped
  <1>9. ASSUME NEW d \in Devices, HoldNewKey(d) PROVE Typing'
    <2>1. UNCHANGED <<server, seen, editor, history>> /\ worker[d].phase = "opened"
      BY <1>9 DEF HoldNewKey
    <2>2. KeysTyped'
      <3> DEFINE more == Served \cap {worker[d].from + 1}
      <3>1. more \in SUBSET Served /\ \A m, n \in more : m = n
        OBVIOUS
      <3>2. keyring' = [keyring EXCEPT ![d] = @ \cup more]
        BY <1>9 DEF HoldNewKey
      <3>3. keyVersion' = keyVersion /\ seen' \in [Devices -> Nat]
        BY <2>1 DEF server, KeysTyped
      <3> HIDE DEF more
      <3> QED
        BY <3>1, <3>2, <3>3, AddsKeys
    <2>3. RunsTyped'
      <3> DEFINE r == [worker[d] EXCEPT !.phase = "secrets", !.oldKey = TRUE]
      <3>1. worker[d] \in Run /\ worker[d].from >= 1
        BY <2>1 DEF RunsTyped
      <3>2. r \in Run /\ r.from >= 1
        BY <3>1 DEF Run, Phases
      <3>3. worker' = [worker EXCEPT ![d] = r] \/ worker' = [worker EXCEPT ![d] = NoRun]
        BY <1>9 DEF HoldNewKey
      <3> HIDE DEF r
      <3> QED
        BY <3>2, <3>3, ReplacesRun, EndsRun
    <2> QED
      BY <2>1, <2>2, <2>3 DEF server, history, ServerTyped, FormsTyped, HistoryTyped
  <1>10. ASSUME NEW d \in Devices, ListSecrets(d) \/ ListNames(d) PROVE Typing'
    <2>1. UNCHANGED <<server, keyring, seen, editor, history>>
      BY <1>10 DEF ListSecrets, ListNames
    <2>2. RunsTyped'
      <3>1. CASE ListSecrets(d)
        BY <3>1, CopyStaleFacts DEF ListSecrets, Phases, Items
      <3>2. CASE ListNames(d)
        BY <3>2, CopyStaleFacts DEF ListNames, Phases, Items
      <3> QED
        BY <1>10, <3>1, <3>2
    <2>3. KeysTyped'
      BY <2>1, KeepsKeys DEF ServerTyped, server
    <2> QED
      BY <2>1, <2>2, <2>3 DEF server, history, ServerTyped, FormsTyped, HistoryTyped
  <1>11. ASSUME NEW d \in Devices, SendSecrets(d) \/ SendNames(d) PROVE Typing'
    <2>1. UNCHANGED <<keyVersion, rotating, keyring, seen, editor, overtaken>> /\ RunsTyped'
      BY <1>11, SendingFacts
    <2>2. row' \in [Items -> Row] /\ atRisk' \subseteq Items
      <3>1. worker[d].from \in Nat
        BY DEF RunsTyped, Run
      <3>2. CASE UNCHANGED <<row, atRisk>>
        BY <3>2 DEF ServerTyped, HistoryTyped
      <3>3. ASSUME NEW batch \in Copies, Overwrite(d, batch)
            PROVE  row' \in [Items -> Row] /\ atRisk' \subseteq Items
        BY <3>1, <3>3, OverwriteFacts
      <3> QED
        BY <1>11, <3>2, <3>3, SendingFacts
    <2>3. KeysTyped'
      BY <2>1, KeepsKeys DEF ServerTyped
    <2> QED
      BY <2>1, <2>2, <2>3 DEF ServerTyped, FormsTyped, HistoryTyped
  <1>12. ASSUME NEW d \in Devices, Close(d) PROVE Typing'
    <2>1. UNCHANGED <<keyVersion, row, keyring, seen, editor, history>>
      BY <1>12 DEF Close
    <2>2. rotating' \in BOOLEAN /\ (rotating' => rotating)
      BY <1>12 DEF Close
    <2>3. RunsTyped'
      BY <1>12, EndsRun DEF Close
    <2>4. KeysTyped'
      BY <2>1, KeepsKeys DEF ServerTyped
    <2> QED
      BY <2>1, <2>2, <2>3, <2>4 DEF history, ServerTyped, FormsTyped, HistoryTyped
  <1>13. ASSUME NEW d \in Devices, Throw(d) PROVE Typing'
    <2>1. UNCHANGED <<server, keyring, seen, editor, history>>
      BY <1>13 DEF Throw
    <2>2. RunsTyped'
      BY <1>13, EndsRun DEF Throw
    <2>3. KeysTyped'
      BY <2>1, KeepsKeys DEF ServerTyped, server
    <2> QED
      BY <2>1, <2>2, <2>3 DEF server, history, ServerTyped, FormsTyped, HistoryTyped
  <1>14. CASE UNCHANGED vars
    BY <1>14 DEF vars, server, history, ServerTyped, KeysTyped, HoldsHighest, RunsTyped,
                 FormsTyped, HistoryTyped
  <1> QED
    BY <1>1, <1>2, <1>3, <1>4, <1>5, <1>6, <1>7, <1>8, <1>9, <1>10, <1>11, <1>12, <1>13, <1>14
    DEF Next, Work

THEOREM TypingAlways == Spec => []Typing
  BY InitTyping, NextTyping, PTL DEF Spec

(* Every variable keeps its type: rows, keyrings, runs and their copies,    *)
(* forms. (rotation-worker.ts:97-205, keyring.ts)                           *)
THEOREM TypeCorrect == Spec => []TypeOK
  BY TypingAlways, TypingImpliesTypeOK, PTL

-----------------------------------------------------------------------------
(* Quiet rows open *)

Quiet(i) == Exists(i) => /\ row[i].label \in Served
                         /\ i \notin atRisk => row[i].seal = row[i].label

LEMMA InitQuiet == Init => QuietRowsOpen
  <1> SUFFICES ASSUME Init, NEW i \in Items, Exists(i)
               PROVE  row[i].label \in Served /\ row[i].seal = row[i].label
    BY DEF QuietRowsOpen
  <1>1. row[i] = [label |-> 1, seal |-> 1, text |-> 1, revision |-> 1]
    BY AbsentFacts DEF Init, Exists
  <1> QED
    BY <1>1 DEF Init, Served

LEMMA NextQuiet == Typing /\ QuietRowsOpen /\ [Next]_vars => QuietRowsOpen'
  <1> SUFFICES ASSUME Typing, QuietRowsOpen, [Next]_vars PROVE QuietRowsOpen'
    OBVIOUS
  <1> USE DEF Typing
  <1>a. \A i \in Items : Quiet(i)
    BY DEF QuietRowsOpen, Quiet, Exists
  <1> SUFFICES \A i \in Items : Quiet(i)'
    BY DEF QuietRowsOpen, Quiet, Exists
  <1>c. keyVersion \in Nat
    BY DEF ServerTyped
  <1>1. ASSUME UNCHANGED <<keyVersion, rotating, row, atRisk>> PROVE \A i \in Items : Quiet(i)'
    BY <1>1, <1>a DEF Quiet, Exists, Served
  <1>2. ASSUME NEW d \in Devices, Save(d) PROVE \A i \in Items : Quiet(i)'
    <2>0. PICK e \in Items : e = editor[d].item
      BY DEF FormsTyped
    <2>1. UNCHANGED <<keyVersion, rotating>> /\ Served' = Served
      BY <1>2 DEF Save, Served
    <2>2. /\ e \in Items
          /\ \A j \in Items \ {e} : row'[j] = row[j]
          /\ \/ row' = row
             \/ /\ Exists(e)
                /\ row'[e].seal = writeKeyFor(d) /\ row'[e].label = row[e].label
                /\ atRisk' = IF rotating \/ writeKeyFor(d) # keyVersion
                                THEN atRisk \cup {e} ELSE atRisk
      BY <1>2, <2>0, SaveFacts
    <2>3. atRisk \subseteq atRisk'
      BY <1>2 DEF Save
    <2>4. ASSUME NEW i \in Items, row'[i] = row[i] PROVE Quiet(i)'
      BY <1>a, <2>1, <2>3, <2>4 DEF Quiet, Exists
    <2>5. CASE row' = row
      BY <2>4, <2>5
    <2>6. CASE row' # row
      <3>1. Exists(e)' <=> Exists(e)
        BY <2>2, <2>6 DEF Exists
      <3>2. e \notin atRisk' => ~rotating /\ writeKeyFor(d) = keyVersion
        BY <2>2, <2>6
      <3>3. row[e].label \in Served
        BY <1>a, <2>2, <2>6 DEF Quiet
      <3>4. ~rotating => row[e].label = keyVersion
        BY <3>3, ServedFacts
      <3>5. Quiet(e)'
        BY <2>1, <2>2, <2>6, <3>1, <3>2, <3>3, <3>4 DEF Quiet, Exists
      <3> QED
        BY <2>2, <2>4, <3>5
    <2> QED
      BY <2>5, <2>6
  <1>3. ASSUME NEW d \in Devices, NEW c \in Secrets \cup Names, Create(d, c)
        PROVE \A i \in Items : Quiet(i)'
    <2>1. UNCHANGED <<keyVersion, rotating>> /\ Served' = Served
      BY <1>3 DEF Create, Served
    <2>2. c \in Items
      BY DEF Items
    <2>3. /\ row'[c] = [label |-> keyVersion, seal |-> writeKeyFor(d), text |-> 1, revision |-> 1]
          /\ \A j \in Items \ {c} : row'[j] = row[j]
          /\ atRisk \subseteq atRisk'
          /\ c \notin atRisk' => writeKeyFor(d) = keyVersion
      BY <1>3, <2>2 DEF Create, ServerTyped
    <2>4. Quiet(c)'
      BY <2>1, <2>3, ServedFacts DEF Quiet, Exists
    <2>5. ASSUME NEW i \in Items \ {c} PROVE Quiet(i)'
      BY <1>a, <2>1, <2>3 DEF Quiet, Exists
    <2> QED
      BY <2>4, <2>5
  <1>4. ASSUME NEW d \in Devices, NEW c \in Secrets \cup Names, Delete(d, c)
        PROVE \A i \in Items : Quiet(i)'
    <2>1. UNCHANGED <<keyVersion, rotating>> /\ Served' = Served
      BY <1>4 DEF Delete, Served
    <2>2. c \in Items
      BY DEF Items
    <2>3. /\ row'[c].label = -1
          /\ \A j \in Items \ {c} : row'[j] = row[j]
          /\ atRisk' = atRisk \ {c}
      BY <1>4, <2>2, AbsentFacts DEF Delete, ServerTyped
    <2>4. Quiet(c)'
      BY <2>3 DEF Quiet, Exists
    <2>5. ASSUME NEW i \in Items \ {c} PROVE Quiet(i)'
      BY <1>a, <2>1, <2>3 DEF Quiet, Exists
    <2> QED
      BY <2>4, <2>5
  <1>5. ASSUME NEW d \in Devices, Rotate(d) PROVE \A i \in Items : Quiet(i)'
    <2>1. /\ UNCHANGED <<row, atRisk>> /\ ~rotating
          /\ keyVersion' = keyVersion + 1 /\ rotating' = TRUE
      BY <1>5 DEF Rotate, history
    <2>2. keyVersion \in Served'
      BY <1>c, <2>1 DEF Served
    <2>3. \A n \in Served : n = keyVersion
      BY <2>1 DEF Served
    <2>4. Served \subseteq Served'
      BY <2>2, <2>3
    <2> QED
      BY <1>a, <2>1, <2>4 DEF Quiet, Exists
  <1>6. ASSUME NEW d \in Devices, SendSecrets(d) \/ SendNames(d) PROVE \A i \in Items : Quiet(i)'
    <2>1. UNCHANGED <<keyVersion, rotating>> /\ Served' = Served
      BY <1>6, SendingFacts DEF Served
    <2>2. ASSUME NEW batch \in Copies, Accepted(d, batch), Overwrite(d, batch)
          PROVE  \A i \in Items : Quiet(i)'
      <3>1. keyVersion = worker[d].from + 1 /\ worker[d].from \in Nat
        BY <2>2 DEF Accepted, RunsTyped, Run
      <3>2. /\ \A i \in Items \ DOMAIN batch : row'[i] = row[i]
            /\ \A i \in DOMAIN batch : row'[i].label = keyVersion /\ row'[i].seal = keyVersion
            /\ atRisk' = atRisk \ DOMAIN batch
        BY <2>2, <3>1, OverwriteFacts
      <3>3. ASSUME NEW i \in DOMAIN batch PROVE Quiet(i)'
        BY <2>1, <3>2, ServedFacts DEF Quiet, Exists
      <3>4. ASSUME NEW i \in Items \ DOMAIN batch PROVE Quiet(i)'
        BY <1>a, <2>1, <3>2 DEF Quiet, Exists
      <3> QED
        BY <3>3, <3>4
    <2> QED
      BY <1>1, <1>6, <2>1, <2>2, SendingFacts
  <1>7. ASSUME NEW d \in Devices, Close(d) PROVE \A i \in Items : Quiet(i)'
    <2>1. /\ UNCHANGED <<keyVersion, row, atRisk>>
          /\ rotating' = (rotating /\ {i \in Items : row[i].label = keyVersion - 1} # {})
      BY <1>7 DEF Close, history
    <2>2. ASSUME NEW i \in Items, Exists(i) PROVE row[i].label \in Served'
      <3>0. row[i].label \in Served
        BY <1>a, <2>2 DEF Quiet
      <3>1. row[i].label = keyVersion \/ (rotating /\ row[i].label = keyVersion - 1)
        BY <3>0, ServedFacts
      <3>2. row[i].label = keyVersion - 1 => (rotating' <=> rotating)
        BY <2>1
      <3> QED
        BY <2>1, <3>1, <3>2 DEF Served
    <2> QED
      BY <1>a, <2>1, <2>2 DEF Quiet, Exists
  <1>8. ASSUME NEW d \in Devices,
               \/ Refresh(d) \/ Restart(d) \/ Relock(d) \/ Throw(d)
               \/ HoldNewKey(d) \/ ListSecrets(d) \/ ListNames(d)
               \/ \E i \in Secrets : OpenForm(d, i)
        PROVE  UNCHANGED <<keyVersion, rotating, row, atRisk>>
    BY <1>8 DEF Refresh, Restart, Relock, Throw, HoldNewKey, ListSecrets, ListNames, OpenForm,
                server, history
  <1>9. CASE UNCHANGED vars
    BY <1>1, <1>9 DEF vars, server, history
  <1> QED
    BY <1>1, <1>2, <1>3, <1>4, <1>5, <1>6, <1>7, <1>8, <1>9 DEF Next, Work

(* Wherever workers stop and others take over, a row is labelled with a     *)
(* generation still served, and opens with that generation's key unless it  *)
(* was last saved during a rotation or with an outdated key.                *)
(* (rotation-worker.ts:97-177)                                              *)
THEOREM QuietRowsOpenAlways == Spec => []QuietRowsOpen
  <1>1. Init => QuietRowsOpen
    BY InitQuiet
  <1>2. Typing /\ QuietRowsOpen /\ [Next]_vars => QuietRowsOpen'
    BY NextQuiet
  <1> QED
    BY <1>1, <1>2, TypingAlways, PTL DEF Spec

-----------------------------------------------------------------------------
(* No text is stranded.  A row that a device saves or creates under the     *)
(* vault's latest key is sealed under no older generation than its label's, *)
(* and it is the label that keeps a rotation from closing.                  *)

SealsBehind ==
    \E d \in Devices :
        /\ writeKeyFor(d) # keyVersion
        /\ Save(d) \/ \E i \in Secrets \cup Names : Create(d, i)

WritersAreUpToDate == [][~SealsBehind]_vars

KeepsUp(i) == Exists(i) => row[i].seal \in Served /\ row[i].seal >= row[i].label

SealsKeepUp == \A i \in Items : KeepsUp(i)

LEMMA InitKeepsUp == Init => SealsKeepUp
  <1> SUFFICES ASSUME Init, NEW i \in Items, Exists(i)
               PROVE  row[i].seal \in Served /\ row[i].seal >= row[i].label
    BY DEF SealsKeepUp, KeepsUp
  <1>1. row[i] = [label |-> 1, seal |-> 1, text |-> 1, revision |-> 1]
    BY AbsentFacts DEF Init, Exists
  <1> QED
    BY <1>1 DEF Init, Served

LEMMA NextKeepsUp ==
    ASSUME Typing, QuietRowsOpen, SealsKeepUp, [Next]_vars, ~SealsBehind
    PROVE  SealsKeepUp'
  <1> USE DEF Typing
  <1> SUFFICES \A i \in Items : KeepsUp(i)'
    BY DEF SealsKeepUp, KeepsUp, Exists
  <1>a. \A i \in Items : KeepsUp(i)
    BY DEF SealsKeepUp
  <1>c. /\ keyVersion \in Nat
        /\ \A i \in Items : row[i].label \in Nat \cup {-1} /\ row[i].seal \in Nat
    BY DEF ServerTyped, Row
  <1>1. ASSUME Served' = Served, NEW i \in Items,
               \/ row'[i] = row[i]
               \/ row'[i].label = -1
               \/ /\ row'[i].seal = keyVersion
                  /\ row'[i].label \in Served \/ row'[i].label = keyVersion
        PROVE  KeepsUp(i)'
    <2>1. CASE row'[i] = row[i]
      BY <1>1, <1>a, <2>1 DEF KeepsUp, Exists
    <2>2. CASE row'[i].label = -1
      BY <2>2 DEF KeepsUp, Exists
    <2>3. CASE row'[i].seal = keyVersion /\ (row'[i].label \in Served \/ row'[i].label = keyVersion)
      <3>1. row'[i].label \in 1..keyVersion
        BY <2>3, ServedFacts
      <3> QED
        BY <1>1, <1>c, <2>3, <3>1, ServedFacts DEF KeepsUp
    <2> QED
      BY <1>1, <2>1, <2>2, <2>3
  <1>2. ASSUME NEW d \in Devices, Save(d) PROVE \A i \in Items : KeepsUp(i)'
    <2>0. PICK e \in Items : e = editor[d].item
      BY DEF FormsTyped
    <2>1. Served' = Served /\ writeKeyFor(d) = keyVersion
      BY <1>2 DEF Save, Served, SealsBehind
    <2>2. /\ \A j \in Items \ {e} : row'[j] = row[j]
          /\ \/ row' = row
             \/ /\ Exists(e)
                /\ row'[e].seal = keyVersion /\ row'[e].label = row[e].label
      BY <1>2, <2>0, <2>1, SaveFacts
    <2>3. Exists(e) => row[e].label \in Served
      BY DEF QuietRowsOpen
    <2> QED
      BY <1>1, <2>1, <2>2, <2>3
  <1>3. ASSUME NEW d \in Devices, NEW c \in Secrets \cup Names, Create(d, c)
        PROVE  \A i \in Items : KeepsUp(i)'
    <2>1. Served' = Served /\ writeKeyFor(d) = keyVersion /\ c \in Items
      BY <1>3 DEF Create, Served, SealsBehind, Items
    <2>2. /\ row'[c].label = keyVersion /\ row'[c].seal = keyVersion
          /\ \A j \in Items \ {c} : row'[j] = row[j]
      BY <1>3, <2>1 DEF Create, ServerTyped
    <2> QED
      BY <1>1, <2>1, <2>2
  <1>4. ASSUME NEW d \in Devices, NEW c \in Secrets \cup Names, Delete(d, c)
        PROVE  \A i \in Items : KeepsUp(i)'
    <2>1. Served' = Served /\ c \in Items
      BY <1>4 DEF Delete, Served, Items
    <2>2. row'[c].label = -1 /\ \A j \in Items \ {c} : row'[j] = row[j]
      BY <1>4, <2>1, AbsentFacts DEF Delete, ServerTyped
    <2> QED
      BY <1>1, <2>1, <2>2
  <1>5. ASSUME NEW d \in Devices, Rotate(d) PROVE \A i \in Items : KeepsUp(i)'
    <2>1. /\ UNCHANGED row /\ ~rotating
          /\ keyVersion' = keyVersion + 1 /\ rotating' = TRUE
      BY <1>5 DEF Rotate, history
    <2>2. Served = {keyVersion} /\ keyVersion \in Served'
      BY <1>c, <2>1 DEF Served
    <2> QED
      BY <1>a, <2>1, <2>2 DEF KeepsUp, Exists
  <1>6. ASSUME NEW d \in Devices, SendSecrets(d) \/ SendNames(d)
        PROVE  \A i \in Items : KeepsUp(i)'
    <2>1. Served' = Served
      BY <1>6, SendingFacts DEF Served
    <2>2. CASE row' = row
      BY <1>1, <2>1, <2>2
    <2>3. ASSUME NEW batch \in Copies, Accepted(d, batch), Overwrite(d, batch)
          PROVE  \A i \in Items : KeepsUp(i)'
      <3>1. keyVersion = worker[d].from + 1 /\ worker[d].from \in Nat
        BY <2>3 DEF Accepted, RunsTyped, Run
      <3>2. /\ \A i \in Items \ DOMAIN batch : row'[i] = row[i]
            /\ \A i \in DOMAIN batch : row'[i].label = keyVersion /\ row'[i].seal = keyVersion
        BY <2>3, <3>1, OverwriteFacts
      <3> QED
        BY <1>1, <2>1, <3>2
    <2> QED
      BY <1>6, <2>2, <2>3, SendingFacts
  \* A close leaves the latest generation only: no row is labelled with the
  \* older, so none is sealed under it.
  <1>7. ASSUME NEW d \in Devices, Close(d) PROVE \A i \in Items : KeepsUp(i)'
    <2>1. /\ UNCHANGED <<keyVersion, row>>
          /\ rotating' = (rotating /\ {i \in Items : row[i].label = keyVersion - 1} # {})
      BY <1>7 DEF Close
    <2>2. CASE rotating' = rotating
      BY <1>1, <2>1, <2>2 DEF Served
    <2>3. CASE rotating' # rotating
      <3>1. \A i \in Items : row[i].label # keyVersion - 1
        BY <2>1, <2>3 DEF ServerTyped
      <3>2. ASSUME NEW i \in Items, Exists(i) PROVE row[i].seal = keyVersion
        <4>1. row[i].label \in Served /\ row[i].seal \in Served /\ row[i].seal >= row[i].label
          BY <1>a, <3>2 DEF QuietRowsOpen, KeepsUp
        <4>2. row[i].label = keyVersion /\ row[i].seal \in 1..keyVersion
          BY <3>1, <4>1, ServedFacts
        <4> QED
          BY <1>c, <4>1, <4>2
      <3>3. keyVersion \in Served'
        BY <2>1 DEF Served
      <3> QED
        BY <1>a, <2>1, <3>2, <3>3 DEF KeepsUp, Exists
    <2> QED
      BY <2>2, <2>3
  <1>8. ASSUME UNCHANGED <<keyVersion, rotating, row>> PROVE \A i \in Items : KeepsUp(i)'
    BY <1>8, <1>1 DEF Served
  <1>9. ASSUME NEW d \in Devices,
               \/ Refresh(d) \/ Restart(d) \/ Relock(d) \/ Throw(d)
               \/ HoldNewKey(d) \/ ListSecrets(d) \/ ListNames(d)
               \/ \E i \in Secrets : OpenForm(d, i)
        PROVE  UNCHANGED <<keyVersion, rotating, row>>
    BY <1>9 DEF Refresh, Restart, Relock, Throw, HoldNewKey, ListSecrets, ListNames, OpenForm,
                server
  <1>10. CASE UNCHANGED vars
    BY <1>8, <1>10 DEF vars, server
  <1> QED
    BY <1>2, <1>3, <1>4, <1>5, <1>6, <1>7, <1>8, <1>9, <1>10 DEF Next, Work

(* Where every device that saves or creates holds the vault's latest key    *)
(* when the server takes the row, no generation is destroyed while a row is *)
(* sealed under it, also where rows are saved in the middle of a rotation   *)
(* and runs of the worker stop: what crypto-envelope.md:82-88 promises.     *)
THEOREM LatestKeysStrandNothing == Spec /\ WritersAreUpToDate => []NothingIsStranded
  <1>1. Init => SealsKeepUp
    BY InitKeepsUp
  <1>2. /\ Typing /\ QuietRowsOpen /\ SealsKeepUp
        /\ [Next]_vars /\ [~SealsBehind]_vars
        => SealsKeepUp'
    <2> SUFFICES ASSUME Typing, QuietRowsOpen, SealsKeepUp, [Next]_vars, [~SealsBehind]_vars
                 PROVE  SealsKeepUp'
      OBVIOUS
    <2>1. CASE ~SealsBehind
      BY <2>1, NextKeepsUp
    <2>2. CASE UNCHANGED vars
      BY <2>2 DEF vars, server, SealsKeepUp, KeepsUp, Exists, Served
    <2> QED
      BY <2>1, <2>2
  <1>3. SealsKeepUp => NothingIsStranded
    BY DEF SealsKeepUp, KeepsUp, NothingIsStranded
  <1> QED
    BY <1>1, <1>2, <1>3, TypingAlways, QuietRowsOpenAlways, PTL DEF Spec, WritersAreUpToDate

-----------------------------------------------------------------------------
(* Saves survive *)

(* What a run has read is still what the row holds, unless it has been saved *)
(* since; and it has read no row that does not exist yet.                    *)
CurrentCopy(d, i) ==
    /\ row[i].label # 0
    /\ Exists(i) /\ i \notin overtaken => worker[d].copies[i].text = row[i].text

CopiesAreCurrent == \A d \in Devices : \A i \in Copied(d) : CurrentCopy(d, i)

LEMMA InitCopies == Init => CopiesAreCurrent /\ SavesSurvive
  <1> SUFFICES ASSUME Init PROVE CopiesAreCurrent /\ SavesSurvive
    OBVIOUS
  <1>1. \A d \in Devices : Copied(d) = {}
    BY NoRunFacts DEF Init, Copied
  <1>2. \A i \in Items : row[i].text = row[i].revision
    BY AbsentFacts DEF Init
  <1> QED
    BY <1>1, <1>2 DEF CopiesAreCurrent, SavesSurvive

(* Runs that keep some of their copies and rows that keep their texts.      *)
LEMMA KeepsCopies ==
    ASSUME CopiesAreCurrent, UNCHANGED <<row, overtaken>>,
           \A e \in Devices : \A i \in DOMAIN worker'[e].copies :
              \/ i \in Copied(e) /\ worker'[e].copies[i] = worker[e].copies[i]
              \/ row[i].label # 0 /\ worker'[e].copies[i] = row[i]
    PROVE  CopiesAreCurrent'
  BY DEF CopiesAreCurrent, CurrentCopy, Copied, Exists

LEMMA NextCopies ==
    Typing /\ CopiesAreCurrent /\ SavesSurvive /\ [Next]_vars
      => (CopiesAreCurrent /\ SavesSurvive)'
  <1> SUFFICES ASSUME Typing, CopiesAreCurrent, SavesSurvive, [Next]_vars
               PROVE  CopiesAreCurrent' /\ SavesSurvive'
    OBVIOUS
  <1> USE DEF Typing
  <1>a. \A d \in Devices : \A i \in Copied(d) : i \in Items
    BY CopiesFacts DEF RunsTyped, Run, Copied
  <1>b. \A i \in Items : row[i] \in Row
    BY DEF ServerTyped
  <1>1. ASSUME UNCHANGED <<row, overtaken>> PROVE SavesSurvive'
    BY <1>1 DEF SavesSurvive, Exists
  <1>2. ASSUME NEW d \in Devices, UNCHANGED <<row, overtaken>>,
               worker' = [worker EXCEPT ![d] = NoRun]
        PROVE  CopiesAreCurrent'
    BY <1>2, KeepsCopies, NoRunFacts DEF RunsTyped, Copied
  <1>3. ASSUME UNCHANGED <<row, overtaken, worker>> PROVE CopiesAreCurrent'
    BY <1>3 DEF CopiesAreCurrent, CurrentCopy, Copied, Exists
  <1>4. ASSUME NEW d \in Devices, Save(d) PROVE CopiesAreCurrent' /\ SavesSurvive'
    <2>0. PICK e \in Items : e = editor[d].item
      BY DEF FormsTyped
    <2>1. /\ \A j \in Items \ {e} : row'[j] = row[j]
          /\ \/ row' = row
             \/ /\ Exists(e) /\ row[e].revision = editor[d].revision
                /\ row'[e].label = row[e].label
                /\ row'[e].text = editor[d].revision + 1
                /\ row'[e].revision = row[e].revision + 1
                /\ overtaken' = IF \E w \in Devices : e \in Copied(w)
                                   THEN overtaken \cup {e} ELSE overtaken
      BY <1>4, <2>0, SaveFacts
    <2>2. worker' = worker /\ overtaken \subseteq overtaken'
      BY <1>4 DEF Save
    <2>3. CASE row' = row
      BY <2>2, <2>3 DEF CopiesAreCurrent, CurrentCopy, SavesSurvive, Copied, Exists
    <2>4. CASE row' # row
      <3>1. row'[e].text = row'[e].revision
        BY <2>1, <2>4
      <3>2. SavesSurvive'
        BY <2>1, <2>2, <3>1 DEF SavesSurvive, Exists
      <3>3. ASSUME NEW w \in Devices, NEW i \in Copied(w) PROVE CurrentCopy(w, i)'
        <4>1. CurrentCopy(w, i) /\ i \in Items
          BY <1>a DEF CopiesAreCurrent
        <4>2. CASE i = e
          BY <2>1, <2>4, <4>1, <4>2 DEF CurrentCopy, Copied
        <4>3. CASE i # e
          BY <2>1, <2>2, <4>1, <4>3 DEF CurrentCopy, Exists
        <4> QED
          BY <4>2, <4>3
      <3> QED
        BY <2>2, <3>2, <3>3 DEF CopiesAreCurrent, Copied
    <2> QED
      BY <2>3, <2>4
  <1>5. ASSUME NEW d \in Devices, NEW c \in Secrets \cup Names, Create(d, c)
        PROVE  CopiesAreCurrent' /\ SavesSurvive'
    <2>1. c \in Items /\ row[c].label = 0 /\ UNCHANGED <<worker, overtaken>>
      BY <1>5, AbsentFacts DEF Create, Items
    <2>2. /\ row'[c].text = row'[c].revision
          /\ \A j \in Items \ {c} : row'[j] = row[j]
      BY <1>5, <2>1 DEF Create, ServerTyped
    <2>3. SavesSurvive'
      BY <2>1, <2>2 DEF SavesSurvive, Exists
    <2>4. \A w \in Devices : \A i \in Copied(w) : i \in Items \ {c}
      BY <1>a, <2>1 DEF CopiesAreCurrent, CurrentCopy
    <2> QED
      BY <2>1, <2>2, <2>3, <2>4 DEF CopiesAreCurrent, CurrentCopy, Copied, Exists
  <1>6. ASSUME NEW d \in Devices, NEW c \in Secrets \cup Names, Delete(d, c)
        PROVE  CopiesAreCurrent' /\ SavesSurvive'
    <2>1. c \in Items /\ UNCHANGED worker /\ overtaken' = overtaken \ {c}
      BY <1>6 DEF Delete, Items
    <2>2. row'[c].label = -1 /\ \A j \in Items \ {c} : row'[j] = row[j]
      BY <1>6, <2>1, AbsentFacts DEF Delete, ServerTyped
    <2>3. SavesSurvive'
      BY <2>1, <2>2 DEF SavesSurvive, Exists
    <2>4. ASSUME NEW w \in Devices, NEW i \in Copied(w) PROVE CurrentCopy(w, i)'
      <3>1. CurrentCopy(w, i) /\ i \in Items
        BY <1>a DEF CopiesAreCurrent
      <3>2. CASE i = c
        BY <2>2, <3>2 DEF CurrentCopy, Exists
      <3>3. CASE i # c
        BY <2>1, <2>2, <3>1, <3>3 DEF CurrentCopy, Exists
      <3> QED
        BY <3>2, <3>3
    <2> QED
      BY <2>1, <2>3, <2>4 DEF CopiesAreCurrent, Copied
  <1>7. ASSUME NEW d \in Devices, Rotate(d) PROVE CopiesAreCurrent' /\ SavesSurvive'
    <2> DEFINE r == [NoRun EXCEPT !.phase = "opened", !.from = keyVersion]
    <2>1. DOMAIN r.copies = {}
      BY NoRunFacts DEF Run
    <2>2. worker' = [worker EXCEPT ![d] = r] /\ UNCHANGED <<row, overtaken>>
      BY <1>7 DEF Rotate, history
    <2> HIDE DEF r
    <2>3. CopiesAreCurrent'
      BY <2>1, <2>2, KeepsCopies DEF RunsTyped, Copied
    <2> QED
      BY <1>1, <2>2, <2>3
  <1>8. ASSUME NEW d \in Devices, Relock(d) PROVE CopiesAreCurrent' /\ SavesSurvive'
    <2> DEFINE r == [worker[d] EXCEPT !.oldKey = FALSE]
    <2>1. r.copies = worker[d].copies
      BY DEF RunsTyped, Run
    <2>2. worker' = [worker EXCEPT ![d] = r] /\ UNCHANGED <<row, overtaken>>
      BY <1>8 DEF Relock, server, history
    <2> HIDE DEF r
    <2>3. CopiesAreCurrent'
      BY <2>1, <2>2, KeepsCopies DEF RunsTyped, Copied
    <2> QED
      BY <1>1, <2>2, <2>3
  <1>9. ASSUME NEW d \in Devices, HoldNewKey(d) PROVE CopiesAreCurrent' /\ SavesSurvive'
    <2> DEFINE r == [worker[d] EXCEPT !.phase = "secrets", !.oldKey = TRUE]
    <2>1. r.copies = worker[d].copies
      BY DEF RunsTyped, Run
    <2>2. /\ worker' = [worker EXCEPT ![d] = r] \/ worker' = [worker EXCEPT ![d] = NoRun]
          /\ UNCHANGED <<row, overtaken>>
      BY <1>9 DEF HoldNewKey, server, history
    <2> HIDE DEF r
    <2>3. worker' = [worker EXCEPT ![d] = r] => CopiesAreCurrent'
      BY <2>1, <2>2, KeepsCopies DEF RunsTyped, Copied
    <2> QED
      BY <1>1, <1>2, <2>2, <2>3
  <1>10. ASSUME NEW d \in Devices, ListSecrets(d) \/ ListNames(d)
         PROVE  CopiesAreCurrent' /\ SavesSurvive'
    <2>1. UNCHANGED <<row, overtaken>> /\ worker[d].phase # "none"
      BY <1>10 DEF ListSecrets, ListNames, server, history
    <2>2. worker' = CopyStale(d, Secrets, "names") \/ worker' = CopyStale(d, Names, "sending")
      BY <1>10 DEF ListSecrets, ListNames
    <2>3. /\ \A e \in Devices \ {d} : worker'[e] = worker[e]
          /\ \A i \in DOMAIN worker'[d].copies :
               \/ row[i].label = worker[d].from /\ worker'[d].copies[i] = row[i]
               \/ i \in Copied(d) /\ worker'[d].copies[i] = worker[d].copies[i]
      BY <2>1, <2>2, CopyStaleFacts DEF Phases, Items
    <2>4. worker[d].from \in Nat /\ worker[d].from >= 1
      BY <2>1 DEF RunsTyped, Run
    <2>5. \A e \in Devices : \A i \in DOMAIN worker'[e].copies :
            \/ i \in Copied(e) /\ worker'[e].copies[i] = worker[e].copies[i]
            \/ row[i].label # 0 /\ worker'[e].copies[i] = row[i]
      BY <2>3, <2>4 DEF Copied
    <2> QED
      BY <1>1, <2>1, <2>5, KeepsCopies
  <1>11. ASSUME NEW d \in Devices, SendSecrets(d) \/ SendNames(d)
         PROVE  CopiesAreCurrent' /\ SavesSurvive'
    <2>1. /\ overtaken' = overtaken
          /\ \A e \in Devices : \A i \in DOMAIN worker'[e].copies :
               i \in Copied(e) /\ worker'[e].copies[i] = worker[e].copies[i]
      BY <1>11, SendingFacts DEF Copied
    <2>2. CASE UNCHANGED <<row, atRisk>>
      BY <1>1, <2>1, <2>2, KeepsCopies
    <2>3. ASSUME NEW batch \in Copies,
                 \A i \in DOMAIN batch : \/ i \in Copied(d) /\ batch[i] = worker[d].copies[i]
                                         \/ batch[i] = row[i],
                 Accepted(d, batch), Overwrite(d, batch)
          PROVE  CopiesAreCurrent' /\ SavesSurvive'
      <3>1. worker[d].from \in Nat
        BY DEF RunsTyped, Run
      <3>2. /\ \A i \in Items \ DOMAIN batch : row'[i] = row[i]
            /\ \A i \in DOMAIN batch :
                 /\ i \in Items /\ row'[i].label = worker[d].from + 1
                 /\ row'[i].text = batch[i].text /\ row'[i].revision = row[i].revision
        BY <2>3, <3>1, OverwriteFacts
      <3>3. \A i \in DOMAIN batch : Exists(i)
        BY <2>3 DEF Accepted
      <3>4. \A i \in DOMAIN batch : i \notin overtaken => row'[i].text = row[i].text
        BY <2>3, <3>2, <3>3 DEF CopiesAreCurrent, CurrentCopy
      <3>5. \A i \in Items : /\ i \notin overtaken => row'[i].text = row[i].text
                             /\ row'[i].revision = row[i].revision
                             /\ Exists(i)' => Exists(i)
                             /\ row[i].label # 0 => row'[i].label # 0
        BY <3>1, <3>2, <3>3, <3>4 DEF Exists
      <3>6. SavesSurvive'
        BY <2>1, <3>5 DEF SavesSurvive
      <3>7. ASSUME NEW e \in Devices, NEW i \in DOMAIN worker'[e].copies
            PROVE  CurrentCopy(e, i)'
        <4>1. i \in Items /\ CurrentCopy(e, i) /\ worker'[e].copies[i] = worker[e].copies[i]
          BY <1>a, <2>1 DEF CopiesAreCurrent
        <4> QED
          BY <2>1, <3>5, <4>1 DEF CurrentCopy
      <3> QED
        BY <3>6, <3>7 DEF CopiesAreCurrent, Copied
    <2> QED
      BY <1>11, <2>2, <2>3, SendingFacts
  <1>12. ASSUME NEW d \in Devices, Close(d) \/ Throw(d)
         PROVE  UNCHANGED <<row, overtaken>> /\ worker' = [worker EXCEPT ![d] = NoRun]
    BY <1>12 DEF Close, Throw, server, history
  <1>13. ASSUME NEW d \in Devices, Restart(d)
         PROVE  UNCHANGED <<row, overtaken>> /\ worker' = [worker EXCEPT ![d] = NoRun]
    BY <1>13 DEF Restart, server, history
  <1>14. ASSUME NEW d \in Devices, Refresh(d) \/ \E i \in Secrets : OpenForm(d, i)
         PROVE  UNCHANGED <<row, overtaken, worker>>
    BY <1>14 DEF Refresh, OpenForm, server, history
  <1>15. CASE UNCHANGED vars
    BY <1>1, <1>3, <1>15 DEF vars, server, history
  <1> QED
    BY <1>1, <1>2, <1>3, <1>4, <1>5, <1>6, <1>7, <1>8, <1>9, <1>10, <1>11, <1>12, <1>13, <1>14,
       <1>15
    DEF Next, Work

(* A row holds what was last saved in it, unless that save fell between a   *)
(* worker's reading the row and sending it back: copies that a run sends are *)
(* those of rows nobody has saved meanwhile. (rotation-worker.ts:97-141)    *)
THEOREM SavesSurviveAlways == Spec => []SavesSurvive
  <1>1. Init => CopiesAreCurrent /\ SavesSurvive
    BY InitCopies
  <1>2. Typing /\ CopiesAreCurrent /\ SavesSurvive /\ [Next]_vars
          => (CopiesAreCurrent /\ SavesSurvive)'
    BY NextCopies
  <1> QED
    BY <1>1, <1>2, TypingAlways, PTL DEF Spec
=============================================================================
