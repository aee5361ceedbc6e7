--------------------------- MODULE RotationWorker ---------------------------
(***************************************************************************)
(* The clients of one shared vault: one of them re-encrypts the vault      *)
(* (frontend/src/vault/rotation-worker.ts) while the others read and write *)
(* it with the keys in their keyrings (frontend/src/vault/keyring.ts).     *)
(*                                                                         *)
(* The server cannot open a ciphertext, so nothing makes a row's label,    *)
(* its keyVersion column, agree with the generation of the key its         *)
(* ciphertext was sealed under: a row has both here.  Every API call is    *)
(* one step, as if its handler were atomic (VaultRotation interleaves the  *)
(* handlers' halves), and every device belongs to a member who stays.      *)
(***************************************************************************)
EXTENDS Integers, FiniteSets, FiniteSetsExt, Functions

CONSTANTS
    Devices,      \* the members' devices; each may run a worker
    Secrets,      \* ids of secrets
    Names,        \* ids of folders and tags
    VaultName,    \* stands for the vault's own encrypted name
    BatchSize,    \* secrets sent in one batch
    MaxVersion,   \* bound: no rotation opens beyond this generation
    MaxRevision   \* bound: no secret is saved beyond this revision

Items == Secrets \cup Names \cup {VaultName}

ASSUME ItemAssumption ==
    /\ VaultName \notin Secrets \cup Names
    /\ Secrets \cap Names = {}

ASSUME BoundAssumption ==
    BatchSize \in Nat \ {0} /\ MaxVersion \in Nat /\ MaxRevision \in Nat \ {0}

VARIABLES
    keyVersion,   \* vault.keyVersion
    rotating,     \* a rotation from keyVersion - 1 is running
    row,          \* every secret, folder and tag, and the vault's name
    keyring,      \* the generations each device holds the key of
    seen,         \* the vault's keyVersion as each device last fetched it
    worker,       \* the run of runRotation on each device
    editor,       \* the edit form open on each device
    atRisk,       \* history: rows saved during a rotation or with an outdated key
    overtaken     \* history: rows saved between a worker's reading and sending them

server  == <<keyVersion, rotating, row>>
history == <<atRisk, overtaken>>
vars    == <<server, keyring, seen, worker, editor, history>>

-----------------------------------------------------------------------------
Absent  == [label |-> 0, seal |-> 0, text |-> 0, revision |-> 0]
Deleted == [Absent EXCEPT !.label = -1]

Exists(i) == row[i].label > 0

(* A row's text is named by the revision that the save gave it.            *)
Row == [label : Nat \cup {-1}, seal : Nat, text : Nat, revision : Nat]

(* The generations whose wraps the server hands to a member. *)
Served == {keyVersion} \cup (IF rotating THEN {keyVersion - 1} ELSE {})

(* Writing: always the highest generation held. *)
writeKeyFor(d) == Max(keyring[d])

(* The whole list fails to load if one row does not open. *)
CanLoad(d) ==
    \A i \in Items \ {VaultName} :
        Exists(i) => row[i].label \in keyring[d] /\ row[i].seal = row[i].label

Phases == {"none", "opened", "secrets", "names", "sending", "closing"}

NoCopies == [i \in {} |-> Absent]

NoRun == [phase |-> "none", from |-> 0, copies |-> NoCopies, oldKey |-> FALSE]

NoEdit == [item |-> VaultName, revision |-> 0]

Copied(d) == DOMAIN worker[d].copies

(* vaultKeyFor(from): the run throws where that key is not held. *)
HoldsOldKey(d) == worker[d].from \in keyring[d]

Init ==
    /\ keyVersion = 1
    /\ rotating = FALSE
    /\ row = [i \in Items |-> IF i = VaultName THEN [label |-> 1, seal |-> 1, text |-> 1,
                                                     revision |-> 1]
                                               ELSE Absent]
    /\ keyring = [d \in Devices |-> {1}]
    /\ seen = [d \in Devices |-> 1]
    /\ worker = [d \in Devices |-> NoRun]
    /\ editor = [d \in Devices |-> NoEdit]
    /\ atRisk = {} /\ overtaken = {}

-----------------------------------------------------------------------------
(* The devices *)

(* loadVaults: the keys of all generations served are added to the keyring. *)
Refresh(d) ==
    /\ keyring' = [keyring EXCEPT ![d] = @ \cup Served]
    /\ seen' = [seen EXCEPT ![d] = keyVersion]
    /\ UNCHANGED <<server, worker, editor, history>>

(* The page is closed and opened again: keys, forms and the run are gone. *)
Restart(d) ==
    /\ keyring' = [keyring EXCEPT ![d] = Served]
    /\ seen' = [seen EXCEPT ![d] = keyVersion]
    /\ worker' = [worker EXCEPT ![d] = NoRun]
    /\ editor' = [editor EXCEPT ![d] = NoEdit]
    /\ UNCHANGED <<server, history>>

(* Lock and unlock with the page open: lock overwrites the very bytes that  *)
(* the run holds as its old key, but does not stop the run.                 *)
Relock(d) ==
    /\ worker[d] # NoRun
    /\ keyring' = [keyring EXCEPT ![d] = Served]
    /\ seen' = [seen EXCEPT ![d] = keyVersion]
    /\ worker' = [worker EXCEPT ![d].oldKey = FALSE]
    /\ editor' = [editor EXCEPT ![d] = NoEdit]
    /\ UNCHANGED <<server, history>>

(* A secret, a folder or a tag is created: sealed under the highest key the *)
(* device holds, labelled by the server with the vault's generation.        *)
Create(d, i) ==
    /\ row[i] = Absent
    /\ row' = [row EXCEPT ![i] = [label |-> keyVersion, seal |-> writeKeyFor(d),
                                  text |-> 1, revision |-> 1]]
    /\ atRisk' = IF writeKeyFor(d) = keyVersion THEN atRisk ELSE atRisk \cup {i}
    /\ UNCHANGED <<keyVersion, rotating, keyring, seen, worker, editor, overtaken>>

Delete(d, i) ==
    /\ Exists(i)
    /\ row' = [row EXCEPT ![i] = Deleted]
    /\ atRisk' = atRisk \ {i}
    /\ overtaken' = overtaken \ {i}
    /\ UNCHANGED <<keyVersion, rotating, keyring, seen, worker, editor>>

(* The list is loaded and the form of one of its secrets is opened. *)
OpenForm(d, i) ==
    /\ Exists(i)
    /\ CanLoad(d)
    /\ editor' = [editor EXCEPT ![d] = [item |-> i, revision |-> row[i].revision]]
    /\ UNCHANGED <<server, keyring, seen, worker, history>>

(* Mutant: no revision is compared. *)
SaveBlindly(d) ==
    LET i == editor[d].item
    IN /\ editor[d] # NoEdit
       /\ row[i].revision < MaxRevision
       /\ Exists(i)
       /\ editor' = [editor EXCEPT ![d] = NoEdit]
       /\ row' = [row EXCEPT ![i].seal = writeKeyFor(d), ![i].text = editor[d].revision + 1,
                             ![i].revision = @ + 1]
       /\ UNCHANGED <<keyVersion, rotating, keyring, seen, worker, history>>

(* PUT of the secret, refused unless its revision is still the one loaded. *)
(* The columns written do not include keyVersion.                          *)
Save(d) ==
    LET i     == editor[d].item
        saved == Exists(i) /\ row[i].revision = editor[d].revision
        risky == rotating \/ writeKeyFor(d) # keyVersion
    IN /\ editor[d] # NoEdit
       /\ row[i].revision < MaxRevision
       /\ editor' = [editor EXCEPT ![d] = NoEdit]
       /\ row' = IF saved THEN [row EXCEPT ![i].seal = writeKeyFor(d),
                                           ![i].text = editor[d].revision + 1,
                                           ![i].revision = @ + 1]
                          ELSE row
       /\ atRisk' = IF saved /\ risky THEN atRisk \cup {i} ELSE atRisk
       /\ overtaken' = IF saved /\ \E w \in Devices : i \in Copied(w)
                          THEN overtaken \cup {i} ELSE overtaken
       /\ UNCHANGED <<keyVersion, rotating, keyring, seen, worker>>

-----------------------------------------------------------------------------
(* The worker: rotateVault, openRotation and runRotation *)

(* The vault's generation is taken from the screen; the server refuses a    *)
(* rotation that is not the next, or while one is running.                  *)
Rotate(d) ==
    /\ worker[d] = NoRun
    /\ keyVersion < MaxVersion
    /\ ~rotating
    /\ seen[d] = keyVersion
    /\ keyVersion' = keyVersion + 1
    /\ rotating' = TRUE
    /\ worker' = [worker EXCEPT ![d] = [NoRun EXCEPT !.phase = "opened", !.from = keyVersion]]
    /\ UNCHANGED <<row, keyring, seen, editor, history>>

(* The new generation's wrap is fetched; the old key must be held too. *)
HoldNewKey(d) ==
    /\ worker[d].phase = "opened"
    /\ keyring' = [keyring EXCEPT ![d] = @ \cup (Served \cap {worker[d].from + 1})]
    /\ worker' = [worker EXCEPT ![d] =
                     IF HoldsOldKey(d) THEN [@ EXCEPT !.phase = "secrets", !.oldKey = TRUE]
                                       ELSE NoRun]
    /\ UNCHANGED <<server, seen, editor, history>>

(* Copies of the given rows, of those that are at the old generation. *)
CopyStale(d, items, phase) ==
    LET stale == {i \in items : row[i].label = worker[d].from}
    IN [worker EXCEPT ![d] =
          [@ EXCEPT !.phase = phase,
                    !.copies = [i \in stale \cup Copied(d) |->
                                  IF i \in stale THEN row[i] ELSE worker[d].copies[i]]]]

ListSecrets(d) ==
    /\ worker[d].phase = "secrets"
    /\ worker' = CopyStale(d, Secrets, "names")
    /\ UNCHANGED <<server, keyring, seen, editor, history>>

ListNames(d) ==
    /\ worker[d].phase = "names"
    /\ worker' = CopyStale(d, Names, "sending")
    /\ UNCHANGED <<server, keyring, seen, editor, history>>

(* A batch of copies, re-encrypted, is posted.  A copy that the old key does *)
(* not open, a rotation no longer running, or a row deleted meanwhile makes  *)
(* the run throw.                                                            *)
Accepted(d, copies) ==
    /\ worker[d].oldKey
    /\ \A i \in DOMAIN copies : copies[i].seal = worker[d].from
    /\ rotating /\ keyVersion = worker[d].from + 1
    /\ \A i \in DOMAIN copies : Exists(i)

(* Mutant: the copies are sent back as they were read. *)
OverwriteUnsealed(d, copies) ==
    /\ row' = [i \in Items |->
                 IF i \in DOMAIN copies
                   THEN [row[i] EXCEPT !.label = worker[d].from + 1, !.seal = copies[i].seal,
                                       !.text = copies[i].text]
                   ELSE row[i]]
    /\ atRisk' = atRisk \ DOMAIN copies

(* POST /rotation/batch: the rows are overwritten, whatever their revision. *)
Overwrite(d, copies) ==
    LET to == worker[d].from + 1
    IN /\ row' = [i \in Items |->
                    IF i \in DOMAIN copies
                      THEN [row[i] EXCEPT !.label = to, !.seal = to, !.text = copies[i].text]
                      ELSE row[i]]
       /\ atRisk' = atRisk \ DOMAIN copies

(* Mutant: every batch starts again from the first secret listed, and the   *)
(* copies sent are never let go.                                            *)
SendAgain(d) ==
    /\ worker[d].phase = "sending"
    /\ Copied(d) \cap Secrets # {}
    /\ IF Accepted(d, worker[d].copies)
         THEN Overwrite(d, worker[d].copies)
         ELSE UNCHANGED <<row, atRisk>>
    /\ UNCHANGED <<keyVersion, rotating, keyring, seen, editor, worker, overtaken>>

SendSecrets(d) ==
    /\ worker[d].phase = "sending"
    /\ \E slice \in SUBSET (Copied(d) \cap Secrets) :
         LET batch == Restrict(worker[d].copies, slice)
         IN /\ Cardinality(slice) = Min({BatchSize, Cardinality(Copied(d) \cap Secrets)})
            /\ slice # {}
            /\ IF Accepted(d, batch)
                 THEN /\ Overwrite(d, batch)
                      /\ worker' = [worker EXCEPT ![d].copies =
                                      Restrict(@, Copied(d) \ slice)]
                 ELSE /\ worker' = [worker EXCEPT ![d] = NoRun]
                      /\ UNCHANGED <<row, atRisk>>
    /\ UNCHANGED <<keyVersion, rotating, keyring, seen, editor, overtaken>>

(* Once the secrets are sent: the vault's name is fetched and sent in one   *)
(* batch with the names, unless there is nothing to send.                   *)
SendNames(d) ==
    LET name  == IF row[VaultName].label = worker[d].from THEN {VaultName} ELSE {}
        batch == [i \in Copied(d) \cup name |->
                    IF i = VaultName THEN row[i] ELSE worker[d].copies[i]]
    IN /\ worker[d].phase = "sending"
       /\ Copied(d) \cap Secrets = {}
       /\ IF DOMAIN batch = {} \/ Accepted(d, batch)
            THEN /\ Overwrite(d, batch)
                 /\ worker' = [worker EXCEPT ![d] = [@ EXCEPT !.phase = "closing",
                                                              !.copies = NoCopies]]
            ELSE /\ worker' = [worker EXCEPT ![d] = NoRun]
                 /\ UNCHANGED <<row, atRisk>>
       /\ UNCHANGED <<keyVersion, rotating, keyring, seen, editor, overtaken>>

(* Mutant: the run is left in a phase of its own when the rotation closes. *)
CloseDone(d) ==
    /\ worker[d].phase = "closing"
    /\ rotating' = FALSE
    /\ worker' = [worker EXCEPT ![d].phase = "done"]
    /\ UNCHANGED <<keyVersion, row, keyring, seen, editor, history>>

(* POST /rotation/close; refused while a row is outstanding.  Either way    *)
(* the run is over: a refusal is thrown to the caller.                      *)
Close(d) ==
    LET outstanding == {i \in Items : row[i].label = keyVersion - 1}
    IN /\ worker[d].phase = "closing"
       /\ rotating' = (rotating /\ outstanding # {})
       /\ worker' = [worker EXCEPT ![d] = NoRun]
       /\ UNCHANGED <<keyVersion, row, keyring, seen, editor, history>>

(* A call fails, or its answer is lost after the server has acted. *)
Throw(d) ==
    /\ worker[d] # NoRun
    /\ worker' = [worker EXCEPT ![d] = NoRun]
    /\ UNCHANGED <<server, keyring, seen, editor, history>>

Work(d) ==
    \/ HoldNewKey(d) \/ ListSecrets(d) \/ ListNames(d)
    \/ SendSecrets(d) \/ SendNames(d) \/ Close(d)

Next ==
    \E d \in Devices :
        \/ Work(d) \/ Rotate(d) \/ Throw(d)
        \/ Refresh(d) \/ Restart(d) \/ Relock(d) \/ Save(d)
        \/ \E i \in Secrets : OpenForm(d, i)
        \/ \E i \in Secrets \cup Names : Create(d, i) \/ Delete(d, i)

Spec == Init /\ [][Next]_vars

(* A page that stays open runs its promises on: each call of the worker is   *)
(* eventually answered or fails.                                            *)
FairSpec == Spec /\ \A d \in Devices : WF_vars(Work(d))

(* Besides, an owner who sees the banner keeps asking for the rotation.      *)
InsistentSpec == FairSpec /\ \A d \in Devices : SF_vars(Rotate(d)) /\ WF_vars(Refresh(d))

-----------------------------------------------------------------------------
(* Properties *)

TypeOK ==
    /\ keyVersion \in Nat /\ rotating \in BOOLEAN
    /\ row \in [Items -> Row]
    /\ keyring \in [Devices -> SUBSET Nat] /\ seen \in [Devices -> Nat]
    /\ \A d \in Devices :
         /\ worker[d].phase \in Phases
         /\ worker[d].from \in Nat /\ worker[d].oldKey \in BOOLEAN
         /\ Copied(d) \subseteq Items
         /\ \A i \in Copied(d) : worker[d].copies[i] \in Row
    /\ editor \in [Devices -> [item : Items, revision : Nat]]
    /\ atRisk \subseteq Items /\ overtaken \subseteq Items

(* No generation is destroyed while a row is sealed under it: every text    *)
(* the server has accepted can be read. (crypto-envelope.md:82-88)          *)
NothingIsStranded == \A i \in Items : Exists(i) => row[i].seal \in Served

(* What the code does guarantee, wherever workers stop and others take over: *)
(* every row is labelled with a generation the server still serves, and it   *)
(* opens with that generation's key, unless it was last saved while a        *)
(* rotation was running or with a key that was not the vault's latest.       *)
(* (rotation-worker.ts:97-177)                                               *)
QuietRowsOpen ==
    \A i \in Items : Exists(i) =>
        /\ row[i].label \in Served
        /\ i \notin atRisk => row[i].seal = row[i].label

(* A row holds what was last saved in it, unless that save fell between a   *)
(* worker's reading the row and sending it back (rotation-worker.ts:97-141).*)
SavesSurvive == \A i \in Items \ overtaken : Exists(i) => row[i].text = row[i].revision

(* A run ends: it closes the rotation, or fails and says so.                *)
RunEnds == \A d \in Devices : worker[d] # NoRun ~> worker[d] = NoRun

(* A rotation that was opened is eventually finished, although runs may     *)
(* fail. (rotation-worker.ts:4-6 and 192-193, spec FR-083)                  *)
RotationFinishes == rotating ~> ~rotating
=============================================================================
