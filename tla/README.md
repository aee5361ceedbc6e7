# Formal model of SafePass

A TLA+ model of the password manager in this repository, server and client: the
shared vault and its key rotation, invitations, accounts with their sessions and
second factor, the rows and types of a vault, its backup, and the page in which all
of it is used. TLC checks it on small instances and, where the statement does not
depend on the size of the instance, TLAPS proves it.

The server never sees a key. It stores ciphertexts and *wraps* (a vault key
encrypted to one member), and it enforces who may read and write which rows.
Everything that keeps a vault readable for its members, and unreadable for those
who left, is therefore a protocol between handlers that share a few tables and
pages that hold keys. Those protocols are what the model is about.

## 1. Inventory

Paths are relative to `src/`. "Modelled by" names modules of this directory.

| Component | State it keeps | Operations that change it | Modelled by |
|---|---|---|---|
| Membership: `backend/src/modules/vaults/{vaults,sharing}.routes.ts`, `revoke.ts`, `authz.ts` | `vault_membership` (status, role), `vault_key_wrap` | create vault, invite, complete, accept, decline, revoke, change role | `VaultMembership` |
| Rotation: `vaults/rotation.routes.ts` | `vault.keyVersion`, `vault_rotation`, labels of rows, wraps | open, batch, close | `VaultRotation`, promise in `TwoGenerations` |
| Rotation worker and keyring (client): `frontend/src/vault/{rotation-worker,keyring,session}.ts`, `features/vault-list/SecretList.tsx` | keys held per generation, the run, the open form | refresh, unlock, lock, create, save, rotate | `RotationWorker` |
| Pending invitations: `vaults/invitation.service.ts`, `invitation.expiry.ts` | `vault_invitation.state` | invite an unknown address, promote, complete, withdraw, expire | `Invitations` |
| Email verification: `auth/verify.routes.ts` | `email_verification`, `user.emailVerifiedAt` | issue, resend, verify | `Invitations` |
| Accounts: `auth/{auth,account}.routes.ts`, `frontend/src/features/{unlock,settings}` | `user`, keyring, password digest | register, login, change password, request and confirm deletion | registration in `Invitations`; `Sessions`, `Accounts`; what the password opens in `AccountKeys` |
| Sessions: `auth/session.ts`, `middleware/session.ts` | `session` (pendingTotp, reauthRequiredAt, expiry) | issue, admit, revoke, mark siblings, re-authenticate | `Sessions` |
| Second factor: `auth/totp.routes.ts`, `backup-codes.ts` | `totp_enrolment.lastUsedStep`, `backup_code` | enrol, renew codes, verify a step, redeem a code, remove | `SecondFactor`; the seed in `AccountKeys` |
| Rows: `secrets/{secrets,organise}.routes.ts`, `features/vault-list`, `features/organise` | `secret`, `folder`, `tag`; `keyVersion`, `revision` | create, save, rename, delete, file, tag, empty a folder | payloads in `SecretStore`, labels in `VaultRotation`, seals in `RotationWorker` |
| Types of secret: `templates/templates.routes.ts`, `features/templates` | `template`, `template_version` | create a version, ask its impact, delete | `Templates` |
| Export and import: `backup/*.ts`, `features/settings/backup.tsx` | none of its own | import writes a vault, its rows and its wrap | `Backup` |
| The page: `App.tsx`, `vault/{session,keyring,auto-lock}.ts`, `features/unlock` | keys in memory, screen, timer, address, names, requests in flight | sign in, enter, re-authenticate, lock, open offline | `ClientSession` |
| Offline copy: `vault/{offline-cache,offline-session}.ts` | the sealed copy, its switch | save, open, expire, switch off | `OfflineCopy` |
| Screens: `features/{vault-list,search,shell,sharing,secret-detail}`, `components` | the list, its index and hits; filters; members on display; forms and masks; the clipboard | load, search, choose, unmask, edit, submit, copy | `Search`, `VaultScreens`, `DetailPane`, `Clipboard` |
| Cryptography: `frontend/src/crypto/*.ts` | none | pure functions | which key opens what, in `AccountKeys` and `Backup`; the ciphers are not modelled |
| Activity log, mail: `activity/*.ts` | append-only log, sign-in events | record, notify | deletions in `SecretStore`, the rest not modelled |
| Server wiring, rate limits, errors, logging, static files, layout, service worker | none shared | | not modelled: I/O and rendering |

How they interact. Every handler checks the caller, reads what it needs, decides, and
writes in one PostgreSQL transaction at READ COMMITTED. The handlers share only the
tables, so they interact by what one commits between another's read and its commit.
Clients interact with each other only through the server, and with the server by
HTTP calls whose answers can be lost. The rotation worker is a loop of such calls in
the page of one owner. Browser code is single threaded, but every `await` lets a
lock, a refresh, another form or another sign-in run, and nothing in the page is
cancelled: an answer finds the page as it is by then, and the cookie, which the tabs
of a browser share, decides whose request it was.

What is hard:

* *Outdated reads.* `vault.keyVersion`, the running rotation, the member list, the
  count of owners, the password digest, the last time step and the newest version of
  a type are read before the transaction that relies on them.
* *Two generations.* While a rotation runs, rows carry one of two labels, and
  members must hold both keys; closing destroys one of them for good.
* *Labels the server cannot check.* A row's `keyVersion` is what the server says;
  its ciphertext was sealed under what the client held.
* *Interruption.* The worker's page can close, lock or lose the network between
  any two calls, and another device can take over or write meanwhile.
* *Invitations by email.* An address is invited before it has an account, registers,
  proves itself and is let in by handlers that each look first and write later, by id.
* *Things that must serve once.* Verification links, backup codes, time steps.
* *Last owner, revocation.* Rules over several rows, enforced by count-then-write.
* *No recovery.* The password that the server accepts must be the one that opens the
  keyring, whatever two pages change at once and whichever answers are lost.
* *State that outlives its subject.* Keys of one account under the names of another,
  a copy of one account under the address of another, filters of one vault over
  another, a mask lifted on one secret and on the next.

What makes each component correct: a vault always has an active owner; a revoked
member holds no wrap; every member can open every row, at every moment; a generation
is destroyed only when nothing is sealed under it; a save accepted by the server is
not lost; a rotation that was started finishes; nothing is shared with an address
nobody has proved to own; a decided invitation stays decided; a changed password
shuts out who knows only the old one, and the present one opens the account; a code
serves once; nothing is filed where nothing is; a secret renders as it was authored;
a locked page shows nothing of the vault, and an unlocked one shows its owner's; a
device switched off keeps no copy; a backup can be opened; what was copied is
cleared; what was hidden stays hidden until it is asked for. The properties below
state these, in the strongest form the code satisfies. Where the code does not
satisfy the documented form, either a run shows how, or the property names the
exception and a finding in `PROJECT.json` quotes the text it departs from.

## 2. The modules

| Module | What it is |
|---|---|
| `VaultTables` | the tables of one vault, the requests in flight, `Init`, `TypeOK` |
| `VaultMembership` | EXTENDS it: the membership handlers |
| `VaultRotation` | EXTENDS that: rotation and row handlers, `Next`, `Spec`, the properties, the inductive invariant |
| `TwoGenerations` | abstract specification: at most two generations, none destroyed while a row needs it |
| `MCVaultRotation` | TLC instance: symmetry of requests |
| `VaultRotationProofs` | TLAPS: type correctness and the invariant, refinement of `TwoGenerations`, the owner and the revocation rule, with the overlaps that each of these must exclude; any number of concurrent requests |
| `RotationWorker`, `MCRotationWorker` | the clients: keyrings, forms, the run of the worker; its TLC instance |
| `RotationWorkerProofs` | TLAPS: every safety property of `RotationWorker` |
| `Invitations`, `MCInvitations` | one email address: its account, verification links, invitations and membership rows; its TLC instance |
| `InvitationsProofs` | TLAPS: every safety property of `Invitations`, any number of everything |
| `Sessions` | one account's sessions: admission, login, change of the password, re-authentication |
| `SecondFactor` | EXTENDS it: enrolment, time steps, backup codes |
| `Accounts` | EXTENDS that: deletion, `Next`, `Spec`, the properties |
| `AccountKeys` | accounts and pages: what is sealed under what, and what is sent with which cookie |
| `MCAccounts` | TLC instance: the sum of `Accounts`, which it EXTENDS, and `AccountKeys` |
| `AccountsProofs` | TLAPS: every property of `Accounts` and of `AccountKeys`, EXTENDS `MCAccounts` |
| `SecretStore` | the rows of one vault, as its pages read and write them |
| `Templates` | one type of secret, its versions, its editors, its secrets |
| `ClientSession` | one page: keys, screen, timer, the chains of requests in flight |
| `OfflineCopy` | the copy on the device, its switch, the refreshes that write it |
| `Backup` | export of a vault in use, the file, its restore |
| `Clipboard` | copy buttons, their timers, requests to the browser |
| `Search` | loads, index and hits of the list |
| `VaultScreens` | filters, folders on offer and members on display, from vault to vault |
| `DetailPane` | the forms and the masks of the pane beside the list |
| `MCWorkbench` | TLC instance: the sum of the last nine, EXTENDS `SecretStore` |
| `SecretStoreProofs`, `TemplatesProofs`, `ClientSessionProofs` | TLAPS: every property of the three modules; `MCWorkbench` instantiates the last two, so that their theorems are there for the sum |
| `WorkbenchProofs` | TLAPS: every property of the `workbench` run, EXTENDS `MCWorkbench` and `SecretStoreProofs`; with the proofs of the other six parts |

### The server: two steps per handler

`request[r]` is handler `r` in flight: its kind and what it has read. `XxxRead(r)`
is the code up to the transaction (authorisation, checks, early refusals), and
`XxxCommit(r)` is the transaction; `Fail(r)` is a transaction rolled back by a
constraint, by a row that is gone, or by a crash before the commit. A guard in a
commit is a constraint of the database, never a check of the code: the partial
unique index on running rotations (`~rotation.running` in `OpenCommit`), the key
(membership, keyVersion) of a wrap, the unique membership of a user, a row that
must exist to be updated. Where the code checks *inside* the transaction (`revoke`
and the role change count the other owners there) the count is still in the read
half, because at READ COMMITTED other transactions commit between two statements.

Several reads of one handler are merged into one step; the model has the
interleavings between the reads and the commit, and not those between two reads.
Authorisation is checked in the read half, as in the code.

`rowVersion[i]` is the label of a secret, a folder, a tag or the vault's name.
`keyWraps[u]` is the set of generations user `u` holds a wrap of. `rotation` is
the latest rotation row, since no handler looks at an older one except a late
close, which is by id. Identifiers are never reused, so a user who declines
becomes `"deleted"` and a new invitation of the same person is another element of
`Users`.

Three history variables record when something was written from a read that had
become outdated: `lateRows` (rows labelled with a generation that was no longer
the vault's when the label was written), `lateMembers` (members seated, or left
out of a rotation, by an outdated read, reactivated after being revoked, or given a
wrap by a rotation that had read the members before they were revoked) and `rewound`
(a rotation opened from an outdated `keyVersion`). They weaken the invariants exactly
by the interleavings the code does not defend against; runs and findings show that
those are real.

### The clients

`RotationWorker` takes every API call as one step and looks at what the server
cannot see: a row has a `label` and the generation it was really sealed under,
`seal`. `keyring[d]` holds the generations device `d` has the keys of; writing
uses the highest one. The worker is a record with the phase of `runRotation`, the
copies it has listed, and whether its old key is still intact: `lock` overwrites
the key bytes in place, and a run that goes on after it can decrypt nothing
(`Relock`), while a closed page ends the run (`Restart`). `Throw` is a failed call
or a lost answer at any point. `Save` compares the revision in the same statement
as the write, as the code does, and leaves the label alone, as the code does.
`atRisk` and `overtaken` record which saves fell into the windows named in the
properties.

The members of these devices stay members: revocation is in the server's modules.

### Invitations to an address

`Invitations` follows one email address, since every row it writes belongs to one:
`account`, `link[l]` (rows of `email_verification`; `"superseded"` is a deleted one),
`invite[i]` (rows of `vault_invitation`) and `seat[v]` (its membership in vault `v`,
`"none"` where there is no row). Handlers have a read and a commit half as before;
those that write in several statements have a step for each: registration commits
the account, deletes and creates links, may skip a link that fails (`SkipLink`),
lists the waiting invitations and promotes them one by one. The guard of
`WriteState` and that of `InviteCommit` are the partial unique index
`vault_invitation_one_live`; `CompleteCommit`'s `seat = "none"` is the unique key of a
membership, which refuses to complete for someone who was revoked before. No other
commit looks at the state it overwrites, because the code updates by id.

Keys, roles and generations are left to `VaultMembership`, and so are the two halves
of accept, decline and revoke. `late` is a history variable: the requests that held an
invitation when somebody else decided it. `InviteFallsDue` and `LinkExpires` are the
passing of time. The sweep may happen and need not: the server exports it and
schedules it nowhere.

### One account on the server

`Sessions`, `SecondFactor` and `Accounts` are one machine in three layers. A password
is named by its generation, and `session[s].knows` is the one a session was issued
for; `Admitted`, `AdmittedPending` and `AdmittedFlagged` are the three classes of
routes that `sessionGuard` tells apart. A handler is cut at every await between two
statements that no transaction holds together, so a login is three steps: the
comparison, the look at the second factor, the session. `Fail(r)` ends a handler
anywhere. One id of `Codes` stands for the ten codes of a set, and deletion tokens are
rows of the same table, which issuing and removing delete with the rest, as the code
does. `deleteAccount` commits nothing: the cascade is refused by the append-only log.
A session is created with the `reauth` flag down, and flagged by a change of the
password, its own session excepted.

`late` holds the requests whose read another handler has outdated; `stale`, `loose`,
`orphans` and `cutOff` are what such requests left behind, and each weakens the one
property that names it: a login that had compared the old password, a
`lastUsedStep` written backwards, codes issued behind a removal, an enrolment without
its codes.

`AccountKeys` asks what the password *opens*. Derivations and ciphertexts are terms
(`encrypt(key, what)`, `Opens`), so that an envelope opens with the key it was sealed
with and no other. The server has `digest`, `keyring` and `seed`; a page has what it
holds in memory (`master` for the second factor, `key`, `ring`: `currentKeyring`), and
the cookie is the browser's, shared by the pages if they are `together`. Answers travel
in `calls`, are delivered in any order or lost, and find the page as it is by then.

### The rows, the types, the backup

`SecretStore` is one vault seen from its pages. `shown[p]` is the row a page shows and
`asked[p]` its request in flight, read half and commit half as before. A row carries
`revision` and, as a ghost, `basis`: in how many saves its content originates. The
guard of `SaveCommit` on the revision is in the code's WHERE clause; those on folders
and tags are foreign keys. Filing from the list is a save of what the list shows;
tagging is a request of its own that leaves the revision alone, which is why `overtaken`
exists: pages whose row was filed or tagged by someone else meanwhile. Emptying a folder
lists its secrets in one step and deletes in another; `moved` are those written between.

`Templates` has one type: its versions, what is in use, the secrets written under each
version and the editors. An editor (`editor[e]`) has the draft it shows, the warning on
display (`confirming`, and what it `names`) and its request in flight. It asks for the
impact of its draft, may be warned, and sends; changing a field, going back and Cancel
withdraw the warning (`Update`, `Withdrawn`, `Close`), removing a field leaves it
standing (`Remove`), and a live check of any draft there was replaces what it names
when it answers (`Noted`). What is published is the draft there is when the warning is
confirmed. `PutCommit` is guarded by the unique key (template, number). `about` is the
draft that the last check was made for, and `since` are the secrets written since:
history, for `LossIsAnnounced`.

`Backup` reads the tables of a vault one by one (`Read(t)`) while the vault is used,
rotated, and its owner removed; `crossed` says what changed under the export.
`Restore` is what the client sends and the server writes: a standard vault, the first
wrap as its generation 1, rows with the labels they had.

### The page

`ClientSession` has the states of `App.tsx` that decide what is on display, and
`rendered`, what `App` returned when React last called it: it changes only in a step
that sets one of those states, so keys can go without the screen noticing. `flow[f]` is
a chain of requests (submit, second factor, keyring, derivation, vaults, names) that
nothing cancels. `session` is what the cookie names. Two chains may be sign-ins of two
accounts, for a form that is done, or was left, cancels nothing. `behind` is set once a
lock has left a screen or an entry behind, and `mixed` once an account's keys have
replaced another's in memory (`Replace`), until a lock that leaves nothing behind.

`OfflineCopy` keeps three places apart that a refresh takes its parts from (`email`,
`held`, `listed`), the two transactions of a save (`SaveChecked`, `SaveWritten`) and the
two of the switch. `entering[f]` is a sign-in or a refresh of the list in flight, step by
step, since a second sign-in may set `held` (session.ts:102) while the first is being
entered; what nobody awaits (the refreshes of the copy) is in `copying`. `mounted` is
what React last rendered, which a lock may leave behind. `torn` is set by a save that
overlaps the switch; `stray` once the entries of two accounts have overlapped, a form
has been answered over another account's workbench, a list or an address has been
rendered beside keys of someone else, or a copy has been opened over another's
keyring. TLC finds a copy of two accounts if any of these causes is left out.

`Clipboard` has the timers of copy buttons, which live as long as the button is mounted,
and the browser's requests, which can be refused. `Search` has loads in flight, what
React searches while rendering and what its effect rebuilds afterwards. `VaultScreens`
has what outlives a change of vault. `DetailPane` follows React's identity of elements:
which form stays mounted, which row of a field is the same one on the next secret.

### Sums

A part of `MCWorkbench` or `MCAccounts` shares no state with the others. `Init` chooses
the part, only that part moves, and the others rest in one initial state, so that the
states of the run are the sum of theirs and not the product. The parts take their sets
from the same few model values, which keeps the symmetry group small. A property of
the run is the part's own, asked of the part that moves; those of `Accounts` and
`SecretStore` are asked of the resting state of these as well, which satisfies them.

## 3. Plan

1. Done: server protocol and client protocol of the shared vault, checked and proved.
2. Done: `Invitations` with registration and verification, checked and proved.
3. Done: `Sessions`, `SecondFactor`, `Accounts` and `AccountKeys`, checked and proved.
4. Done: `SecretStore`, `Templates` and `Backup`, checked and proved.
5. Done: `ClientSession`, `OfflineCopy` and the screens, checked and proved.
6. Done: what overlapping requests leave of the owner rule, of the revocation rule and of
   the refinement of `TwoGenerations`, proved for any number of requests.
7. Left: the bytes of a key beside the fields they seal, for a lock in the middle of
   `encryptValues` (SecretList.tsx:277).

## 4. What the runs check

| Run | Instance | Result |
|---|---|---|
| `vault_rotation` | 2 users, 1 secret and the vault's name, 2 requests in flight, generations 1 to 3 | `RowsStayOpenable`, `MembersHoldLiveKeys`, `RevokedHoldNoKey`, `LiveKeysAreKept` hold |
| `vault_one_at_a_time` | 3 users, 1 secret, 1 folder and the name, 1 request, 2 generations | `AnActiveOwnerRemains`, `ImplementsTwoGenerations` hold |
| `rotation_worker` | 2 devices, 1 secret, 1 folder and the name, generations 1 to 3, 3 revisions | `TypeOK`, `QuietRowsOpen`, `SavesSurvive`, `RunEnds` hold |
| `invitations` | 2 vaults, 2 invitations, 2 links, 2 requests | `SharedOnlyWithVerified`, `ReadyMeansRegistered`, `AtMostOneLive`, `OnlyOverlapsReopen`, `VerifiedByAnOutstandingLink` hold |
| `accounts` | 1 account with 2 sessions, 2 sets of codes, 2 requests; 2 accounts in 2 pages | `SessionsKnowThePassword`, `BackupCodesServeOnce`, `StepsServeOnce`, `CodesBelongToTheFactor`, `PasswordOpensTheAccount` hold |
| `workbench` | nine parts, see the bounds | the nineteen properties of the parts and `WorkbenchTypeOK` hold |
| `invite_mid_rotation` | 2 users, 1 request | `EveryRowOpensForEveryMember` fails |
| `row_written_behind` | 2 users, 2 requests | `NoRowIsWrittenBehind` fails |
| `last_owner_race` | 2 users, 2 requests | `AnActiveOwnerRemains` fails |
| `stranded_save` | 2 devices, 1 secret | `NothingIsStranded` fails |
| `rotation_stuck` | 2 devices, 1 secret, an owner who insists | `RotationFinishes` fails |
| `waiting_forever` | 1 vault, 1 invitation, 1 link, 1 request, no handler fails | `WaitingIsAnswered` fails |

What holds, of the shared vault:

* `RowsStayOpenable`: unless a label was written from an outdated read, every row is
  labelled with a live generation. The close precondition is right.
* `MembersHoldLiveKeys`: every active or invited member holds the present key and no
  retired one, through any overlap of opens, closes, invitations and revocations,
  except members written from an outdated read.
* `RevokedHoldNoKey`: a revoked member holds no wrap, of whatever generation, through
  any overlap but one: a rotation that read the members before the revocation and
  commits after it hands them the new key (a finding).
* `LiveKeysAreKept`: no step takes a live key away from a member whose membership it
  does not touch.
* `QuietRowsOpen`, `SavesSurvive`: for the client protocol, likewise.
* `RunEnds`: a run of the worker terminates, closed or failed.
* `SharedOnlyWithVerified`, `ReadyMeansRegistered`, `AtMostOneLive`: neither way into a
  vault lets in an address nobody has proved, however registration, verification,
  promotion and completion overlap, and a vault has one live invitation to it at most.
* `OnlyOverlapsReopen`: a completed, withdrawn or expired invitation is written again
  only by a request that held it when it was decided. That much is what the code
  gives; data-model.md:151-162 calls these states terminal, which two overlapping
  requests can break (promote after withdraw, complete after expire), since none of
  the updates is conditional on the state.
* `VerifiedByAnOutstandingLink`: two clicks do not use one link twice, and a click does
  not use one that a newer link has replaced.

Of accounts:

* `SessionsKnowThePassword`: after a change of the master password no session that
  knows an older one is admitted, except those of a login or a re-authentication that
  had compared the old digest when it changed.
* `BackupCodesServeOnce`, `StepsServeOnce`: a code, and a time step, let in one
  session, the latter unless two verifications read the last step before either wrote it.
* `CodesBelongToTheFactor`: codes that serve were issued for the factor that is there,
  unless issuing them overlapped its removal or was cut off. It leaves out the deletion
  tokens in the same table, which issuing and removing delete as well.
* `PasswordOpensTheAccount`: the password whose digest the server has opens the
  keyring it has, and with that the seed. It holds for the keyring with two pages that
  change the password at once, with lost answers, and with a page whose cookie has
  become another account's; for the seed only if pages do not share a cookie.

Of the workbench:

* `EverySaveCounts`: the compare-and-swap on the revision loses no save.
  `SavesReplaceWhatIsShown`: a save takes nothing back its page was not shown, except
  filings and tags by others, which do not move the revision.
* `NothingDangles`; `LogMatchesDeletions`: the log names the secrets deleted and no
  others, except those moved while their folder was being emptied.
* `SecretsRender`, `CurrentIsNewest`, `LossIsAnnounced`: a type keeps every version a
  secret needs, the newest is the one in use and no number is given twice, and an edit
  hides no value its owner was not warned of, except of secrets written since it asked,
  and where the warning that was confirmed was about another draft: fields were removed
  under it, or a check of another draft had answered last.
* `LockHidesVault`, `WorkbenchShowsItsOwner`, `OpenIsArmed`: a page without keys shows
  no vault, except the two screens the lock listener does not name; a page with keys
  shows names and address of their owner, except after a lock that left a screen or an
  entry behind, and after two sign-ins that overlapped so that one's keys replaced the
  other's; and its timer runs, with the first of these exceptions only.
* `CopyIsOneAccounts`, `OffMeansNoCopy`: the copy on a device is of one account, except
  once the entries of two accounts have overlapped in the page, one has been entered
  over another's workbench that a lock had left, or a copy has been opened over
  another's keyring; a device switched off gets none, except from a save that had read
  the switch, or where the page was closed in the middle of it.
* `BundleHoldsItsKeys`, `RestoreIsWhole`: a backup holds the keys of its rows also
  half-way through a rotation; its restore has every row, and those of a shared vault
  that was never rotated open.
* `CopiesAreCleared`: what was copied is on its way off the clipboard, unless its
  button went first, or the browser refused.
* `ListIsTrue`: a search finds what the list shows, unless it was loaded anew under the
  query; a list at rest can render its secrets, unless loads overtook each other.
* `ScreensFitTheVault`: a filter is of the vault on display, unless a refresh turned to
  another or its folder was deleted; the members on display are of their vault, unless
  an answer came for a vault that was left.
* `ClearWasAskedFor`: a value is in the clear because that was asked for on its
  secret, or on the one before with a field of the same id.
* `SavesAreTheirForms`: what is saved to a secret was typed in a form on it, a form
  creates one secret unless its answer was lost, an answer closes its own form unless
  that went before it.

The exceptions are the code's, not the model's: where a text of the repository denies
one, a finding of kind `code_bug` or `doc_code_divergence` at the passing run quotes it.
They are the members a rotation has read (`RevokedHoldNoKey`), the warning about another
draft (`LossIsAnnounced`), the sign-in beside another (`WorkbenchShowsItsOwner`, and
`CopyIsOneAccounts` for the copy), the lock listener (`LockHidesVault`), the switch
(`OffMeansNoCopy`), the wrap of a restore (`RestoreIsWhole`), the button's timer
(`CopiesAreCleared`), the late index (`ListIsTrue`), the filter of another vault
(`ScreensFitTheVault`), the mask that is carried over (`ClearWasAskedFor`), the answer
that closes another form (`SavesAreTheirForms`) and the seed sealed for another account
(`PasswordOpensTheAccount`).

What does not hold, with the line of the repository that says it should (each is a
run with the expectation "violation", and a finding in `PROJECT.json`):

1. `EveryRowOpensForEveryMember` (data-model.md:327-331). A member invited while a
   rotation runs gets one wrap, at the new generation. Until the close, the rows
   still at the old one do not open for them, and the whole list fails to load.
2. `NoRowIsWrittenBehind` (secrets.routes.ts:126-127). A creation that read the
   generation before a rotation opened, and commits after it closed, stores a row
   labelled with a destroyed generation. With the key gone the row cannot be read.
3. `AnActiveOwnerRemains` with two requests (vaults.routes.ts:24-28). Being inside a
   transaction does not serialise the two counts at READ COMMITTED.
4. `NothingIsStranded` (crypto-envelope.md:82-88). A device that has not refreshed
   since before a rotation seals a row under the generation that has been destroyed.
   The server labels it with the new one and ignores the generation the client sends.
5. `RotationFinishes` (rotation-worker.ts:4-6, 192-193). After a failed run the
   advice is to run the rotation again, which the server refuses because one is
   running; the function that would resume it is called from nowhere.
6. `WaitingIsAnswered` (data-model.md:41, Sharing.tsx:113-117). Invitations are promoted
   at registration and at no other time. One written after the address registered and
   before it was verified stays pending, and completing it is refused, until it is
   withdrawn.

### Bounds, and why they are enough

`MaxVersion` bounds the generations. Three let one rotation's late requests meet the
next rotation, which is where outdated reads do harm; a request remembers at most one
rotation, so a fourth adds no new case. Two requests in flight give every pair of
overlapping handlers; the proofs cover any number. In `vault_rotation` roles are
restricted to owners, because roles only matter for authorisation and for the last
owner rule, which the other runs exercise with two roles and three users. One secret
and the vault's name are two rows that a batch may move separately; a folder is
added where deletion cascades. In `RotationWorker`, `BatchSize` 1 with one secret
gives a run one batch of secrets and one of names, and `MaxRevision` 3 allows two
saves over each other. `MaxRevision` and `MaxVersion` are guards of `Save` and of
`OpenRead`/`Rotate`. In `Invitations` two invitations are needed for one vault to have
a decided and a live one, two vaults for a promotion loop of two, two links for one
to replace the other; rows are not reused, so the sets `Invites` and `Links` bound how
often one can invite and ask for a link.

In `accounts`, two requests are every overlap of two handlers; one change of the
password (`MaxPassword` 2), two enrolments (`MaxFactor` 2) and two time steps (`MaxStep`
2) give each stale read something to be stale about. `Budget` 4 with the constraint
`WithinBudget` bounds their mixture: sessions, codes, changes, enrolments and ticks
together; a second session and a second set of codes for two requests to compete over fit
into it beside a change or an enrolment. The proofs cover what lies beyond. In
`AccountKeys`, two accounts and two pages are a page of the same account and one of
another; `MaxSessions` 2 and `MaxCalls` 2 let two of its requests overlap.

In `workbench`, two pages, editors, flows and copies (`MaxCopies` 2) are every overlap of
two. One secret and two folders let it be filed elsewhere while its folder is emptied,
`MaxRevision` 3 allows two saves over each other, and `Budget` 5 bounds saves, folders
and tags together. `MaxNumber` 3 lets two edits follow a first
version. Two fields are one that is dropped and one that stays, and
secrets may have a value in either. `MaxKey` 2 is one rotation. `MaxLoads` 2 and
`MaxRequests` 2 are two loads, two forms, two requests to the browser or by the pane.

The constraint `Followed` stops a part where it goes on beyond its bounds or is in an
exception of its properties: a copy once it is `stray` or `torn`; a page once a lock has
left something `behind` (one that is `mixed` goes on, for the timer is asked of it); types
where a save is under way that is the exception of `LossIsAnnounced`. It also stops
copies with four entries and refreshes in flight at once (`Uncrowded`), and types with
two warnings at once, or with two editors under way beside a version that one of them
has published (`Unhurried`). Three in flight are two overlapping sign-ins and a refresh
between them, which is what sets address and keyring apart; and one warning with a
second editor that publishes under it is what makes a warning outdated. A constraint cuts
the states after those it names, which are themselves checked, and the proofs have none
of these limits.

The run of the workbench has 1.3 million states, some 375 thousand of them the copy's, and
takes two to three minutes; `vault_rotation` has 1.4 million and takes one.

`CHECK_DEADLOCK FALSE`: a bounded model stops when its bounds are reached, and a
vault whose last owner is gone really has no next step that needs an owner.

### Fairness

`VaultRotation` assumes none: users act or do not. In `RotationWorker`, `FairSpec`
has weak fairness of `Work(d)`: the promises of a page that stays open settle, since
every call is answered or fails; nothing is assumed of users, of the network's
success, or of the page staying open (`Throw` and `Restart` are always possible).
`InsistentSpec`, used only to refute `RotationFinishes`, adds an owner who keeps
refreshing (weak) and keeps asking for a rotation (strong): the rotation is stuck
even then.

`Invitations` has one fair specification, for the refutation of `WaitingIsAnswered`: no
handler fails and each that has begun goes on. Without failures the counterexample is
about the protocol and not about a crash between registration and promotion (which
leaves invitations behind as well).

The other modules assume none and promise nothing that needs it: their handlers may
fail, their answers may be lost and their users may go away at any step, and what they
state is that nothing wrong is reached meanwhile.

## 5. What is proved

Every safety property of every passing run, for arbitrary sets of users, rows,
requests, accounts, pages and so on, and arbitrary bounds, where the runs have two or
three of each. The assumptions are those that the modules name, and TLC evaluates
them in the runs:

* of the vault, that its creator is a user, that the kinds of item are disjoint, that the
  roles and handlers are among those known, and that `MaxVersion` is a natural number
  (`VaultTables`); of its clients, the same of their items, and that batches and bounds
  are not empty (`RotationWorker`);
* of an address, that `Anyone` is a vault (`Invitations`);
* of the account, that its bounds are natural numbers, that `Anyone` is a session and
  `NoCode` no code (`Sessions`); of its keys, that the empty tuple, which stands for
  there being none, is no account, and that there is a password (`MCAccounts`);
* of the workbench, that its ids are none of the words that stand for there being none,
  and that keys, versions and loads are counted from one (`MCWorkbench`).

The proofs about rows, types and the page assume nothing, and no proof uses the bounds'
values or the constraints of a cfg, so that what `Budget` and `Followed` cut off is
covered too.

`VaultRotationProofs`, for any number of requests in flight:

* `TypeCorrect`, `InvariantHolds`, and from the invariant `RowsStayOpenableAlways`,
  `MembersHoldLiveKeysAlways` and `LiveKeysAreAlwaysKept`.

The properties are not inductive as they stand. Two facts about requests in flight
are needed: what a close found outstanding stays empty except for rows labelled late
(`ClosesAreSound`), and an invitation that still carries the present generation
never meets a member who holds the previous one (`InvitesAreSound`). `IInv` adds
them, with `VersionsAgree` (the vault is one generation ahead of the latest
rotation's `from`), and is preserved by every action; the proof has one step per
action and one per conjunct under it.

`RevokedAreStripped` says of every behaviour, whatever overlaps, that a revoked member
holds no wrap but for the exception of `RevokedHoldNoKey`, a rotation's outdated list
of members. The property is inductive with the types: only a revoke makes a member
revoked, and it deletes every wrap; only an open gives a wrap to a row that is there,
and where that row is revoked by then it is the exception.

The two properties of the run `vault_one_at_a_time` fail when requests overlap,
`RevokedHoldNoKey` without its exception (`RevokedHoldNothing`) when a revoke overlaps
an open, and `EveryRowOpensForEveryMember` when somebody joins at the wrong time. What
it takes to break them is proved next, again for any number of requests, each condition
being a hypothesis `[]...` about the behaviour and not about the code:

* `SeparateChangesKeepAnOwner`: where no two of invite, decline, revoke and change of
  role overlap (`OneOwnerChange`), an active owner remains. The other eight handlers may
  overlap these and each other, `accept` and `complete` among them: an owner is only
  ever added by them. A request of the four kinds relies on another owner or on its
  subject's role (`Spares`), and that outlives every step but a commit of those kinds.
  Not one of the four can be left out: with two users and three requests TLC then finds
  a vault without an owner.
* `SeparateOpensStripRevoked`: where no revoke overlaps an open
  (`OpensApartFromRevokes`), no revoked member holds a wrap, without exception
  (`RevokedHoldNothing`): `StripInv` says that no open in flight names a revoked member.
* `OnTimeRequestsImplement`: where no row is labelled and no rotation opened from an
  outdated read (`NothingIsLate`), `Spec` implements `TwoGenerations`. It rests on `IInv`
  and on a rotation never retiring generation zero (`RetiringIsAGeneration`); the step
  that matters is the close, which destroys a generation only if nothing is outstanding
  when it commits, though it looked when it began (`ClosesAreSound`).
* `EarlierMembersOpenEveryRow`: where besides no member is written from an outdated read
  (`NobodyIsLate`) and nobody is seated while a rotation runs (`JoinsBetweenRotations`),
  every active member can open every row, also half-way through a rotation. This is
  `EveryRowOpensForEveryMember`, which `invite_mid_rotation` refutes without the second
  condition. An accept, a revoke or a change of role may fall where it likes: what is
  needed is that every live member holds the generation being retired
  (`RetiringKeyIsHeld`), which an open provides and only a seat withholds.

With at most one request in flight (`OneAtATime`, a hypothesis about the constant
`Requests`) the first and the third condition hold, by `SoloInv` for the third, which
gives `ServedOneAtATimeKeepsAnOwner` and `ServedOneAtATimeImplements`, the properties
of the run `vault_one_at_a_time`.

`RotationWorkerProofs`, for any number of devices, rows, batches and rotations:
`TypeCorrect`, `QuietRowsOpenAlways`, `LatestKeysStrandNothing`, `SavesSurviveAlways`.

* `Typing` says more than `TypeOK`: a device holds only generations the vault has had,
  and one that is the highest (`HoldsHighest`), so that what `writeKeyFor` picks is
  there; a run that has begun leads from a generation the vault has had, so that nothing
  that does not exist is taken for stale (`RunsTyped`).
* `QuietRowsOpen` is inductive on top of that: a batch writes seal and label together, a
  save writes the seal only and puts the row at risk unless its key is the vault's, and
  a close finds no row left behind.
* `LatestKeysStrandNothing`: where every device that saves or creates a row holds the
  vault's latest key when the server takes it (`WritersAreUpToDate`), nothing is stranded.
  `NothingIsStranded`, which `stranded_save` refutes, thus fails for that one reason,
  and not for saves in the middle of a rotation or for runs that stop. A row
  is then never sealed under an older generation than its label's (`SealsKeepUp`), and
  a close looks at the labels.
* `SavesSurviveAlways` rests on `CopiesAreCurrent`: what a run has read is what the row
  still holds, but for rows that were saved since (`overtaken`); a batch writes back
  what was read.

`InvitationsProofs`, for any number of vaults, invitations, links and requests, from the
one assumption that `Anyone` is a vault: `TypeCorrect`, `InvariantHolds`, and from the
invariant the three safety properties and the two action properties of the run. The
invariant adds three facts to the properties: links belong to accounts
(`LinksNeedAnAccount`); what a handler in flight has seen of the account is still so
(`ReadersKnowTheAccount`, because an account never goes back), which is what makes
a commit that checks nothing safe; and whoever holds a decided invitation is in `late`
(`HoldersOfDecidedAreLate`). The steps that write invitations are classified once
(`InvitesWritten`), and so is what becomes of a request (`RequestsMove`).

`AccountsProofs`: `Typed`, and the four properties of an account.

* `ChangeShutsOldSessions` rests on `Compares`: a request that has compared a password
  holds the present one or is `late`.
* `CodesGoWithTheirFactor` rests on `IssuesForAFactor`: codes on their way are for the
  factor that is enrolled, or their request is `late`.
* `OneSessionPerCode`, `OneSessionPerStep` rest on `HeldOnce`: what sessions, and
  requests about to let one in, hold has been spent, and each holds its own;
  `AboutToSpend` says that what is about to be spent has not been, unless its request is
  late. For a step, "spent" is a comparison with `lastUsedStep`; for a code, its row.

`PasswordsOpenTheirAccount`, in the second half of that module, rests on `KeyInv`:

* what the server has of an account was made with one password, under the account's own
  address (`Matched`), and wherever a wrap is kept or on its way it is some account's
  own (`WrapsAreTheirOwners`). What opens such a wrap is a password of that account
  (`UnwrapsFacts`), so a page that could open its keyring holds the key of the account
  whose address it typed; and a password the server accepts has the address of the
  session's account in it (`AcceptedFacts`), so a change that arrives under another
  account's cookie is refused before it is sent on;
* a request is about the account of its session, and a session is never handed on
  (`CallsKnowTheirAccount`), which is why a change may commit after the page has gone;
* for the seed, which nothing compares: where browsers are apart, an open page has the
  key of the account its cookie names (`CookiesAreTheirPages`). Re-authentication makes
  that need one fact more: a page that waits for an answer that would let it in does
  nothing else meanwhile (`OneFormIsBusy`).

`SecretStoreProofs`: `RowsTyped`, `NoSaveIsLost`, `SaveTakesNothingBack`, `LabelsStand`,
`LogIsTrue`. A page shows a row that counts all the saves its revision says
(`ShownCounts`), and which is the present one wherever the revisions agree and nobody
overtook it (`ShownBehind`): that is what makes the compare-and-swap enough. What is
not live is filed nowhere (`GoneIsBare`). For the log: a page that empties a folder
has listed what is inside, but for what was moved since (`ListedIsInside`,
`EmptiesWhatWas`, `OneFolder`).

`TemplatesProofs`: `TypesTyped`, `NewestIsInUse`, `OldSecretsRender`, `NoSilentLoss`.
The invariant: numbers run up to the one in use (`Numbered`), a PUT in flight asks for
one that follows a number there was (`PutsNext`), drafts that are sent have fields
(`Drafted`), an unwritten secret has no values (`Bare`), and what an editor shows or was
confirmed on names every value that the draft of its check hides, but in what was
written since (`SentKnowingly`). That is a fact about the draft that was *checked*,
which is why the theorem speaks of saves that publish that one.

`ClientSessionProofs`: `PageTyped`, `LockedIsHidden`, `ShowsItsOwner`, `ArmedWhenOpen`.
`DisplayInv` says that `rendered` may lag behind the keys but not behind the screen, and
that whatever signs in signs someone in. `Awake`, while a lock has left nothing behind,
says that an entry in flight and a screen of the workbench have keys and a running
timer, whosever they are. `Calm`, while besides nobody's keys have replaced another's,
says that an entry holds the keys it unlocked, and that address and names are the
owner's before the workbench is on display.

`WorkbenchProofs` first shows that a behaviour of the sum is a behaviour of each part
(`PartsRun`): a step of the sum is a step of one part and leaves the variables of the
others alone. What holds of a part therefore holds in the run. For the types and the
page that carries their theorems over; the other parts have their invariants here:

* The offline copy. No refresh is past its look at the switch while that is off
  (`NoWriterWhenOff`), unless it overlapped it; and while the page has not strayed
  (`OwnerInv`): an entry has what it comes to hold from its own account (`EntriesAgree`);
  where the workbench is on display, or may come back on it, the three places a refresh
  takes its parts from are of one account (`DisplayAgrees`); and so is every refresh in
  flight, and the copy (`CopiesAgree`).
* The backup (`BackupInv`). The owner's wraps are none, one, or two that follow each
  other (`Shape`), and hold every row's label (`LabelsHeld`). `Reading` relates what an
  export has read so far to what there is now, table by table and in whatever order,
  but for the kinds of change in `crossed`: that is what makes a file whole although it
  is not read in one transaction. `Files` says the same of the finished file, and that
  a restore was made of it.
* The clipboard. `CopiesAreCleared` is inductive given the types (`BoardTyped`).
* The list (`ListInv`). Loads in flight are in the order of the types they knew, and
  those behind one that has shown its rows are late (`Queued`); a load that is not late
  and knows the types in use is on its way, or what is shown has the versions it needs
  (`Settled`); the index is that of what is shown (`Indexed`). These are facts about
  positions in a sequence, with `Append` and the removal of an element.
* The screens. The rail offers folders of the vault on display and, once loaded, all of
  them (`OffersTheVault`); the members are of it, or have been asked for
  (`AsksForTheVault`).
* The pane (`PaneInv`). A form was opened on what is edited now (`OneForm`), a save is
  for the secret of its form, which still waits or has gone (`CallsKnowTheirForm`), and
  a form that heard of its secret asks for no other (`CreatesOnce`). For the masks:
  what is unmasked is a row of the secret on the pane (`MasksInv`).

Only model-checked: `RunEnds` (liveness is outside what the prover does) and the
violations.

## 6. What is left out, and why

Of the server:

* `recordSignIn`, the new-device mail, and every line of the activity log but those of
  deletions: rows and mails that no handler reads back to decide anything else.
* Deletion of a vault and of an account: the cascade reaches the append-only
  activity log, whose trigger refuses it, so nothing commits; `Accounts` has the attempt.
* Creation of further vaults: one vault is modelled, and vaults share no state.
* A batch may carry ids of rows of another vault (the server does not compare);
  clients never send that.
* The cursor and the counts of a rotation: progress display.
* The interleavings between two reads of one handler, and in `AccountKeys` between a
  comparison and what is read next to it.
* Statements that one Prisma call issues (`include`) are one read.
* The arithmetic of a one-time code, the strength estimate of a password, and the
  ciphers: pure functions. The ten backup codes of a set are one.
* Built-in types, names of types and the order of their fields: never changed by an
  editor, or told apart by no property.
* Rate limits, the error format, static files, health checks.

Of the client:

* The awaits inside `encryptValues`: a lock in the middle of one save overwrites the key
  the later fields are sealed under (a hazard without a property yet).
* `ClientSession` has one page; what two pages do to each other through the cookie is in
  `AccountKeys` and, as the cookie that changes, in `OfflineCopy`.
* The list is made anew on every refresh (the key in App.tsx:472): `Search.Remount` and
  `VaultScreens` have what that discards; `DetailPane` is one such list.
* Tags in the filters and in the backup are treated as folders are, and left out there.
* Renaming of folders and of the vault: modelled for the server; no screen calls
  them, so `RotationWorker` has no rename.
* `discardVault`, `discardAll` and `forgetOfflineCopy`: nothing calls them.
* Layout, badges, history, keyboard, and the service worker, which caches the shell
  and no data.
