# Jano: models and proofs

Jano is an end-to-end encrypted password vault: a NestJS API server (`src/apps/api`)
that stores ciphertexts and OPAQUE registration records in Postgres, and a Tauri/React
desktop client (`src/apps/desktop`) whose engine holds the keys. This directory models
the protocols of both in TLA+, checks them with TLC on small instances and proves the
most important results with TLAPS for all instances.

    tlc -workers 4 -config SyncServer_serial.cfg MCSyncServer     # one of the runs
    tlapm SyncServer_proofs.tla                                   # one of the proof modules

`PROJECT.json` lists the runs, the lines of code each definition stands for (`map`), a
faulty variant of the code that breaks each property (`mutants`, the operators named
`Bug_...`), the hazards and the theorems.

## 1. The system

| Component | State | Operations | Interacts with |
|---|---|---|---|
| Sync service (`apps/api/src/sync`) | none of its own; `vault_items`, `sync_events` | `push`, `pull`, the gate `assertReconciled` | vault, vault keys and sync event repositories |
| Vault service (`vault`) | `vault_items` | create, list, get, update | item repository, the same rows as sync |
| Vault keys service (`vault-keys`) | `vault_keys` | upsert, list | the gate reads the master key version |
| Persistence (`persistence`, `docs/schema.sql`) | Postgres tables | one statement per repository call, never a transaction | all services |
| Login (`auth/auth.service.ts`) | `users`, `devices`, the map `pendingLogins` in memory | register start/finish, login start/finish | OPAQUE provider, rate limiter |
| Session tokens and guards (`auth/guards`, token service) | signed tokens | issue, verify, refuse, the guard of the rotation routes | every authenticated route |
| Status indicator (`desktop/src/ui/VaultStatusIndicator.tsx`) | its text, a load in flight | mount, load, online and offline events | pending record, `navigator.onLine` |
| Rate limiter (`auth/rate-limit`) | a bucket per key in memory | `check`, `reset` | guard in front of the auth and rotation routes |
| Rotation service (`rotation`) | `users.registration_record`, `devices.pending_rotation_challenge` | rotate start/finish | OPAQUE provider, continuity HMAC |
| Offline rotation (`desktop/src/engine`) | IndexedDB: account record, pending record | `beginOfflineRotation`, `completeOfflineRotation` | key manager, rotation client, server |
| Key manager (`engine/key-manager.ts`) | KEK and DEK bytes | unlock, load, re-wrap, encrypt, decrypt, lock | worker |
| Engine worker and client (`desktop/src/worker`) | pending calls by id, one `KeyManager` | a request message and its answer per call, terminate | screens |
| Screens (`desktop/src/ui`) | React state, account record | create, unlock, lock, reveal, copy | engine client, clipboard |
| Clipboard auto-clear (`desktop/src/clipboard`) | timers, one pending clear, the system clipboard | schedule, disarm, flush on exit | window close handler, other programs |
| Cryptography, Tauri shell, API bootstrap | none | | |

What makes the code hard to test:

* **await points**: no repository call shares a transaction with another, so `push`,
  `updateItem` and `rotateFinish` read a row, decide, and write one or two awaits later.
  Requests of several devices, or the retry of one, interleave at every await.
* **two stores, no common commit**: an offline rotation changes the pending record, the
  account record and, later, the server. The app may die, and answers may be lost,
  between any two of them.
* **late and repeated requests**: a client gives a request up; the server executes it later.
* **memory versus tables**: pending logins and rate-limit buckets vanish on restart.
* **time**: windows, lockouts and the doubling backoff meet at their boundaries.
* **workers, timers and callbacks** on the desktop: a lock while an operation awaits, a
  timer that disarms before it has cleared.

The full list, each entry at its line with the properties that watch it, is `hazards` in
`PROJECT.json`.

What makes each component correct:

* sync and vault: no device's write is silently replaced; a conflict is forked and only a
  conflict; versions identify ciphertexts; nothing crosses accounts; the event is stored
  before the gate decides.
* rotation server: one challenge authorises one record; only a signed request replaces the
  record of a hardened account; a replaced record never returns.
* offline rotation: the account record always opens the vault, the device can bring the
  server to its password, the pending record goes last, and every rotation arrives in the
  end, all this unless a rotation is torn between its two saves.
* login: a login is consumed once, by a client that has the password; the record of a user
  changes only at the hand of a device of that user.
* rate limiter: since the last reset or restart a bound on bursts, lockouts only for cause,
  for as long as announced, each twice as long as the one before.
* desktop session and clipboard: keys gone after lock, calls answered, secrets cleared.

## 2. Modules

| Module | Models |
|---|---|
| `VaultStore` | abstract: the tables as an atomic store that inserts rows, replaces a row by its next version and sets key versions |
| `SyncServer` | sync, vault and vault-keys handlers over the repositories; devices as environment |
| `MCSyncServer` | instances of it |
| `SyncServer_proofs` | theorems for every interleaving |
| `SyncServer_serial_proofs` | theorems under `OneRequestPerUser`, with the refinement of `VaultStore` |
| `OfflineRotation`, `MCOfflineRotation` | the desktop's two-phase rotation with client, network and server |
| `Handover` | abstract: a device changes its password, owes it to the server, delivers it; a change that fails half-way loses what was owed |
| `OfflineRotation_proofs` | theorems for every setting and for the serial ones, with the refinement of `Handover` |
| `RotationServer`, `MCRotationServer` | rotate start/finish of a hardened account, with several devices and requests |
| `RotationExchange` | abstract: a challenge is issued and exchanged once for a fresh record, or lost |
| `RotationServer_proofs` | theorems for every interleaving and under `OneRequestPerDevice`, with the refinement of `RotationExchange` |
| `Login`, `MCLogin` | registration, the two-step OPAQUE login, its tokens, and the rotation of an account without Factor 2 |
| `Accounts` | abstract: e-mails are registered once, logins opened, used once or ended, records replaced in the name of a used login |
| `Login_proofs` | its theorems, with the refinement of `Accounts` |
| `RateLimit` | the rate-limit store and time |
| `RateLimit_proofs` | its theorems |
| `DesktopSession` | the screens, engine client, worker and key manager of the desktop |
| `DesktopSession_proofs` | its theorems |
| `Clipboard` | the credential view, the clipboard and its delayed clear, the flush on exit |
| `Clipboard_proofs` | its theorems |

### SyncServer

A handler is an async function. Every repository call is one action, a handler in flight
is a slot of `req`, and the `step` of a slot names the call it awaits; the locals it uses
afterwards are fields of the slot. `push` is `SendPush` (arrival), `RecordEvent`, `Gate`,
`AfterGate`'s branch to `PushCreate` or `PushRead`, then `PushFork` or `Update`; `pull` is
`SendPull`, `RecordEvent`, `Gate`, `PullList`. `VaultPut` is a read, with the write left to
`Update`. The last call leaves the answer in the slot (`Answer`), from where it reaches the device
(`Deliver`). `Fails` is a query that rejects, or an answer that is lost: the handler ends where
it stands, with whatever its earlier calls have stored. A device
remembers in `seen` the version and ciphertext it was last told for every item and sends
that version as `lastSeenItemVersion`, or leaves it out, which the code reads as 0.
`Crash` drops the requests and keeps the tables.
Ciphertexts are opaque; dates, `dekVersion` and the wrapped key bytes are left out, because
no decision reads them.

### OfflineRotation

A credential is a master password with its salt, numbered in the order of the rotations.
`server`, `account`, `pending` and `session` say which credential each place holds.
`beginOfflineRotation` is `BeginRotation`, `SavePending` (or `SaveFails`), `Rewrap`, `Seal`,
and the save of its result `PersistAccount` (or `AccountSaveFails`). `rewrapUnder`
is split in `Rewrap` and `Seal` because it awaits the import of the key with a reference to
the DEK buffer: `resident` is what that buffer holds, `begin.dek` what the reference sees,
`wrapped` what the account record got.
`completeOfflineRotation` is `Reconnect`, `StartAnswered`, `ServerFinish`, `FinishAnswered`,
`ClearPending` (or `ClearFails`), with `NetworkFails` at each exchange. `Crash`, the death of
the app, may come at any step of both.
A rotation is `torn` when it ends after `SavePending` without `PersistAccount`: the account
save rejects, the app dies between the two, or the vault was locked before the re-wrap.
The engine has no caller in the repository yet, so what the caller and the environment may
do is a record `setting`, chosen once: a hardened account, overlapping calls, late execution
of a request given up. Each property states in which settings it holds. `Serial` names the
settings without the last two.
`indicator` is `VaultStatusIndicator` over the same record: mounted while a vault is open, it
asks the store (`LoadPending`, `LoadDelivered`) and hears `ConnectivityEvent`s. Before the
answer, an event can show "synchronized" although a record exists; `IndicatorHonest` speaks of
the time after it.

### RotationServer

The server side of a hardened account. The handler's awaits are `CheckChallenge` (the read
and the signature check), `ClearChallenge` and `Replace`; messages of a device are kept in
a set, so that they can be repeated and arrive late. A signature is the challenge it was
computed from, which is the contract of the HMAC.

### Login

A registration record stands for the password it was made from. A login state is made by
`Respond`; only a client that used the password of the record and received KE2 can compute
its KE3 (`Ke2Arrives`), and `LoginFinish` accepts any KE3 from anybody at any time.
`LoginFinish` covers the `get` and the `delete` of the map, which no await separates; the
device row is an await later. A login leaves a token, which `TokenExpires` ends. The rotation
routes are passed with a token of the device (`RotationAuthGuard`), after which `RotateFinish`
arrives, `Inspect` reads the user and refuses the record it has already, and `Replace` writes,
with awaits between. `WellFormed` is `isValidRegistrationRecord`; `Rejected` is a query or an
OPAQUE call that rejects, which ends the handler where it stands.

### RateLimit

`check` runs without an await, so its four outcomes (`Refuse`, `OpenWindow`,
`CountRequest`, `LockOut`) are actions, next to `Tick`. `granted` (when the last `2 * Limit`
allowed requests came) and `lockout` record the answers of the store, so that the properties
talk of requests and not of its counters. `2 ** n` is the recursive function `Doublings`.

### DesktopSession

`screen` is the state of `App` and `UnlockScreen`, with a `kind` of its own for a handler
that awaits (`creating`, `saving`, `unlocking`). `calls` are the messages sent to a worker
in the order of their ids: `Begin` runs a handler up to its first await, `CreateVault`,
`Unwrap`, `Finish` and `DeriveFails` end it, `Lock` is synchronous. An answer is delivered
from `answers`, which keeps the order of posting, and whatever awaits it runs in the same
step (`CreateAnswered`, `UnlockAnswered`, ..., `Stale` for a call no longer pending). A DEK
is the number of its vault, so an unlock succeeds exactly with the password of the stored
vault. `Restart` ends everything but the account record.

### Clipboard

`copies` are the calls of `handleCopy`, of which only the part between the effect of
`writeText` and its continuation can be overtaken (`Write`, `Copied`). `timers` are the
clear timers that are set, `ref` the one each view would cancel, `pendingFlush` the
registry's slot, `runs` the checks between `readText` and `clear`. The view is unmounted by a
lock; copies of an unmounted view go on. Closing is `CloseRequested`, the end of its check,
`Destroyed`; on the Web there is no hook, and leaving is `Killed`.

## 3. Runs

| Run | Shows | Bounds, and why they are enough |
|---|---|---|
| `SyncServer_serial` | with one request in flight the tables step as `VaultStore`, and `VersionIdentifiesContent`, `NoSilentOverwrite`, `NoSpuriousFork` hold | two devices, two items, two contents, two item and key versions: one item to conflict on and one for its fork, one version raise under a device's feet |
| `SyncServer_concurrent` | `ForkIntegrity`, `OnlyOwnItems`, `EventLogged` at every interleaving of two requests | a second account whose rows could leak, two items so that a fork exists |
| `SyncServer_race` | **violation** of `NoSilentOverwrite` with two requests of one account | the smallest instance: one item |
| `OfflineRotation_all` | the two-phase guarantees in all 8 settings, `ImplementsHandover` in the serial ones, the honesty of the status indicator, and liveness, with saves, clears and requests that fail and the death of the app at every step | two rotations: a pending record is replaced by that of a second rotation at every step of the exchange, and the second can be torn while the first is still owed |
| `OfflineRotation_overlap` | **violation** of `ClearedSafely` when calls overlap | |
| `OfflineRotation_rewrap` | **violation** of `DekUnchanged` when a lock falls between the awaits of the re-wrap | |
| `RotationServer_devices` | `SingleUse`, `AuthorisedBySignature`, `NoRevert`, `ImplementsExchange` | two devices with one request each, three challenges: one device's clear can meet another's challenge and a repeat of an older message |
| `RotationServer_race` | **violation** of `SingleUse` with two requests of one device | one challenge |
| `RateLimit_cycles` | `BurstBound`, `RetryAfterHolds`, `LockoutsFair`, each since the last reset or restart | a limit and window of 2, exponent capped at 2, 24 ticks: three lockouts in a row, one past the cap, and every boundary tick. Keys share no state, so one key suffices |
| `Login_handshakes` | `ConsumedOnce`, `Authenticated`, `OnlyOwnerReplaces`, `ImplementsAccounts` | two e-mails, two passwords, two logins and two requests in flight: one login replaces the other, or belongs to another user |
| `DesktopSession_locks` | `KeysEndWithSession`, `RightKey`, `AccountKept`, and liveness `CallsSettle` | two engines, so that one can be left behind; four calls: encryption, decryption and lock overlap; two vaults, so that one can replace the other |
| `Clipboard_views` | `NothingForgotten`, `ExitClears`, and liveness `AutoCleared` | two copies in two views: a copy of a locked view completes while the next view copies |

`SYMMETRY` is over ciphertexts and, in `SyncServer_serial`, over the two devices, and in
`MCLogin` over e-mails, passwords and slots; none of them occurs in a definition, and no
liveness property is checked under it. Deadlock is checked in
every run.

### Where code and comments disagree

* `sync.service.ts:82-86` promises no silent merge and no data loss. Two pushes of one account
  that read the same version both update the row (`SyncServer_race`). With one request per
  account at a time it is true, and proved.
* `rotation-state-machine.ts:110-112` and `reconnection.ts:42-43` call the completion safe to
  repeat at will. A rotation begun while it runs loses its pending record
  (`OfflineRotation_overlap`).
* `key-manager.ts:55-56` says the DEK itself does not change when it is re-wrapped, and
  `rotation-state-machine.ts:52-53` relies on it. A lock between the awaits of `rewrapUnder`
  overwrites the bytes that are about to be encrypted: the new account record wraps zeros and
  the vault no longer opens (`OfflineRotation_rewrap`).
* `rotation.service.ts:44-45` calls the challenge single-use. Two concurrent finishes use it
  twice (`RotationServer_race`).

Three more traces have no run of their own.

* `sync.service.ts:48-50` says an outdated device "cannot push or accept writes". The gate
  reads the master key version once; with two requests of an account in flight the other can
  raise it (`UpsertKey`) between `Gate` and `PushCreate`, and the outdated device's item is
  written. With one request in flight nothing runs in between, so no property is stated of it.
* `rotation-state-machine.ts:113-116` rules out a server that is behind with the local record
  forgotten. With `setting.late`, a `rotate/finish` that the client gave up and the server
  executes after a later rotation causes it.
* `rotation-state-machine.ts:52-53` calls the re-wrap atomic. The save of the pending record,
  the re-wrap and the caller's save of the account record (`indexeddb-vault-account-store.ts:45-57`)
  are three steps. A torn rotation leaves a pending record sealed under a KEK that no unlock
  derives, and has overwritten the record of an earlier, unregistered rotation: server at 0,
  account at 1, pending 2. The vault still opens, but the server stays behind until the next
  rotation comes through. `Recoverable`, `ImplementsHandover`, `EventuallyRegistered` and the
  last part of `HardenedRefused` except `torn`; the rest of them, and `ServerNotAhead`, hold
  through it.

Three more are stated as exceptions of a property that holds, and have no run of their own:

* `UnlockScreen.tsx:60-65` calls the form that creates a vault the safer fallback when the
  account record cannot be read. Using it replaces that record (`AccountKept` excepts
  `loadFailed`).
* `clear-on-exit.ts:12-13` says a secret is "cleared before the app is allowed to close at
  all". A timer that has fired, or a second request to close, lets the window be destroyed
  while the check is still reading (`ExitClears` excepts both).
* `config.ts:24-25` says a copy is cleared automatically. After a lock the timer is
  cancelled and only the flush on exit is left (`AutoCleared` excepts the lock,
  `NothingForgotten` covers it).

Also, `engine.worker.ts:61` says that `unlockWith` overwrites the KEK. After a wrong password
it does not; the KEK goes with the worker (`KeysEndWithSession`).

### Fairness

In `OfflineRotation` weak fairness is on code that has been given
control (`SavePending`, `Rewrap`, `Seal`, `PersistAccount`), which a failing save or the death
of the app satisfies too: no save has to succeed. Strong fairness is on `Unlock`,
`Reconnect`, the three steps of the exchange and `ClearPending`: the user unlocks and goes
online again and again (`reconnection.ts` is meant for a call on every reconnection), and
neither the network nor the clear fails for ever. Nothing forces `BeginRotation`, and each
single attempt may fail.

In `DesktopSession` it is weak fairness on each worker's handlers and on the delivery of its
messages, which the event loops give; an answer is awaited, never a user. In `Clipboard`
it is weak fairness on timers, on the continuation of `handleCopy` and on the checks: timers
fire and adapter calls settle, if only by a refusal. A killed app takes no step, which the
property excepts. The other modules claim no liveness: a request, a client or a user may stop at any time.

## 4. Proofs

All are safety results, for every value of the constants that satisfies the modules'
`ASSUME`s.

* **`SyncServer_proofs`**: `Typing` needs `Targets`, that a slot's item id names a row that
  exists, because an update writes a row read earlier. `ForksAreSound`, `Isolation`,
  `EventsFirst` hold for any number of users, devices, slots and every interleaving. They
  rest on `RowsKept`: rows are never removed, and keep their owner and origin.
* **`SyncServer_serial_proofs`** assumes `OneRequestPerUser` (the devices of an
  account share one slot). The invariant is `SerialInv` (what a handler read is still in the
  table) with `CopiesInv` (a device's copy of the row's current version has its ciphertext,
  in `seen`, in replies on the way and in the base of a push). From it: the refinement
  `ImplementsStore`, `VersionIdentifiesContent`, `NoSilentOverwrite`, `NoSpuriousFork`. The
  assumption is not decoration: `SyncServer_race` refutes
  `NoSilentOverwrite` without it.
* **`OfflineRotation_proofs`**: `AheadInv` orders the credentials (what the exchange carries
  has opened the account record) and gives `ServerNotAhead` in every setting. `TwoPhase`,
  for serial settings, says which places agree in each step of the two functions unless a
  rotation was torn, and gives `Recoverable`, `ClearedOnceConfirmed` and
  `ServerFollowsAccount`. No save, clear or request is assumed to succeed.
  `EngineImplementsHandover` maps the one slot to what the device owes (`Owed`): between
  `SavePending` and `PersistAccount` the slot already holds the next credential, and what it
  held before is owed still, unless the server has it. `SavePending` then changes nothing the
  server waits for, `PersistAccount` is the change of password, `ServerFinish` the delivery,
  the clear acknowledges, and the step that tears a rotation is `FailChange`. Other settings
  map to a handover that never starts. `HardenedRefused` has an invariant of its own.
* **`Login_proofs`**: `IInv` says that a login state is pending, taken by one handler or
  spent (`OneUse`), that the map keeps a state under its own e-mail, and that whatever
  passed the check has a KE3 a client could compute (`Verified`). `ReplacedByOwner` adds that a
  rotation in flight was let in by a token of the device's own user; the record it installs is
  the one that request carried. `LoginImplementsAccounts`
  calls a login open while it is in the map or taken (`Open`): `Respond` opens one and may push
  another of the same e-mail out of the map, `LoginFinish` only moves it, `CreateDevice` uses
  it, and refusals, failures and restarts end some. `OneUse` makes the mapping work: a login
  that leaves a handler is in no other place. `Known` adds that users are never removed.
* **`RotationServer_proofs`**: its `IInv` (`Counted`, `Running`, `Disjoint`, `Signed`) holds for
  every interleaving and gives `Authorised`: a challenge, stored, received, on its way or signed,
  is one device's only (`Disjoint`). Under `OneRequestPerDevice`, `Once` adds that a stored
  challenge has installed nothing and that a handler past the clear carries a signature that has
  installed nothing, from which `UsedOnce` and `NeverReverts` follow.
  `ServerImplementsExchange` maps a cleared challenge that its handler still carries to one
  outstanding (`Outstanding`), so that clearing is a stutter, replacing is the exchange, and a
  failure or a crash between them loses it.
  `RotationServer_race` refutes `SingleUse` without the assumption.
* **`DesktopSession_proofs`**: the screens fall in three classes. `Forms` have no engine, an
  `Attempt` has one engine with one call whose answer tells the truth (`Trying`), and the screens
  in `Ready` have one whose calls start in order, with the key until a lock starts (`Holding`).
  An encryption carries the key it began with, so a lock that overtakes it changes nothing
  (`Keyed`), and a failed call has a lock before it (`Replied`).
* **`Clipboard_proofs`**: `Covered` drops the timers from the argument, because a lock may
  cancel any of them: the flush stays armed until a check takes its place, and a check
  ends only with the secret gone or a refusal. `OneExit` says that a single request to close
  has a single check, after which the window goes; `Overtaken` is `ExitClears` from the moment
  the end is decided.

* **`RateLimit_proofs`**: `Windowed` splits the record of grants in the `count` entries of the
  current window, none before its start, and older ones, none after it, with a window's length
  between an entry and the one `2 * Limit` places later (`Fits`, which `Recorded` preserves
  when a window opens and when a request is counted). `Remembered` ties the last lockout to the bucket: its
  length is the backoff of the streak, the streak is lost after a clean window and only
  then. From them `BurstBounded`, `RetryHolds` and `LockoutsAreFair`. That a lockout doubles needs
  the recursion equation of `Doublings`, which a definition by CHOOSE does not give for free:
  `Inductive` derives induction over a set of naturals from the least element of its
  complement, and `ApproxExists`, `ApproxAgree` build the function from its finite
  approximations (`DoublingsDef`).

`ServerFollowsAccount` and `OnePlace` state what two of the refinements rest on and are proved
(`FollowsAccount`, `PendingTakenSpent`); the runs check the refinements, which say more.

Only model-checked: `EventuallyRegistered`, `CallsSettle` and `AutoCleared`. They are liveness
under fairness, which is out of the prover's reach.

## 5. Not modelled

* Cryptography: its contracts are used (a ciphertext opens only under its key, an HMAC
  comes only from its challenge, KE3 only from the password).
* DTO formats, HTTP status codes, encodings, the in-memory test doubles of the repositories.
* The Tauri shell, configuration and API bootstrap: no protocol state.
* A promise of IndexedDB that never settles (`indexeddb-pending-rotation-store.ts:68`).
* The composition of rate-limit keys, the growth of the bucket map, a clock that goes back.

## 6. Plan

Done, in this order: sync and vault (`VaultStore`, `SyncServer`) with proofs; offline
rotation with proofs, later the re-wrap in two steps and the status indicator; the rotation
server with proofs; login with proofs, later tokens and the rotation of an account without
Factor 2; the rate limiter, later with proofs; the desktop session with proofs; the clipboard
with proofs; last the abstract `Handover`, `RotationExchange` and `Accounts` with their
refinements.

Left:

1. A composition of `Login` and `OfflineRotation` (the reconnection logs in before it completes),
   once the desktop has a caller that rotates; then also a promise that never settles.
2. A bound on the duplicates a repeated create leaves, once the API has an idempotency key.
