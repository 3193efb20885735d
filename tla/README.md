# Verification of js-idm-wallet

TLA+ models of the IDM wallet (`src/src`), the TLC configurations that check
them on small instances, and TLAPS proofs of the properties that matter most.
`PROJECT.json` lists components, runs, mutants, hazards, findings and theorems,
and gives for every definition the source lines it models.

The wallet is a single-threaded JavaScript library. Its parallelism is that of
the event loop: between an `await` and its continuation any other entry point,
listener, timer or replication event may run; any write may be rejected; and
the browser tab may close. Each model therefore has **one action per stretch of
code between two awaits**. Calls in flight are records that say where the call
stands and what it holds on to.

## 1. The system

| Component (source under `src/src`) | State | Operations | Talks to |
|---|---|---|---|
| Secret (`secret`) | `#secret`, `#semaphore` | `get`, `getAsync`, `set`, `unset`; dispatches `onDefinedChange` | awaited by locks and storage, heard by the locker |
| Passphrase lock (`locker/locks`) | `#enabled`, its record in storage | `enable`, `update`, `unlock`, `disable` | secret, storage, key derivation |
| Passphrase strength (`locker/locks/utils`) | none | a score | used by the lock |
| Locker (`locker/index.js`) | `#pristine`, locks, idle timer | `lock`, `isLocked`, `isPristine`; handlers of secret, master lock and timeout | secret, lock, idle timer |
| Idle timer (`locker/idle-timer.js`) | `#maxTime`, timeout, timestamp; the maximum in storage | `restart`, `getRemainingTime`, `setMaxTime`, timeout | storage (unencrypted), runtime timers, heard by the locker |
| Storage (`storage`) | the LevelDB database | `get`, `set`, `has`, `remove`, `list`, `clear` | secret for encrypted values; everybody uses it |
| Sessions (`sessions`) | `#sessions`, descriptors in storage | `create`, `destroy`, `isValid`; handlers of loads, identity changes, revocations and link changes | storage, identities, apps |
| Apps (`identities/identity/apps.js`) | replicated stores of apps and of app-device links | `add`, `revoke`, `linkCurrentDevice`, `unlinkCurrentDevice` | OrbitDB; link changes are heard by sessions |
| Identities (`identities/index.js`) | `#identitiesMap` | `load`, `create`, `import`, `remove`, `peek` | identity, DID methods; heard by sessions |
| Identity (`identities/identity/index.js`) | descriptor (encrypted, in storage), revoked flag | `createIdentity`, `loadIdentities`, `removeIdentity`, revocation handler | devices, profile, apps, backup, storage |
| Devices (`.../devices.js`) | replicated store of devices; descriptor with the private key in storage | `updateInfo`, `revoke`, create, restore, remove | OrbitDB, DID methods, storage |
| Profile (`.../profile.js`) | replicated details; timers of peeked stores | `setProperty`, `setProperties`, `unsetProperty`; peek, create, restore, remove | OrbitDB, blob store |
| Blob store (`.../utils/blob-store.js`) | references to blobs and their status | `put`, `sync`, `getUrl` | IPFS, Infura; heard by the profile |
| OrbitDB instances (`.../utils/orbitdb.js`) | cache of instances, and of the stores of each | get, open, drop, stop replication | OrbitDB, IPFS |
| Backup (`.../backup.js`) | the master key until it is noted down, in storage | `getData`, `setComplete` | storage |
| DID methods (`didm`) | none of its own; documents are external | `create`, `update`, `resolve` | IPNS |
| Cryptography (`utils/crypto`) | none | encrypt, decrypt, derive, generate, hash | libraries |
| Wallet, errors, DIDs, assertions, demo | none | wiring, error classes, formatting, an example | - |

### What is hard, and what makes each part correct

* **Secret and lock.** Callers wait for the secret for as long as the wallet is
  locked, and resume in a wallet that may be locked again. Deriving a key takes
  long, so `unlock` and `update` act on a record that may be replaced. The
  wallet must keep *one* secret for life, it must always be possible to unlock
  it, nobody may wait on a semaphore that nobody resolves, and only a holder of
  a passphrase may open or re-key it.
* **Idle timer.** A timestamp and a length beside the runtime's own timer, and
  a comparison made before a write and used after it. The three have to agree,
  and an unlocked wallet must always have a timeout pending.
* **Sessions.** `create()` waits up to six times, and `destroy()` calls are
  started by the owner and by handlers, more than once for one session. Memory,
  storage and replicated links are written one after the other, and each write
  may fail. They must agree again afterwards: no session lost, none coming back,
  none without a link, none twice, none of a revoked identity.
* **Identities.** Creation and removal write up to seven things in order, without a
  transaction. `load()` restores all identities or none, so one descriptor left
  without its device locks the owner out of all of them. Revocation arrives by
  replication, at any moment, and its mark is written late.
* **Devices.** Each wallet has its own copy of the replicated store, in which
  the last write of a key wins. `revoke()` writes a snapshot taken before the DID
  document was updated, and `updateInfo()` writes the whole device. A revocation
  must not be undone by one who knew of it, must have taken the key away, and
  must reach the revoked device whatever restarts in between.
* **Profile and blobs.** Pictures are set here and replicated from elsewhere while
  earlier ones are still pinned or uploaded. The answers come in any order and
  the details must show the stored picture or none.
* **Stores of a profile.** A peek leaves a store open and a timer that drops it.
  An import takes the same store over and cancels the timer. Caches are looked up
  before a wait and filled after it, and everything that is waited for may
  reject. The store in use must not be dropped (it is: see the findings), and the
  caches must not hand out what is gone.

The list `hazards` of `PROJECT.json` has each of these at its line, with the
properties that cover it or the reason why none does.

## 2. The modules

| Module | Models |
|---|---|
| `Secret` | the secret and its semaphore |
| `PassphraseLock` (extends `Secret`) | calls and record of the lock |
| `Storage` (extends `Secret`) | encrypted values and the calls that wait for the secret |
| `Locker` (extends both) | composition: listeners, timeout, end of the process; **refines `Vault`** |
| `Vault` | abstract: a key that becomes durable once, then closed or open with that key |
| `LockerHistory` | `Locker` and the passphrases that were valid during each call |
| `IdleTimer` | the timer with a discrete clock; **refines `Countdown`** |
| `Countdown` | abstract: a countdown, and a maximum that is set in one step |
| `Apps` | both stores of an identity's apps, as the current device sees them |
| `Sessions` (extends `Apps`) | sessions, and what reaches them from apps and identities; **refines `SessionBook`** |
| `SessionBook` | abstract: sessions that begin and end in one step and outlive the process |
| `SessionsHistory` | `Sessions` with auxiliary variables for failures, overlaps, revocations and repairs |
| `Identities` | create, import, load, remove, revocation of the current device |
| `IdentitiesHistory` | `Identities` with the failures that the code admits; **refines `Holdings`** |
| `Holdings` | abstract: identities that are held as a whole or not at all |
| `Devices` | the devices of one identity, each with its wallet and its copy of the store; **refines `Membership`** |
| `Membership` | abstract: devices that join once, and are told of a revocation when their key is gone |
| `DevicesHistory` | `Devices` and what the writer of each entry had |
| `BlobStore` | the reference to the picture, its syncs and uploads |
| `Profile` (extends `BlobStore`) | composition: the replicated store, the details, calls that set and unset |
| `ProfileHistory` | `Profile` with failed uploads and pictures set again |
| `OrbitDb` | the caches of instances and stores |
| `ProfileStores` (extends `OrbitDb`) | composition: peek, import and remove over them, and the timers |
| `MC*` | instances for TLC (symmetry sets, pairs of devices) |
| `LockerProofs`, `IdleTimerProofs`, `SessionsProofs`, `IdentitiesProofs`, `IdentitiesRemovalProofs`, `DevicesProofs`, `ProfileProofs`, `ProfileStoresProofs` | theorems |

The modules stay apart where a component uses only an answer of another one.
`Locker` keeps of the idle timer only whether it is armed (`armed`), and
`IdleTimer` leaves out who listens. `Sessions` keeps of identities only whether
they are present, revoked and marked so, and `Identities` leaves out sessions
and apps. `Devices` takes the steps of creation and removal together, which
`Identities` has one by one for the current device; `ProfileStores` leaves out
what a profile says, and `Profile` where its store comes from. A definition "Mutant of X" is X with a plausible mistake; no
specification uses it, and each property is violated when one of them replaces
X.

### How state and actions correspond to the code

* *Secret.* The promise of `getAsync()` is modelled by who holds it: `waiting`
  are callers of the current `#semaphore`, `released` those whose promise is
  resolved and whose continuation is queued. `set` resolves; `unset` replaces
  the semaphore, and returns early when there is no secret. A resumed caller
  gets whatever the secret is *then*, including null.
* *PassphraseLock.* `call[c].pc` is the await a call stands at: `read` the
  record, `decrypt` (derive the key), `configure`, `secret` (`getAsync`), `put`,
  and `stored` between the write and the dispatch of `enable()`. `update` runs
  through `unlock` first, since the lock is the master lock. An encrypted record is the pair of
  passphrase and secret; decryption succeeds for that passphrase only.
  `disable()` throws for a master lock, the only role the wallet creates.
* *Storage.* An encrypted value is the key it was encrypted with.
* *Locker.* `Reload` is the end of the process and `createLocker` in the next
  one: pristine iff there is no record, in which case a fresh secret is made.
* *IdleTimer.* `fuse` is the runtime's timer, `timeoutTime` and `age` are what
  `getRemainingTime()` computes from. A delay over `TimerLimit` (2^31 - 1 ms)
  fires at once, as `setTimeout` does.
* *Sessions.* `create[c].pc` is the wait of a `create()`; `destroying[s]` counts
  the `destroy(s)` calls at each of their two waits. Dispatches are synchronous,
  so a handler is part of the action that dispatches (`HandleUnlink`,
  `HandleLoad`, `Destroy`). Where nothing but the promise of a write lies between
  the write and the assignment after it, they are one step (`StoreSession`,
  `Forget`): the storage has the new value from that turn on, and a process that
  ends in between loads the same either way. `marking` are the
  revocations whose mark is on its way to storage; it is encrypted, so it waits
  for the secret, and `RevocationHandled` is never forced to happen.
* *Identities.* `CreateIdentity` and `RemoveIdentity` are the writes of
  `createIdentity` and `removeIdentity` in order; the former ends in the latter
  when a step fails (`Undo`). `timers` are the 10 ms timers of the constructor,
  `marking` the writes of `revoked: true` that wait for the secret,
  `removingBackup` the removals nobody awaits. `closed` is an OrbitDB instance
  that another call dropped: `getOrbitDb` creates a new instance for `remove()`,
  but cannot when called from `createIdentity`, which passes it an OrbitDB where
  IPFS is expected. `load()` calls share one promise, and everything that needs
  identities waits for it, so `Load` is one step.

* *Devices.* `log[d]` is what the wallet of `d` has of the store: writes with a
  Lamport time and their writer. `Shows` is the index that OrbitDB computes from
  it; OrbitDB updates the index and emits its event in one turn, so `Put` and
  `Sync` include `#handleOrbitdbStoreChange`. `phase[d]` is the identity in that
  wallet: `entered` is the time between the entry of the device and the listener
  of the identity, in which the apps are created and a revocation is heard by
  nobody; `noticing` is the 10 ms timer of the constructor, `revoked` the time
  from `descriptor.revoked` to the end of replication. `call[d]` is the snapshot
  of a `revoke()` that waits for the DID document or the write. An entry says
  whether it is a revocation and whether it holds the keys of
  `DESCRIPTOR_SENSITIVE_KEYS`; the rest of a device is left out.
* *BlobStore.* A picture stands for type and hash. References are compared by
  object identity, which is `ref.task`; `task[t]` is the picture a sync waits
  for. `Sync` is `sync()` up to its wait, `PinAnswer` what follows.
* *Profile.* `StoreChanges` is a write or a replication with its handler.
  `call[c].pc` is a wait of `setProperty` or `unsetProperty`: `add` (IPFS),
  `infura`, `store`, `delete`. `setProperties` makes such calls in series.
* *OrbitDb, ProfileStores.* `cached` is `instances`, `connected` and `profile` are
  `instancesStores`, `others` the stores of devices and apps. `registered` are
  the timers in `peekDropStoreTimers`, `orphans` those that were overwritten
  there and still run, `dropping[s]` the waits of a timer's callback. `stored` is
  the descriptor, which a removal takes away first and an import needs the
  secret for. Every wait may reject: the store may be closed by then without
  being dropped (`StoreNotDropped`), the stores closed without the instance
  being disconnected (`NotDisconnected`), and the callback of the timer, the
  import or the removal ends there, the last with the identity still in the
  wallet. Two calls may create an instance each or open a store each, and a
  timer or a removal may take either from under another call. Objects that
  nothing refers to are used again (`Closed`, `Unused`). A failed import goes
  on as `undo`.

Logging, wording, validation of arguments and formats are left out: calls that
throw before they change anything are not steps.

## 3. The runs

Passing:

| Run | Specification and bounds | Shows |
|---|---|---|
| `locker` | `SpecH`; two lock calls, one storage call, two strong passphrases and a weak one, three keys | `NoStrandedCaller`, `OneSecret`, `Readable`, `UnlockedIsArmed`, `LockedIsUnlockable`, `UnlockedByHolder`, `ReplacedByHolder`; `VaultSpec` (refinement) |
| `locker_live` | `FairSpec`; two lock calls, one storage call | `EventuallyLocked`, `CallsSettle` |
| `idle_timer` | `Spec`; maxima 0, 1, 3, 5 and one beyond the limit of `setTimeout`; one `setMaxTime` at a time | `RemainingTimeIsTruthful`, `PendingWithinMax`, `StoredIsInForce`; `CountdownSpec` (refinement) |
| `sessions_history` | `SpecH` with outages; two sessions, one app, one identity, one `create()` call, pairs of overlapping `destroy()` calls | `OneSessionPerApp`, `RevocationEndsSessions`, `LiveIsStored`, `DestroyedStaysDestroyed`, `LiveSessionIsLinked`, `ReloadRepairs`; `SessionBookSpec` (refinement) |
| `identities` | `SpecH`; one identity, three devices, all events | `RevocationIsKnown`, `EveryDescriptorLoads`, `IdentityIsStored`, `NothingLeftBehind`, `OnlyOwnKeys`; `HoldingsSpec` (refinement) |
| `devices` | `FairSpecH`; three devices: one revokes the second and may leave, the second updates itself and restarts, the third passes on; writes up to time 3 | `RevokedHasNoKey`, `RevocationIsTold`, `RevocationSticks`, `RevocationReachesDevice`; `MembershipSpec` (refinement) |
| `profile` | `SpecH`; two pictures, three syncs, two calls | `ShowsStored`, `SyncingIsInFlight`, `DetailsFollow`, `UrlIsServed` |

Each module also has a type invariant, and `Locker` has `RecordIsDurable`, which
`VaultSpec` implies; these are proved for every component and no run checks them
again. The properties are stated in words above their definitions.

### The abstract specifications

Each says what a component promises those who use it, as if every call took
effect at once. The refinement mappings are at the end of the detailed modules.

* `Vault`: the durable key is the secret in the lock record, the open key the
  secret in memory.
* `Countdown`: `left` is `getRemainingTime()` while a timeout is pending, and the
  maximum changes together with the countdown although `setMaxTime()` writes it
  in between. Only the end of the process may decide for a `setMaxTime()` that
  has not returned. With overlapping calls this fails, as the first finding
  below says, so the run and the theorem have one call at a time.
* `SessionBook`: `valid` are live sessions that have not expired, `starting` those
  whose `create()` has not returned, `failed` what storage kept of a session that
  memory gave up. A `destroy()` takes effect in the write that removes the
  descriptor; only a session whose `create()` failed may come back, with the
  next process.
* `Holdings`: `held` is what `load()` of a new process would restore, `shown` the map
  in memory. Creation takes effect with the entry of the device, the last write
  that `load()` needs, and removal with the descriptor, the first it removes. `torn`
  are the identities in `halfMade`, `halfRemoved` or `remarked` (see below); only
  those may be held again without being made.
* `Membership`: `members` are the keys in the DID document. A device is `told` once
  its identity is revoked in memory, `noted` once the mark is in storage. It
  forgets what it has not noted when its process ends, and is told again.

Disagreements between the code and what it says (`findings`), each a
counterexample of TLC:

| Run | Property | What happens |
|---|---|---|
| `locker_enable` | `EnableOnlyWhenDisabled` | two `enable()` calls pass `assertDisabled`; the second replaces the passphrase of an enabled lock |
| `sessions_revoked` | `NoSessionOfRevoked` | a `create()` in flight during a revocation leaves a session of a revoked identity |
| `identities_import` | `ImportRefusesExisting` | two imports of one DID both succeed |
| `devices_sensitive` | `SensitiveStaysHome` | a device that updates its own info writes its private keys into the replicated store (`devices.js:91`), since `#updateDevices` has merged them into its record of the map |
| `stores` | `UsedIsKept` | a peek that is still replicating when its identity is imported sets the drop timer afterwards, and the store of the imported identity is dropped (`profile.js:155`) |

Other things that the models showed and that a test would hardly reach. No run
of its own shows them; each is an exemption that some property needs to hold:

* Two overlapping `setMaxTime()` calls: `isSmaller` (`idle-timer.js:48`) is stale
  after the write, so a smaller maximum may leave a longer timeout pending. With
  two `Calls`, `PendingWithinMax` is violated.
* "Will retry on reload" (`sessions/index.js:213`): no load retries the removal of
  a session whose app was unlinked but which storage refused to remove.
* A revocation is hidden by an update of a wallet that did not know of it and
  whose write wins (`devices.js:72`, `:91`): the device is listed as active and
  its key is gone. `RevocationSticks` says that this is the only way.
* Two overlapping `create()` calls for one identity and app end in two sessions
  (`sessions/index.js:49`). `OneSessionPerApp` says that nothing but this and a
  failed cleanup leads there.
* Setting the stored picture again, after pinning it failed, changes the
  reference but no details (`profile.js:87`).

The run `stores` shows the shortest way to a dropped store in use. The model has
others, and more that the code promises nothing about: a second peek replaces the
timer of the first in `peekDropStoreTimers` (`profile.js:164`), which then can no
longer be cancelled; an import cancels a timer whose callback has begun; two
overlapping `getOrbitDb()` calls create two instances (`orbitdb.js:26`), of which
the first stays connected; a tear-down takes whatever instance is in the cache
(`orbitdb.js:53`) and whatever store has the name; a peek that fails, or a drop
that rejects, leaves its store or instance open for good; and a removal that
rejects after the profile leaves the identity in the wallet with a dropped store,
with no descriptor for a second removal to find.

### Bounds, and why they are enough

* *Keys* are only compared, so three let a wallet reload twice before its first
  `enable()`; a generated key is never one generated before.
* *Two calls of the lock*, since every race here is between two calls or a call
  and `lock`, timeout or reload. The proofs lift the bound.
* *MaxDestroys* merges the `destroy(s)` calls at one wait beyond the bound: they
  hold no state of their own, so two tell "another one follows" from "this was
  the last". With merging, each `destroy` that stands for several ends once.
* *One `create()` call* in `sessions_history`, with every `destroy()` around it. The
  invariants of the run also hold with two `create()` calls and `MaxDestroys = 1`
  (1.8 million states), where calls overlap and `spoiled` matters; the proofs
  allow any number of both.
* *Ids that are reused.* A session or device id nothing refers to is as good as a
  new one, so two sessions or three devices stand for any number one after the
  other. `orphans`, which keeps devices of failed calls, may make a reused device
  count as one; the three devices are there so that a new one meets two left
  behind.
* *One identity.* Identities share only `load()`, for which one that cannot be
  loaded is enough. *One call at a time* in `identities`: overlapping calls on
  one DID are the finding of `identities_import`, which is also the run where an
  instance may be `closed` under a call. The theorems assume no more than `Apart`:
  any number of calls overlap, but not on one identity.
* *Devices.* Times up to 3 let a revocation and an update be concurrent, tied, or
  one after the other, and a second write follow both. The third device neither
  revokes nor updates: it is there to pass on entries and to be met first. With
  a bound on times the system may stop, so only this run has
  `CHECK_DEADLOCK FALSE`. The proofs have no bound on devices, times or calls.
* *Pictures.* Three identities of syncs, so that the answers of two old ones and a
  new one may come in any order; two pictures, as they are only compared.
* *Instances, stores and calls* of `stores`. Two, used again when nothing refers to
  them: the one in the cache and the one an older timer or call holds. Imports
  are one at a time, as their overlap is `identities_import`.
* *Epoch* cuts the age of a timestamp at a value beyond every maximum, as the
  reset timestamp 0 is beyond any.
* *Symmetry* is used for keys, sessions, pictures, instances, stores and the
  devices of `Identities` in safety runs only; nothing orders them or names one
  of them.
* `Events` names the outside events of a run. `CHECK_DEADLOCK` is left on
  everywhere else: the owner can always do something.

### Fairness

`FairSpec` of the locker uses weak fairness of continuations only. The event
loop runs what is queued; storage answers a request, possibly with a rejection;
a pending timeout fires. It does not force the owner or the end of the process.
`CallsSettle` assumes that the wallet keeps being unlocked, since calls that need
the secret are meant to wait until then.

`Sessions` and `ProfileStores` assume no fairness. Whether a revocation ever
reaches the sessions depends on a wallet that is locked being unlocked again:
the mark in storage comes first and waits for the secret
(`identity/index.js:103`, `storage/index.js:57`), and `RevocationKnown` has the
next process notice if the wait is cut off. So `RevocationEndsSessions` is a
safety property: in a state where nothing is under way any more, neither a mark
nor a `destroy()`, no session is left that a revocation met.

`Fairness` of `Devices` says that two wallets which replicate, and of which one has
something for the other, meet in the end, and that the 10 ms timer fires.
`RevocationReachesDevice` needs no more: neither the mark of the revocation in
storage nor the end of replication has to succeed, and processes may end at any
time.

### Failures the code admits

Some failures are consequences of the order of writes and no property can
forbid them. The properties name exactly these in auxiliary variables and hold
everything else to the promise:

| Name | Where | What stays |
|---|---|---|
| `halfMade` | `identity/index.js:145` | the process ended in `createIdentity`, or its clean-up failed: a descriptor that may lack a device, so that `load()` rejects |
| `halfRemoved` | `identity/index.js:163`, `backup.js:59` | a removal failed after the descriptor, or the unawaited one of the backup: the device key or master key stays, and a second removal finds nothing to do |
| `remarked` | `identity/index.js:103` | the mark of a revocation is written after the removal and brings the descriptor back |
| `orphans` | `identities/index.js:144` | the key of a device whose `createIdentity` failed stays in the DID document |
| `leaked` | `sessions/index.js:71` | storage refused to clean up after a failed `create()` |
| `spoiled` | `sessions/index.js:49`, `:71` | identity and app of `create()` calls that overlapped, or of a cleanup that failed or was cut off: a second session, until nothing of the pair is left |
| `doomed` | `sessions/index.js:89` | is without the sessions that storage refused to remove: the revocation does not end them |
| `doubtful` | `sessions/index.js` | sessions of an earlier process, or that saw an outage, the deletion of their app or a twin |
| `dropped` | `locker/index.js:28` | secrets of processes that ended before `enable()` |
| `refused` | `blob-store.js:114`, `:33` | Infura did not take a picture, and only a warning is printed |
| `silent` | `profile.js:87` | the stored picture is set again: the reference changes, the details do not |

## 4. What is proved

All theorems are over arbitrary constants that satisfy the named assumptions:
`LockAssumption`, `StorageAssumption`, `LockerAssumption`,
`IdleTimerAssumption`, `SessionsAssumption`, `IdentitiesAssumption`,
`DevicesAssumption`, `BlobAssumption`, `ProfileAssumption`. They say that `None`
is not a key, id, picture or passphrase, that calls of locks and storage differ,
that maxima are numbers below `Epoch`, that devices are numbers, and which events
exist. Any number
of concurrent calls is allowed unless a theorem assumes one.

**`LockerProofs`.**

* `TypeCorrect`: the type invariant is inductive through `CallShape`: a call
  about to write holds a secret that is not null.
* `Unlockable` and `UnlockedArmed` rest on `MasterOK`: pristine is the negation
  of enabled, an enabled lock has a record, a pristine wallet has its secret, and
  a call between write and dispatch has a record. Without the last part,
  `enable()` could dispatch for a record that is not there.
* `NobodyStranded` rests on `SemaphoreOK`: callers wait only on an unresolved
  semaphore.
* `SecretIsOne`, `RecordDurable` and `ValuesReadable` share the lemma
  `SameSecret`: no step but a pristine reload changes the secret of the wallet.
* `ImplementsVault` maps every step to a step of `Vault` or a stutter.
* `OpenedByHolder` and `RekeyedByHolder` rest on `HoldersOK`: the record a call has
  read was the record during the call, and what a call configures with was
  verified against such a record.

The other refinements need more than the properties of their component, and
these strengthenings are where the proofs are:

* `ImplementsBook` (in `SessionsProofs`) rests on `LiveOK` alone. Most of
  the proof follows the sessions that `create()` calls hold (`HeldKept`,
  `HeldReturned`). One lemma for each way a session leaves memory, storage or a
  `create()` says what the owner sees of it (`ForgetShown`, `AbandonShown`,
  `ReturnShown`).
* `ImplementsCountdown` (in `IdleTimerProofs`) rests on `ClockOK`, extended to lengths
  over the limit of `setTimeout`, on `Compared` (the comparison made before the
  write still holds after it) and on `InForce` (storage has the maximum in force,
  or the one of a call past its write).
* `ImplementsHoldings` (in `IdentitiesRemovalProofs`) rests on the invariants of both
  modules about identities and on `FreshOK`: a creation finds no entry of the
  store it has not written, so nothing but its own entry makes it held.
* `ImplementsMembership` (in `DevicesProofs`) rests on `IKeys` and
  `NoticeOK`: a key whose removal a wallet is about to notice has left the DID
  document, and a stored mark goes with an identity revoked in memory.
  `HandledTrue` derives from both that replication tells a device nothing else.

**`IdleTimerProofs`.** `TimerTypeCorrect`; `TruthfulTimer`, with `ClockOK` (the
fuse is the length minus the age), for any number of calls; `StoredInForce`,
`PendingWithin` and `ImplementsCountdown` for `setMaxTime` calls one after the other,
which is what the finding shows to be necessary.

**`SessionsProofs`.** `SessionsTypeCorrect`. `LiveStored`, by `LiveOK`: a session
being cleaned up has left memory. `DestroyedStays`: what is stored without being
live is being cleaned up or was refused. `OneSession`, for any number of calls and
with outages, by `OneOK`: outside `spoiled` no two sessions that a reload can
restore share identity and app, a `create()` past its search has no other
session to find, and a session left in storage alone is being cleaned up by a
call of its own identity and app. `RevocationEnds`, by `DoomedOK`: a doomed session
waits for the mark of its identity or is held by a `destroy()`. `LiveLinked`, by
`LinkOK`: a session that is not doubtful is linked, held by a `create()` that has yet to link it, or
held by a `destroy()`. Its lemmas follow each of the three through a step: a link
that is deleted starts a `destroy()`, and a `create()` that gives up takes its
session out of memory. `LoadRepairs`, by `RepairOK`: since the load, a session of a removed
or revoked identity is held by a `destroy()` or waits for the mark, and an app
listed without a session waits for one of the unlinks.

**`IdentitiesProofs`.** `IdentitiesTypeCorrect` and `RevocationKnown` for any
number of calls. `IdentityStored` and `DescriptorsLoad` assume `[]Apart`: calls on
different identities overlap in any way, calls on one identity do not, which
`identities_import` shows to be necessary (the device key of the first import is
overwritten). They rest on `KnownOK` (whatever an identity is written for exists),
`MakingOK` (a call making an identity has none in memory, and has written what
its wait says) and `LoadableOK` (the device is in the store before the last
wait of a creation, and the descriptor is gone during a removal, unless a late
mark brought it back).

**`IdentitiesRemovalProofs`**, under `[]Apart` as well: `OthersStay`, `OnlyCall` and
`OthersInFlight` say that a step of a call leaves the other identities, and
the calls on them, as they are.
`LeavesNothing`, by `TidyOK` and `PhaseOK`: a creation starts from nothing in storage, and a
removal has removed whatever comes before its wait. `KeysOwned`, by `KeysOK`: the
key of a revoked or marked device has left the DID document, an identity of the
wallet is stored or has lost its key, and an import brings a new device.

**`DevicesProofs`**, for any number of devices, writes and calls.
`DevicesTypeCorrect`. `RevokedKeyless`, by `IKeys`: a call that waits for its write
has removed the key, and a key never comes back. `RevocationTold`, by `ITold`: a
wallet that listens has an entry of its own device, so that its turn to revoked
is a step of that wallet. `RevocationsStick`, by `ISticks`: what each writer had is closed under
having, writes of one device have different times, and a call that will write a
snapshot knows no later entry of it than the ones its device has.

**`ProfileProofs`**, for any number of pictures, syncs and calls.
`ProfileTypeCorrect`; `StoredShown` and `SyncingInFlight` together, by `IShows`: what
is being synced is the stored picture, what has a URL is pinned, and the details
were computed when reference and store agreed. `DetailsFollowing` and `UrlServed`
need only the types: every step computes the details, puts a picture, or leaves
alone what they say.

**`ProfileStoresProofs`**, for any number of instances, stores and calls, with
every overlap and rejection. `StoresTypeCorrect` and `CacheFresh`, by `ICache`: a
call holds the instance and store that its wait needs (`Holds`), and a store in
the cache of an instance is a store of that instance (`OwnerOK`), so that the
close which takes it out of the cache takes it out of the right one.

**Only model-checked.** Liveness (`EventuallyLocked`, `CallsSettle`,
`RevocationReachesDevice`), which is beyond the
prover. Beyond the prover as well are ENABLED, induction over data and RECURSIVE
operators; the modules use none of them. Every invariant, every action property
and every refinement that a passing run checks is proved; the abstract
specifications state safety only.

## 5. What is not modelled

* `Storage.clear()`, which nothing calls, and `list()` on its own: loading with
  it is part of the actions that load.
* The score of passphrases, key generation, hashing and formats: pure
  functions, mostly over libraries. Encryption is modelled by which key opens what.
* The values of profile properties and of device infos: only which write wins.
* `del()` of the blob store, which nothing calls, and the answer of Infura with
  another hash, which is one of its failures.
* The interleaving of `updateInfo()` and `setProperty()` inside OrbitDB: a write is
  in the index and its event is emitted in one turn.
* A re-import of an identity while old session listeners remain. `Sessions` tells
  identities apart by their ids; a second object of one identity, beside calls
  and listeners that hold the first, would need objects as a state of their own.
* Wallet, errors, assertions and demo: no state of their own.

## 6. Plan

Done, in this order: secret, lock, storage and locker with the refinement; idle
timer; apps and sessions; identities; devices; profile and blob store; OrbitDB
instances and profile stores; proofs of each; the abstract specifications of
sessions, idle timer, identities and devices, with their refinements.

Left, by importance:

1. Re-import with the session listeners of the previous identity
   (`sessions/index.js:125`), composing `Sessions` with the lifecycle of
   `Identities`; then a proof that `Identities` keeps what `Sessions` assumes of it.
2. Composition of `OrbitDb` with `Identities`, so that `closed` becomes derived.
