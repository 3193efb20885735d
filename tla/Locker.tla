-------------------------------- MODULE Locker --------------------------------
(***************************************************************************)
(* The locker (locker/index.js) over its master lock, the idle timer, the  *)
(* secret and the encrypted storage: every entry point the wallet's owner  *)
(* can call, the listeners that connect the components, and the end of the *)
(* process followed by a new one on the same database.                     *)
(*                                                                         *)
(* The idle timer is reduced to whether its timeout is armed; IdleTimer    *)
(* models its clock.                                                       *)
(***************************************************************************)
EXTENDS PassphraseLock, Storage

ASSUME LockerAssumption == LockCalls \intersect StorageCalls = {}

VARIABLES pristine, \* #pristine
          armed,    \* whether the idle timer has a pending timeout
          dropped   \* secrets of earlier processes that ended pristine

lockerVars == <<pristine, armed, dropped>>
vars == <<secretVars, lockVars, storageVars, lockerVars>>

\* The key every encrypted value is expected to be under.
WalletSecret == IF record # None THEN record.secret ELSE secret

-----------------------------------------------------------------------------
(* The constructor: pristine iff the master lock is not enabled; a secret  *)
(* is generated then, otherwise the idle timer starts on a locked wallet.  *)

Init ==
    /\ LockInit(None)
    /\ StorageInit
    /\ secret \in Keys
    /\ resolved = TRUE
    /\ waiting = {}
    /\ released = {}
    /\ pristine = TRUE
    /\ armed = FALSE
    /\ dropped = {}

\* Mutant of Reload: the new process does not find the lock record.
ReloadForgetsLock ==
    /\ secret' \in Keys \ (dropped \union {secret, WalletSecret})
    /\ dropped' = IF record = None THEN dropped \union {secret} ELSE dropped
    /\ enabled' = FALSE
    /\ pristine' = TRUE
    /\ armed' = FALSE
    /\ resolved' = TRUE
    /\ waiting' = {}
    /\ released' = {}
    /\ call' = [c \in LockCalls |-> NoCall]
    /\ io' = [c \in StorageCalls |-> NoIo]
    /\ UNCHANGED <<record, data>>

\* The process ends at any point and the wallet is created again.  Calls in
\* flight are lost.  A generated secret was never generated before: the bound
\* on pristine reloads is the number of Keys.
Reload ==
    /\ IF record = None
         THEN /\ secret' \in Keys \ (dropped \union {secret})
              /\ dropped' = dropped \union {secret}
         ELSE /\ secret' = None
              /\ UNCHANGED dropped
    /\ enabled' = (record # None)
    /\ pristine' = ~enabled'
    /\ armed' = ~pristine'
    /\ resolved' = pristine'
    /\ waiting' = {}
    /\ released' = {}
    /\ call' = [c \in LockCalls |-> NoCall]
    /\ io' = [c \in StorageCalls |-> NoIo]
    /\ UNCHANGED <<record, data>>

-----------------------------------------------------------------------------
(* Listeners.                                                              *)

\* Mutant of SecretDefinedChange: nobody restarts the timer on unlock.
SecretChangeIgnored == UNCHANGED armed

\* handleSecretDefinedChange: the timer restarts when the wallet unlocks.
SecretDefinedChange ==
    armed' = IF secret = None /\ secret' # None THEN TRUE ELSE armed

\* Mutant of MasterLockEnabledChange: enabling the lock does not start the timer.
EnabledWithoutTimer ==
    /\ pristine' = ~enabled'
    /\ UNCHANGED armed

\* handleMasterLockEnabledChange, dispatched by the end of enable().
MasterLockEnabledChange ==
    /\ pristine' = ~enabled'
    /\ armed' = (armed \/ enabled')

\* Steps of the lock's calls that dispatch nothing.
LockCallStep(c) ==
    /\ \/ \E p \in Strong : Enable(c, p)
       \/ \E p \in Strong, q \in Passphrases : Update(c, p, q)
       \/ \E q \in Passphrases : Unlock(c, q)
       \/ ReadRecord(c)
       \/ AwaitSecret(c)
       \/ CaptureSecret(c)
       \/ PutRecord(c)
       \/ StorageFails(c)
    /\ UNCHANGED <<storageVars, lockerVars>>

UnlockStep(c) ==
    /\ DecryptRecord(c)
    /\ SecretDefinedChange
    /\ UNCHANGED <<storageVars, pristine, dropped>>

EnabledStep(c) ==
    /\ DispatchEnabled(c)
    /\ MasterLockEnabledChange
    /\ UNCHANGED <<storageVars, dropped>>

StorageStep(c) ==
    /\ \/ \E k \in DataKeys : SetEncrypted(c, k) \/ GetEncrypted(c, k)
       \/ Encrypt(c)
       \/ PutValue(c)
       \/ Decrypt(c)
    /\ UNCHANGED <<lockVars, lockerVars>>

RemoveStep ==
    /\ \E k \in DataKeys : RemoveValue(k)
    /\ UNCHANGED <<lockVars, lockerVars>>

\* Mutant of Lock: a pristine wallet can be locked.
LockPristine ==
    /\ Unset
    /\ SecretDefinedChange
    /\ UNCHANGED <<lockVars, storageVars, pristine, dropped>>

\* lock() throws PristineError before the master lock is configured.
Lock ==
    /\ ~pristine
    /\ Unset
    /\ SecretDefinedChange
    /\ UNCHANGED <<lockVars, storageVars, pristine, dropped>>

\* Mutant of IdleTimeout: the listener does not look at pristine.
IdleTimeoutPristine ==
    /\ armed
    /\ armed' = FALSE
    /\ Unset
    /\ UNCHANGED <<lockVars, storageVars, pristine, dropped>>

\* The idle timer fires and disarms itself before its listener locks.
IdleTimeout ==
    /\ armed
    /\ armed' = FALSE
    /\ IF pristine THEN UNCHANGED secretVars ELSE Unset
    /\ UNCHANGED <<lockVars, storageVars, pristine, dropped>>

\* idleTimer.restart(), called by the owner on user activity.
RestartIdleTimer ==
    /\ armed' = TRUE
    /\ UNCHANGED <<secretVars, lockVars, storageVars, pristine, dropped>>

-----------------------------------------------------------------------------
Next ==
    \/ \E c \in LockCalls : LockCallStep(c) \/ UnlockStep(c) \/ EnabledStep(c)
    \/ \E c \in StorageCalls : StorageStep(c)
    \/ RemoveStep
    \/ Lock
    \/ IdleTimeout
    \/ RestartIdleTimer
    \/ Reload

Spec == Init /\ [][Next]_vars

-----------------------------------------------------------------------------
(* Fairness: the event loop runs every queued continuation, storage and    *)
(* scrypt answer, and a pending timeout fires.  Nothing makes the owner    *)
(* call an entry point or the process end.                                 *)

LockContinuation(c) == call[c].pc # "idle" /\ (LockCallStep(c) \/ UnlockStep(c) \/ EnabledStep(c))
StorageContinuation(c) == io[c].pc # "idle" /\ StorageStep(c)

Fairness ==
    /\ \A c \in LockCalls : WF_vars(LockContinuation(c))
    /\ \A c \in StorageCalls : WF_vars(StorageContinuation(c))
    /\ WF_vars(IdleTimeout)

FairSpec == Spec /\ Fairness

-----------------------------------------------------------------------------
TypeOK ==
    /\ SecretTypeOK
    /\ LockTypeOK
    /\ StorageTypeOK
    /\ pristine \in BOOLEAN
    /\ armed \in BOOLEAN
    /\ dropped \subseteq Keys \union {None}

(* Safety. *)

\* A caller of getAsync() is suspended on the semaphore that the next set()
\* resolves, or already runnable: replacing the semaphore in unset() never
\* strands a caller, and the semaphore is resolved exactly while there is a
\* secret.
NoStrandedCaller ==
    /\ resolved <=> Has
    /\ \A c \in LockCalls : call[c].pc = "secret" => c \in waiting \union released
    /\ \A c \in StorageCalls :
          io[c].pc \in {"encrypt", "decrypt"} => c \in waiting \union released

\* However enable, update, unlock, lock and reload interleave, the secret in
\* memory, in the lock record and in the hands of every call in flight is
\* one: no passphrase change ever re-keys the wallet.
OneSecret ==
    /\ secret \in {None, WalletSecret}
    /\ \A c \in LockCalls :
          /\ call[c].key \in {None, WalletSecret}
          /\ call[c].rec # None => call[c].rec.secret = WalletSecret
    /\ \A c \in StorageCalls : io[c].pc = "put" => io[c].key = WalletSecret

\* What the wallet encrypted, it can decrypt after an unlock: every encrypted
\* value is under the wallet's secret, except those written by a process that
\* ended before its master lock was enabled.
Readable ==
    /\ \A k \in DataKeys : data[k] \in {None, WalletSecret} \union dropped
    /\ \A c \in StorageCalls :
          io[c].pc = "decrypt" => io[c].key \in {WalletSecret} \union dropped
    /\ WalletSecret \notin dropped

\* An unlocked wallet whose master lock is enabled always has a timeout
\* pending that will lock it, whichever way it came to be unlocked.
UnlockedIsArmed == ~pristine /\ secret # None => armed

\* A wallet without its secret can get it back: it has a record, its lock
\* accepts unlock(), and the locker does not report itself pristine.
LockedIsUnlockable == secret = None => record # None /\ enabled /\ ~pristine

(* Actions. *)

\* Once there is a lock record, no step removes it or changes the secret it
\* holds: what was encrypted stays decryptable for the rest of time.
RecordIsDurable ==
    [][record # None => record' # None /\ record'.secret = record.secret]_vars

\* assertDisabled in enable(), and the test "should fail if already enabled":
\* an enable() never configures a lock that is already enabled.
EnableOnlyWhenDisabled ==
    [][\A c \in LockCalls :
         call[c].pc = "put" /\ call[c].pass = None /\ call'[c].pc = "stored"
           => ~enabled]_vars

(* Liveness. *)

\* An unlocked wallet with an enabled lock is locked once its owner is idle.
EventuallyLocked == (~pristine /\ secret # None) ~> (secret = None)

\* Provided the wallet keeps being unlocked, no call waits forever: a lock
\* that replaces the semaphore while calls wait on it loses none of them.
CallsSettle ==
    []<>(secret # None) =>
        /\ \A c \in LockCalls : call[c].pc # "idle" ~> call[c].pc = "idle"
        /\ \A c \in StorageCalls : io[c].pc # "idle" ~> io[c].pc = "idle"

-----------------------------------------------------------------------------
\* Refinement: the locker is a vault whose secret is fixed when it is closed
\* for the first time.
V == INSTANCE Vault WITH durable <- IF record = None THEN None ELSE record.secret,
                         open <- secret
VaultSpec == V!Spec
=============================================================================
