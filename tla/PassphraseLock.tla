---------------------------- MODULE PassphraseLock ----------------------------
(***************************************************************************)
(* The passphrase lock (locker/locks/passphrase.js): its record in storage *)
(* (the wallet secret encrypted with a key derived from the passphrase),   *)
(* its enabled flag, and the asynchronous enable, update and unlock calls. *)
(*                                                                         *)
(* A call is a record: where its continuation stands (pc), the passphrase  *)
(* it unlocks with (pass, None for enable), the one it configures (new,    *)
(* None for unlock), the lock record it read (rec) and the secret it       *)
(* captured (key).  Between two pcs any other call may run.                *)
(*                                                                         *)
(* The lock is the master lock, the only role a wallet gives it, so        *)
(* disable() always throws InvalidMasterLockOperationError and is no step. *)
(***************************************************************************)
EXTENDS Secret

CONSTANTS Passphrases, \* what a user may type
          Strong,      \* the ones checkPassphraseStrength scores >= 0.5
          LockCalls    \* identities of concurrent calls of the lock

LockRecords == [pass : Passphrases, secret : Keys]

ASSUME LockAssumption ==
    /\ Strong \subseteq Passphrases
    /\ LockCalls \subseteq Callers
    /\ None \notin Keys \union Passphrases \union LockRecords

VARIABLES enabled, \* #enabled
          record,  \* the value under STORAGE_KEY, None when there is none
          call     \* the calls in flight

lockVars == <<enabled, record, call>>

LockPcs == {"idle", "read", "decrypt", "configure", "secret", "put", "stored"}

LockCallRecords ==
    [pc : LockPcs, pass : Passphrases \union {None}, new : Strong \union {None},
     rec : LockRecords \union {None}, key : Keys \union {None}]

\* What a call holds on to at each pc.
CallShape(r) ==
    /\ r.pc = "decrypt" => r.rec # None
    /\ r.pc \in {"configure", "secret", "put"} => r.new # None
    /\ r.pc = "put" => r.key # None

NoCall == [pc |-> "idle", pass |-> None, new |-> None, rec |-> None, key |-> None]

LockInit(rec) ==
    /\ record = rec
    /\ enabled = (rec # None)
    /\ call = [c \in LockCalls |-> NoCall]

-----------------------------------------------------------------------------
(* Calls.  A call whose assertions or validation fail throws without any   *)
(* other effect, so it is not a step.                                      *)

Goto(c, next) == call' = [call EXCEPT ![c] = next]

\* A call settles, fulfilled or rejected.
Settle(c) == Goto(c, NoCall)

\* A call of the lock begins at pc, with the passphrases it was given.
Start(c, pc, pass, new) ==
    /\ call[c] = NoCall
    /\ Goto(c, [pc |-> pc, pass |-> pass, new |-> new, rec |-> None, key |-> None])
    /\ UNCHANGED <<enabled, record, secretVars>>

\* A call in flight goes on to pc, holding on to rec and key.
Continue(c, pc, rec, key) ==
    Goto(c, [pc |-> pc, pass |-> call[c].pass, new |-> call[c].new, rec |-> rec, key |-> key])

Enable(c, new) ==
    /\ ~enabled
    /\ new \in Strong
    /\ Start(c, "configure", None, new)

\* Mutant of Update: the current passphrase is not verified.
UpdateUnverified(c, new, pass) ==
    /\ enabled
    /\ new \in Strong
    /\ Start(c, "configure", pass, new)

\* The master lock verifies the current passphrase by unlocking with it.
Update(c, new, pass) ==
    /\ enabled
    /\ new \in Strong
    /\ Start(c, "read", pass, new)

Unlock(c, pass) ==
    /\ enabled
    /\ Start(c, "read", pass, None)

-----------------------------------------------------------------------------
(* Continuations.                                                          *)

\* Destructuring a missing record throws.
ReadRecord(c) ==
    /\ call[c].pc = "read"
    /\ IF record = None
         THEN Settle(c)
         ELSE Continue(c, "decrypt", record, None)
    /\ UNCHANGED <<enabled, record, secretVars>>

\* Mutant of DecryptRecord: a decryption that is not authenticated accepts any
\* passphrase.
DecryptUnauthenticated(c) ==
    /\ call[c].pc = "decrypt"
    /\ UNCHANGED <<enabled, record>>
    /\ Set(call[c].rec.secret)
    /\ IF call[c].new = None
         THEN Settle(c)
         ELSE Continue(c, "configure", None, None)

\* The derived key opens the record it was read from, or the call rejects.
\* With the secret set, unlock() is done and update() goes on to configure.
DecryptRecord(c) ==
    /\ call[c].pc = "decrypt"
    /\ UNCHANGED <<enabled, record>>
    /\ \/ /\ call[c].pass = call[c].rec.pass
          /\ Set(call[c].rec.secret)
          /\ IF call[c].new = None
               THEN Settle(c)
               ELSE Continue(c, "configure", None, None)
       \/ /\ call[c].pass # call[c].rec.pass
          /\ Settle(c)
          /\ UNCHANGED secretVars

AwaitSecret(c) ==
    /\ call[c].pc = "configure"
    /\ GetAsync(c)
    /\ Continue(c, "secret", None, None)
    /\ UNCHANGED <<enabled, record>>

\* Encrypting null throws, so a call that resumes after a lock rejects.
CaptureSecret(c) ==
    /\ call[c].pc = "secret"
    /\ Resume(c)
    /\ IF Has
         THEN Continue(c, "put", None, secret)
         ELSE Settle(c)
    /\ UNCHANGED <<enabled, record>>

PutRecord(c) ==
    /\ call[c].pc = "put"
    /\ record' = [pass |-> call[c].new, secret |-> call[c].key]
    /\ IF call[c].pass = None
         THEN Continue(c, "stored", None, None)
         ELSE Settle(c)
    /\ UNCHANGED <<enabled, secretVars>>

\* Storage rejects: nothing is written and the call rejects.
StorageFails(c) ==
    /\ call[c].pc \in {"read", "put"}
    /\ Settle(c)
    /\ UNCHANGED <<enabled, record, secretVars>>

\* enable() resumes after the write; the locker listens to this dispatch.
DispatchEnabled(c) ==
    /\ call[c].pc = "stored"
    /\ enabled' = TRUE
    /\ Settle(c)
    /\ UNCHANGED <<record, secretVars>>

LockTypeOK ==
    /\ enabled \in BOOLEAN
    /\ record \in LockRecords \union {None}
    /\ call \in [LockCalls -> LockCallRecords]
    /\ \A c \in LockCalls : CallShape(call[c])
=============================================================================
