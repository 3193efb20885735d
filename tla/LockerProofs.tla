----------------------------- MODULE LockerProofs -----------------------------
(***************************************************************************)
(* Theorems about Locker and LockerHistory, for every set of keys,         *)
(* passphrases, calls and database keys.  Each invariant is proved on top  *)
(* of the ones before it.                                                  *)
(***************************************************************************)
EXTENDS LockerHistory, TLAPS

-----------------------------------------------------------------------------
(* Operators the actions are built from.                                   *)

LEMMA NoCallType == NoCall \in LockCallRecords /\ CallShape(NoCall)
BY DEF NoCall, LockCallRecords, LockPcs, CallShape

\* The calls stay well formed when one of them moves to a well-formed record.
CallsOK == call \in [LockCalls -> LockCallRecords] /\ \A c \in LockCalls : CallShape(call[c])

LEMMA GotoType ==
    ASSUME CallsOK, NEW c \in LockCalls,
           NEW next \in LockCallRecords, CallShape(next), Goto(c, next)
    PROVE  CallsOK'
<1>1. call' \in [LockCalls -> LockCallRecords]
  BY DEF CallsOK, Goto
<1>2. ASSUME NEW d \in LockCalls PROVE CallShape(call'[d])
  <2>1. call'[d] = IF d = c THEN next ELSE call[d]
    BY DEF CallsOK, Goto
  <2>2. QED
    BY <2>1 DEF CallsOK
<1>3. QED
  BY <1>1, <1>2 DEF CallsOK

LEMMA SettleType ==
    ASSUME CallsOK, NEW c \in LockCalls, Settle(c)
    PROVE  CallsOK'
BY NoCallType, GotoType DEF Settle

LEMMA StartType ==
    ASSUME CallsOK, NEW c \in LockCalls,
           NEW pass \in Passphrases \union {None}, NEW new \in Strong \union {None},
           NEW pc, pc = "read" \/ (pc = "configure" /\ new # None),
           Start(c, pc, pass, new)
    PROVE  CallsOK'
<1> DEFINE next == [pc |-> pc, pass |-> pass, new |-> new, rec |-> None, key |-> None]
<1>1. next \in LockCallRecords /\ CallShape(next)
  BY DEF LockCallRecords, LockPcs, CallShape
<1>2. QED
  BY <1>1, GotoType DEF Start

LEMMA ContinueType ==
    ASSUME CallsOK, NEW c \in LockCalls, NEW pc \in LockPcs,
           NEW rec \in LockRecords \union {None}, NEW key \in Keys \union {None},
           pc = "decrypt" => rec # None,
           pc \in {"configure", "secret", "put"} => call[c].new # None,
           pc = "put" => key # None,
           Continue(c, pc, rec, key)
    PROVE  CallsOK'
<1> DEFINE next == [pc |-> pc, pass |-> call[c].pass, new |-> call[c].new,
                    rec |-> rec, key |-> key]
<1>1. call[c] \in LockCallRecords
  BY DEF CallsOK
<1>2. next \in LockCallRecords
  BY <1>1 DEF LockCallRecords
<1>3. CallShape(next)
  BY DEF CallShape
<1>4. QED
  BY <1>2, <1>3, GotoType DEF Continue

LEMMA IoGotoType ==
    ASSUME StorageTypeOK, NEW c \in StorageCalls, NEW next \in IoRecords, IoGoto(c, next)
    PROVE  io' \in [StorageCalls -> IoRecords]
BY DEF StorageTypeOK, IoGoto

LEMMA NoIoType == NoIo \in IoRecords
BY DEF NoIo, IoRecords

LEMMA SecretType ==
    ASSUME SecretTypeOK
    PROVE  /\ \A k \in Keys : Set(k) => SecretTypeOK'
           /\ Unset => SecretTypeOK'
           /\ \A c \in Callers : GetAsync(c) \/ Resume(c) => SecretTypeOK'
           /\ UNCHANGED secretVars => SecretTypeOK'
BY DEF SecretTypeOK, Set, Unset, GetAsync, Resume, secretVars, Has

-----------------------------------------------------------------------------
\* The state of the locker keeps its type through every call, listener and
\* reload; in particular no call in flight ever holds a secret that is null.
THEOREM TypeCorrect == Spec => []TypeOK
<1>1. Init => TypeOK
  BY LockAssumption, StorageAssumption, NoCallType, NoIoType
     DEF Init, TypeOK, SecretTypeOK, LockTypeOK, StorageTypeOK, LockInit, StorageInit
<1>2. TypeOK /\ [Next]_vars => TypeOK'
  <2> SUFFICES ASSUME TypeOK, [Next]_vars PROVE TypeOK'
    OBVIOUS
  <2>a. SecretTypeOK /\ LockTypeOK /\ StorageTypeOK
    BY DEF TypeOK
  <2>b. CallsOK
    BY <2>a DEF LockTypeOK, CallsOK
  <2>c. ASSUME NEW c \in LockCalls
        PROVE  call[c] \in LockCallRecords /\ CallShape(call[c]) /\ c \in Callers
    BY <2>b, LockAssumption DEF CallsOK
  <2>1. ASSUME NEW c \in LockCalls, LockCallStep(c) PROVE TypeOK'
    <3>0. UNCHANGED <<storageVars, lockerVars>>
      BY <2>1 DEF LockCallStep
    <3> SUFFICES SecretTypeOK' /\ enabled' \in BOOLEAN /\ record' \in LockRecords \union {None}
                 /\ CallsOK'
      BY <3>0, <2>a DEF TypeOK, LockTypeOK, CallsOK, StorageTypeOK, storageVars, lockerVars
    <3>1. ASSUME NEW p \in Strong, Enable(c, p) PROVE CallsOK'
      BY <3>1, <2>b, LockAssumption, StartType DEF Enable
    <3>2. ASSUME NEW p \in Strong, NEW q \in Passphrases, Update(c, p, q) PROVE CallsOK'
      BY <3>2, <2>b, StartType DEF Update
    <3>3. ASSUME NEW q \in Passphrases, Unlock(c, q) PROVE CallsOK'
      BY <3>3, <2>b, StartType DEF Unlock
    <3>4. ASSUME ReadRecord(c) PROVE CallsOK'
      BY <3>4, <2>a, <2>b, SettleType, ContinueType DEF ReadRecord, LockTypeOK, LockPcs
    <3>5. ASSUME AwaitSecret(c) PROVE CallsOK'
      BY <3>5, <2>b, <2>c, ContinueType DEF AwaitSecret, LockPcs, CallShape
    <3>6. ASSUME CaptureSecret(c) PROVE CallsOK'
      BY <3>6, <2>a, <2>b, <2>c, SettleType, ContinueType
         DEF CaptureSecret, SecretTypeOK, LockPcs, CallShape, Has
    <3>7. ASSUME PutRecord(c) PROVE CallsOK' /\ record' \in LockRecords
      <4>1. CallsOK'
        BY <3>7, <2>b, <2>c, SettleType, ContinueType DEF PutRecord, LockPcs
      <4>2. call[c].new \in Strong /\ call[c].key \in Keys
        BY <3>7, <2>c DEF PutRecord, LockCallRecords, CallShape
      <4>3. QED
        BY <3>7, <4>1, <4>2, LockAssumption DEF PutRecord, LockRecords
    <3>8. ASSUME StorageFails(c) PROVE CallsOK'
      BY <3>8, <2>b, SettleType DEF StorageFails
    <3>9. QED
      <4>1. CASE \/ \E p \in Strong : Enable(c, p)
                 \/ \E p \in Strong, q \in Passphrases : Update(c, p, q)
                 \/ \E q \in Passphrases : Unlock(c, q)
        <5>1. UNCHANGED <<enabled, record, secretVars>>
          BY <4>1 DEF Enable, Update, Unlock, Start
        <5>2. QED
          BY <4>1, <5>1, <2>a, <3>1, <3>2, <3>3, SecretType DEF LockTypeOK
      <4>2. CASE ReadRecord(c) \/ PutRecord(c) \/ StorageFails(c)
        BY <4>2, <2>a, <3>4, <3>7, <3>8, SecretType
           DEF ReadRecord, PutRecord, StorageFails, LockTypeOK
      <4>3. CASE AwaitSecret(c) \/ CaptureSecret(c)
        BY <4>3, <2>a, <2>c, <3>5, <3>6, SecretType DEF AwaitSecret, CaptureSecret, LockTypeOK
      <4>4. QED
        BY <2>1, <4>1, <4>2, <4>3 DEF LockCallStep
  <2>2. ASSUME NEW c \in LockCalls, UnlockStep(c) PROVE TypeOK'
    <3>1. DecryptRecord(c) /\ call[c].rec \in LockRecords
      BY <2>2, <2>c DEF UnlockStep, DecryptRecord, LockCallRecords, CallShape
    <3>2. SecretTypeOK'
      BY <3>1, <2>a, SecretType DEF DecryptRecord, LockRecords
    <3>3. CallsOK'
      BY <3>1, <2>b, SettleType, ContinueType DEF DecryptRecord, LockPcs
    <3>4. QED
      BY <2>2, <2>a, <3>1, <3>2, <3>3
         DEF UnlockStep, DecryptRecord, SecretDefinedChange, TypeOK, LockTypeOK, CallsOK,
             StorageTypeOK, storageVars
  <2>3. ASSUME NEW c \in LockCalls, EnabledStep(c) PROVE TypeOK'
    <3>1. CallsOK'
      BY <2>3, <2>b, SettleType DEF EnabledStep, DispatchEnabled
    <3>2. SecretTypeOK'
      BY <2>3, <2>a, SecretType DEF EnabledStep, DispatchEnabled
    <3>3. QED
      BY <2>3, <2>a, <3>1, <3>2
         DEF EnabledStep, DispatchEnabled, MasterLockEnabledChange, TypeOK, LockTypeOK,
             CallsOK, StorageTypeOK, storageVars
  <2>4. ASSUME NEW c \in StorageCalls, StorageStep(c) PROVE TypeOK'
    <3>0. UNCHANGED <<lockVars, lockerVars>> /\ c \in Callers /\ io[c] \in IoRecords
      BY <2>4, <2>a, StorageAssumption DEF StorageStep, StorageTypeOK
    <3> SUFFICES SecretTypeOK' /\ StorageTypeOK'
      BY <3>0, <2>a DEF TypeOK, LockTypeOK, lockVars, lockerVars
    <3>1. ASSUME NEW k \in DataKeys, SetEncrypted(c, k) PROVE SecretTypeOK' /\ StorageTypeOK'
      <4>1. [pc |-> "encrypt", at |-> k, key |-> None] \in IoRecords
        BY DEF IoRecords
      <4>2. QED
        BY <3>0, <3>1, <4>1, <2>a, SecretType, IoGotoType DEF SetEncrypted, StorageTypeOK
    <3>2. ASSUME NEW k \in DataKeys, GetEncrypted(c, k) PROVE SecretTypeOK' /\ StorageTypeOK'
      <4>1. [pc |-> "decrypt", at |-> k, key |-> data[k]] \in IoRecords
        BY <2>a DEF IoRecords, StorageTypeOK
      <4>2. QED
        BY <3>0, <3>2, <4>1, <2>a, SecretType, IoGotoType DEF GetEncrypted, StorageTypeOK
    <3>3. ASSUME Encrypt(c) PROVE SecretTypeOK' /\ StorageTypeOK'
      <4>1. Has => [pc |-> "put", at |-> io[c].at, key |-> secret] \in IoRecords
        BY <3>0, <2>a DEF IoRecords, SecretTypeOK
      <4>2. io' \in [StorageCalls -> IoRecords]
        BY <3>3, <4>1, <2>a, NoIoType, IoGotoType DEF Encrypt
      <4>3. QED
        BY <3>0, <3>3, <4>2, <2>a, SecretType DEF Encrypt, StorageTypeOK
    <3>4. ASSUME PutValue(c) PROVE SecretTypeOK' /\ StorageTypeOK'
      <4>1. data' \in [DataKeys -> Keys \union {None}]
        BY <3>0, <3>4, <2>a DEF PutValue, StorageTypeOK, IoRecords
      <4>2. io' \in [StorageCalls -> IoRecords]
        BY <3>4, <2>a, NoIoType, IoGotoType DEF PutValue
      <4>3. QED
        BY <3>4, <4>1, <4>2, <2>a, SecretType DEF PutValue, StorageTypeOK
    <3>5. ASSUME Decrypt(c) PROVE SecretTypeOK' /\ StorageTypeOK'
      <4>1. io' \in [StorageCalls -> IoRecords]
        BY <3>5, <2>a, NoIoType, IoGotoType DEF Decrypt
      <4>2. QED
        BY <3>0, <3>5, <4>1, <2>a, SecretType DEF Decrypt, StorageTypeOK
    <3>6. QED
      BY <2>4, <3>1, <3>2, <3>3, <3>4, <3>5 DEF StorageStep
  <2>5. CASE RemoveStep
    <3>1. StorageTypeOK'
      BY <2>5, <2>a DEF RemoveStep, RemoveValue, StorageTypeOK
    <3>2. QED
      BY <2>5, <3>1, <2>a, SecretType
         DEF RemoveStep, RemoveValue, TypeOK, LockTypeOK, lockVars, lockerVars
  <2>6. CASE Lock \/ IdleTimeout \/ RestartIdleTimer
    <3>1. SecretTypeOK'
      BY <2>6, <2>a, SecretType DEF Lock, IdleTimeout, RestartIdleTimer
    <3>2. QED
      BY <2>6, <3>1
         DEF Lock, IdleTimeout, RestartIdleTimer, SecretDefinedChange, TypeOK, LockTypeOK,
             StorageTypeOK, lockVars, storageVars
  <2>7. CASE Reload
    <3>1. CallsOK' /\ io' \in [StorageCalls -> IoRecords]
      BY <2>7, NoCallType, NoIoType DEF Reload, CallsOK
    <3>2. enabled' \in BOOLEAN /\ pristine' \in BOOLEAN /\ armed' \in BOOLEAN /\ resolved' \in BOOLEAN
      BY <2>7 DEF Reload
    <3>3. secret' \in Keys \union {None} /\ dropped' \subseteq Keys \union {None}
      BY <2>7, <2>a DEF Reload, SecretTypeOK, TypeOK
    <3>4. QED
      BY <2>7, <3>1, <3>2, <3>3, <2>a DEF SecretTypeOK, Reload, CallsOK, TypeOK, LockTypeOK, StorageTypeOK
  <2>8. CASE UNCHANGED vars
    BY <2>8 DEF vars, secretVars, lockVars, storageVars, lockerVars, TypeOK, SecretTypeOK,
                LockTypeOK, StorageTypeOK
  <2>9. QED
    BY <2>1, <2>2, <2>3, <2>4, <2>5, <2>6, <2>7, <2>8 DEF Next
<1>3. QED
  BY <1>1, <1>2, PTL DEF Spec

-----------------------------------------------------------------------------
(* What the steps of a call change, as far as the invariants below see it. *)

\* A waiting caller stays reachable, and nobody waits on a resolved semaphore.
StaysReachable(C) ==
    /\ \A d \in C : d \in waiting \union released => d \in waiting' \union released'
    /\ (resolved => waiting = {}) => (resolved' => waiting' = {})

LEMMA PutRecordEffect ==
    ASSUME TypeOK, NEW c \in LockCalls, PutRecord(c)
    PROVE  /\ call[c].key \in Keys
           /\ record' # None
           /\ record'.secret = call[c].key
<1>1. call[c] \in LockCallRecords /\ CallShape(call[c])
  BY DEF TypeOK, LockTypeOK
<1>2. call[c].new \in Passphrases /\ call[c].key \in Keys
  BY <1>1, LockAssumption DEF PutRecord, LockCallRecords, CallShape
<1>3. QED
  BY <1>2, LockAssumption DEF PutRecord, LockRecords

LEMMA LockCallEffect ==
    ASSUME TypeOK, NEW c \in LockCalls, LockCallStep(c)
    PROVE  /\ UNCHANGED <<enabled, secret, resolved, storageVars, lockerVars>>
           /\ \/ record' = record /\ call'[c].pc # "stored"
              \/ PutRecord(c)
           /\ \A d \in LockCalls \ {c} : call'[d] = call[d]
           /\ call'[c].rec \in {None, record}
           /\ call'[c].key \in {None, secret}
           /\ call'[c].pc = "secret" => c \in waiting' \union released'
           /\ StaysReachable(Callers \ {c})
<1>0. call \in [LockCalls -> LockCallRecords]
  BY DEF TypeOK, LockTypeOK
<1>1. CASE \/ \E p \in Strong : Enable(c, p)
           \/ \E p \in Strong, q \in Passphrases : Update(c, p, q)
           \/ \E q \in Passphrases : Unlock(c, q)
  BY <1>0, <1>1 DEF LockCallStep, Enable, Update, Unlock, Start, Goto, StaysReachable,
                    secretVars
<1>2. CASE ReadRecord(c) \/ StorageFails(c)
  BY <1>0, <1>2 DEF LockCallStep, ReadRecord, StorageFails, Settle, Continue, Goto, NoCall,
                    StaysReachable, secretVars
<1>3. CASE AwaitSecret(c)
  BY <1>0, <1>3 DEF LockCallStep, AwaitSecret, GetAsync, Continue, Goto, StaysReachable
<1>4. CASE CaptureSecret(c)
  BY <1>0, <1>4 DEF LockCallStep, CaptureSecret, Resume, Settle, Continue, Goto, NoCall,
                    StaysReachable
<1>5. CASE PutRecord(c)
  BY <1>0, <1>5 DEF LockCallStep, PutRecord, Settle, Continue, Goto, NoCall, StaysReachable,
                    secretVars
<1>6. QED
  BY <1>1, <1>2, <1>3, <1>4, <1>5 DEF LockCallStep

LEMMA UnlockEffect ==
    ASSUME TypeOK, NEW c \in LockCalls, UnlockStep(c)
    PROVE  /\ UNCHANGED <<enabled, record, storageVars, pristine, dropped>>
           /\ \/ UNCHANGED <<secretVars, armed>>
              \/ /\ call[c].rec \in LockRecords
                 /\ secret' = call[c].rec.secret
                 /\ resolved' = TRUE /\ waiting' = {}
                 /\ released' = released \union waiting
                 /\ armed' = IF secret = None THEN TRUE ELSE armed
           /\ \A d \in LockCalls \ {c} : call'[d] = call[d]
           /\ call'[c].rec = None /\ call'[c].key = None
           /\ call'[c].pc \in {"idle", "configure"}
<1>1. call \in [LockCalls -> LockCallRecords] /\ CallShape(call[c])
  BY DEF TypeOK, LockTypeOK
<1>2. call[c].rec \in LockRecords /\ call[c].rec.secret \in Keys
  BY <1>1 DEF UnlockStep, DecryptRecord, LockCallRecords, CallShape, LockRecords
<1>3. call[c].rec.secret # None
  BY <1>2, LockAssumption
<1>4. /\ \A d \in LockCalls \ {c} : call'[d] = call[d]
      /\ call'[c].rec = None /\ call'[c].key = None
      /\ call'[c].pc \in {"idle", "configure"}
  BY <1>1 DEF UnlockStep, DecryptRecord, Settle, Continue, Goto, NoCall
<1>5. CASE call[c].pass # call[c].rec.pass
  BY <1>4, <1>5 DEF UnlockStep, DecryptRecord, SecretDefinedChange, secretVars
<1>6. CASE call[c].pass = call[c].rec.pass
  <2>1. Set(call[c].rec.secret)
    BY <1>6 DEF UnlockStep, DecryptRecord
  <2>2. armed' = IF secret = None THEN TRUE ELSE armed
    BY <2>1, <1>3 DEF UnlockStep, Set, SecretDefinedChange
  <2>3. QED
    BY <1>2, <1>4, <2>1, <2>2 DEF UnlockStep, DecryptRecord, Set
<1>7. QED
  BY <1>5, <1>6

LEMMA EnabledEffect ==
    ASSUME TypeOK, NEW c \in LockCalls, EnabledStep(c)
    PROVE  /\ UNCHANGED <<record, secretVars, storageVars, dropped>>
           /\ call[c].pc = "stored"
           /\ enabled' /\ ~pristine' /\ armed'
           /\ \A d \in LockCalls \ {c} : call'[d] = call[d]
           /\ call'[c] = NoCall
<1>1. call \in [LockCalls -> LockCallRecords]
  BY DEF TypeOK, LockTypeOK
<1>2. QED
  BY <1>1 DEF EnabledStep, DispatchEnabled, MasterLockEnabledChange, Settle, Goto

LEMMA StorageEffect ==
    ASSUME TypeOK, NEW c \in StorageCalls, StorageStep(c)
    PROVE  /\ UNCHANGED <<secret, resolved, lockVars, lockerVars>>
           /\ \A d \in StorageCalls \ {c} : io'[d] = io[d]
           /\ io'[c].pc \in {"encrypt", "decrypt"} => c \in waiting' \union released'
           /\ StaysReachable(Callers \ {c})
           /\ io'[c].pc = "put" => io'[c].key = secret /\ Has
           /\ io'[c].pc = "decrypt" => \E k \in DataKeys : data[k] = io'[c].key /\ data[k] # None
           /\ \A k \in DataKeys : \/ data'[k] = data[k]
                                  \/ io[c].pc = "put" /\ data'[k] = io[c].key
<1>1. io \in [StorageCalls -> IoRecords] /\ data \in [DataKeys -> Keys \union {None}]
  BY DEF TypeOK, StorageTypeOK
<1>2. CASE \E k \in DataKeys : SetEncrypted(c, k) \/ GetEncrypted(c, k)
  BY <1>1, <1>2 DEF StorageStep, SetEncrypted, GetEncrypted, GetAsync, IoGoto, StaysReachable
<1>3. CASE Encrypt(c) \/ Decrypt(c)
  BY <1>1, <1>3 DEF StorageStep, Encrypt, Decrypt, Resume, IoGoto, NoIo, StaysReachable
<1>4. CASE PutValue(c)
  BY <1>1, <1>4 DEF StorageStep, PutValue, IoGoto, NoIo, StaysReachable, secretVars
<1>5. QED
  BY <1>2, <1>3, <1>4 DEF StorageStep

-----------------------------------------------------------------------------
\* The inductive strengthening of LockedIsUnlockable: pristine mirrors the
\* enabled flag, an enabled lock has its record, and only a pristine wallet,
\* which cannot be locked, may be without one.
MasterOK ==
    /\ pristine <=> ~enabled
    /\ enabled => record # None
    /\ pristine => secret # None
    /\ \A c \in LockCalls : call[c].pc = "stored" => record # None

\* The flags of the locker and its lock agree with the lock record.
LEMMA MasterInvariant == Spec => []MasterOK
<1>1. Init => MasterOK
  <2> SUFFICES ASSUME Init PROVE MasterOK
    OBVIOUS
  <2>1. pristine /\ ~enabled
    BY DEF Init, LockInit
  <2>2. secret # None /\ \A c \in LockCalls : call[c].pc # "stored"
    BY StorageAssumption DEF Init, LockInit, NoCall
  <2>3. QED
    BY <2>1, <2>2 DEF MasterOK
<1>2. TypeOK /\ MasterOK /\ [Next]_vars => MasterOK'
  <2> SUFFICES ASSUME TypeOK, MasterOK, [Next]_vars PROVE MasterOK'
    OBVIOUS
  <2>1. ASSUME NEW c \in LockCalls, LockCallStep(c) PROVE MasterOK'
    <3>1. UNCHANGED <<enabled, secret, pristine>>
      BY <2>1, LockCallEffect DEF lockerVars
    <3>2. CASE PutRecord(c)
      BY <3>1, <3>2, PutRecordEffect DEF MasterOK
    <3>3. CASE record' = record /\ call'[c].pc # "stored"
      BY <2>1, <3>1, <3>3, LockCallEffect DEF MasterOK
    <3>4. QED
      BY <2>1, <3>2, <3>3, LockCallEffect
  <2>2. ASSUME NEW c \in LockCalls, UnlockStep(c) PROVE MasterOK'
    <3>1. secret # None => secret' # None
      BY <2>2, UnlockEffect, LockAssumption DEF LockRecords, secretVars
    <3>2. QED
      BY <2>2, <3>1, UnlockEffect DEF MasterOK
  <2>3. ASSUME NEW c \in LockCalls, EnabledStep(c) PROVE MasterOK'
    BY <2>3, EnabledEffect DEF MasterOK, NoCall
  <2>4. ASSUME NEW c \in StorageCalls, StorageStep(c) PROVE MasterOK'
    BY <2>4, StorageEffect DEF MasterOK, lockVars, lockerVars
  <2>5. CASE RemoveStep \/ RestartIdleTimer
    BY <2>5 DEF RemoveStep, RemoveValue, RestartIdleTimer, MasterOK, secretVars, lockVars,
                lockerVars
  <2>6. CASE Lock \/ IdleTimeout
    BY <2>6 DEF Lock, IdleTimeout, MasterOK, secretVars, lockVars
  <2>7. CASE Reload
    <3>1. record = None => secret' # None
      BY <2>7, StorageAssumption DEF Reload
    <3>2. QED
      BY <2>7, <3>1 DEF Reload, MasterOK, NoCall
  <2>8. CASE UNCHANGED vars
    BY <2>8 DEF vars, secretVars, lockVars, lockerVars, MasterOK
  <2>9. QED
    BY <2>1, <2>2, <2>3, <2>4, <2>5, <2>6, <2>7, <2>8 DEF Next
<1>3. QED
  BY <1>1, <1>2, TypeCorrect, PTL DEF Spec

\* Whatever calls interleave and wherever the process ends, a wallet without
\* its secret has a lock record and accepts unlock(): it cannot lock itself
\* out (locker/index.js, lock() and the idle timeout).
THEOREM Unlockable == Spec => []LockedIsUnlockable
<1>1. MasterOK => LockedIsUnlockable
  BY DEF MasterOK, LockedIsUnlockable
<1>2. QED
  BY <1>1, MasterInvariant, PTL

-----------------------------------------------------------------------------
\* An unlocked wallet with an enabled lock always has a timeout pending,
\* whichever of unlock(), enable() and update() it came from.
THEOREM UnlockedArmed == Spec => []UnlockedIsArmed
<1>1. Init => UnlockedIsArmed
  BY DEF Init, UnlockedIsArmed
<1>2. TypeOK /\ MasterOK /\ UnlockedIsArmed /\ [Next]_vars => UnlockedIsArmed'
  <2> SUFFICES ASSUME TypeOK, MasterOK, UnlockedIsArmed, [Next]_vars PROVE UnlockedIsArmed'
    OBVIOUS
  <2>1. ASSUME NEW c \in LockCalls, LockCallStep(c) PROVE UnlockedIsArmed'
    BY <2>1, LockCallEffect DEF UnlockedIsArmed, lockerVars
  <2>2. ASSUME NEW c \in LockCalls, UnlockStep(c) PROVE UnlockedIsArmed'
    BY <2>2, UnlockEffect DEF UnlockedIsArmed, secretVars
  <2>3. ASSUME NEW c \in LockCalls, EnabledStep(c) PROVE UnlockedIsArmed'
    BY <2>3, EnabledEffect DEF UnlockedIsArmed
  <2>4. ASSUME NEW c \in StorageCalls, StorageStep(c) PROVE UnlockedIsArmed'
    BY <2>4, StorageEffect DEF UnlockedIsArmed, lockerVars
  <2>5. CASE RemoveStep \/ RestartIdleTimer
    BY <2>5 DEF RemoveStep, RemoveValue, RestartIdleTimer, UnlockedIsArmed, secretVars,
                lockerVars
  <2>6. CASE Lock \/ IdleTimeout
    <3>1. Unset => secret' = None
      BY DEF Unset, Has, secretVars
    <3>2. QED
      BY <2>6, <3>1 DEF Lock, IdleTimeout, UnlockedIsArmed
  <2>7. CASE Reload
    BY <2>7 DEF Reload, UnlockedIsArmed
  <2>8. CASE UNCHANGED vars
    BY <2>8 DEF vars, secretVars, lockerVars, UnlockedIsArmed
  <2>9. QED
    BY <2>1, <2>2, <2>3, <2>4, <2>5, <2>6, <2>7, <2>8 DEF Next
<1>3. QED
  BY <1>1, <1>2, TypeCorrect, MasterInvariant, PTL DEF Spec

-----------------------------------------------------------------------------
\* The semaphore and its callers, with what unset() relies on: nobody waits
\* on a semaphore that is resolved.
SemaphoreOK == NoStrandedCaller /\ (resolved => waiting = {})

\* The semaphore is resolved exactly while there is a secret.
LEMMA SemaphoreInvariant == Spec => []SemaphoreOK
<1>1. Init => SemaphoreOK
  <2> SUFFICES ASSUME Init PROVE SemaphoreOK
    OBVIOUS
  <2>1. resolved /\ Has /\ waiting = {}
    BY StorageAssumption DEF Init, Has
  <2>2. /\ \A c \in LockCalls : call[c].pc = "idle"
        /\ \A c \in StorageCalls : io[c].pc = "idle"
    BY DEF Init, LockInit, StorageInit, NoCall, NoIo
  <2>3. QED
    BY <2>1, <2>2 DEF SemaphoreOK, NoStrandedCaller
<1>2. TypeOK /\ SemaphoreOK /\ [Next]_vars => SemaphoreOK'
  <2> SUFFICES ASSUME TypeOK, SemaphoreOK, [Next]_vars PROVE SemaphoreOK'
    OBVIOUS
  <2>0. /\ LockCalls \subseteq Callers /\ StorageCalls \subseteq Callers
        /\ \A c \in LockCalls : c \notin StorageCalls
    BY LockAssumption, StorageAssumption, LockerAssumption
  <2>1. ASSUME NEW c \in LockCalls, LockCallStep(c) PROVE SemaphoreOK'
    BY <2>0, <2>1, LockCallEffect
       DEF SemaphoreOK, NoStrandedCaller, StaysReachable, storageVars, Has
  <2>2. ASSUME NEW c \in LockCalls, UnlockStep(c) PROVE SemaphoreOK'
    <3>1. ~ UNCHANGED secretVars => secret' # None /\ resolved' /\ waiting' = {}
      BY <2>2, UnlockEffect, LockAssumption DEF LockRecords
    <3>2. waiting \union released \subseteq waiting' \union released'
      BY <2>2, UnlockEffect DEF secretVars
    <3>3. (resolved' <=> Has') /\ (resolved' => waiting' = {})
      <4>1. CASE UNCHANGED secretVars
        BY <4>1 DEF SemaphoreOK, NoStrandedCaller, secretVars, Has
      <4>2. QED
        BY <3>1, <4>1 DEF Has
    <3>4. \A d \in LockCalls : call'[d].pc = "secret" => d \in waiting' \union released'
      BY <2>2, <3>2, UnlockEffect DEF SemaphoreOK, NoStrandedCaller
    <3>5. QED
      BY <2>2, <3>2, <3>3, <3>4, UnlockEffect DEF SemaphoreOK, NoStrandedCaller, storageVars
  <2>3. ASSUME NEW c \in LockCalls, EnabledStep(c) PROVE SemaphoreOK'
    BY <2>3, EnabledEffect
       DEF SemaphoreOK, NoStrandedCaller, storageVars, secretVars, Has, NoCall
  <2>4. ASSUME NEW c \in StorageCalls, StorageStep(c) PROVE SemaphoreOK'
    BY <2>0, <2>4, StorageEffect
       DEF SemaphoreOK, NoStrandedCaller, StaysReachable, lockVars, Has
  <2>5. CASE RemoveStep \/ RestartIdleTimer
    BY <2>5 DEF RemoveStep, RemoveValue, RestartIdleTimer, SemaphoreOK, NoStrandedCaller,
                secretVars, lockVars, storageVars, Has
  <2>6. CASE Lock \/ IdleTimeout
    <3>1. UNCHANGED <<lockVars, storageVars>> /\ (Unset \/ UNCHANGED secretVars)
      BY <2>6 DEF Lock, IdleTimeout
    <3>2. Unset => UNCHANGED secretVars \/ (secret' = None /\ ~resolved' /\ waiting = {}
                                            /\ waiting' = {} /\ released' = released)
      BY DEF Unset, SemaphoreOK, NoStrandedCaller
    <3>3. QED
      BY <3>1, <3>2 DEF SemaphoreOK, NoStrandedCaller, secretVars, lockVars, storageVars, Has
  <2>7. CASE Reload
    <3>1. resolved' <=> secret' # None
      <4>1. resolved' <=> record = None
        BY <2>7 DEF Reload
      <4>2. record = None <=> secret' # None
        BY <2>7, StorageAssumption DEF Reload
      <4>3. QED
        BY <4>1, <4>2
    <3>2. /\ waiting' = {}
          /\ \A c \in LockCalls : call'[c].pc = "idle"
          /\ \A c \in StorageCalls : io'[c].pc = "idle"
      BY <2>7 DEF Reload, NoCall, NoIo
    <3>3. QED
      BY <3>1, <3>2 DEF SemaphoreOK, NoStrandedCaller, Has
  <2>8. CASE UNCHANGED vars
    BY <2>8 DEF vars, secretVars, lockVars, storageVars, SemaphoreOK, NoStrandedCaller, Has
  <2>9. QED
    BY <2>1, <2>2, <2>3, <2>4, <2>5, <2>6, <2>7, <2>8 DEF Next
<1>3. QED
  BY <1>1, <1>2, TypeCorrect, PTL DEF Spec

\* Replacing the semaphore in unset() strands no caller of getAsync(), however
\* many callers there are and however often the wallet is locked
\* (secret/index.js).
THEOREM NobodyStranded == Spec => []NoStrandedCaller
<1>1. SemaphoreOK => NoStrandedCaller
  BY DEF SemaphoreOK
<1>2. QED
  BY <1>1, SemaphoreInvariant, PTL

-----------------------------------------------------------------------------
(* The wallet has one secret. *)

LEMMA SameSecret ==
    ASSUME TypeOK, MasterOK, OneSecret, [Next]_vars
    PROVE  WalletSecret' = WalletSecret \/ (Reload /\ record = None)
<1>1. ASSUME NEW c \in LockCalls, LockCallStep(c) PROVE WalletSecret' = WalletSecret
  <2>1. CASE PutRecord(c)
    BY <2>1, PutRecordEffect, StorageAssumption DEF OneSecret, WalletSecret
  <2>2. CASE record' = record
    BY <1>1, <2>2, LockCallEffect DEF WalletSecret
  <2>3. QED
    BY <1>1, <2>1, <2>2, LockCallEffect
<1>2. ASSUME NEW c \in LockCalls, UnlockStep(c) PROVE WalletSecret' = WalletSecret
  <2>1. record' = record /\ (secret' = secret \/ secret' = WalletSecret)
    BY <1>2, UnlockEffect, LockAssumption DEF OneSecret, secretVars
  <2>2. QED
    BY <2>1 DEF WalletSecret
<1>3. ASSUME NEW c \in LockCalls, EnabledStep(c) PROVE WalletSecret' = WalletSecret
  BY <1>3, EnabledEffect DEF WalletSecret, secretVars
<1>4. ASSUME NEW c \in StorageCalls, StorageStep(c) PROVE WalletSecret' = WalletSecret
  BY <1>4, StorageEffect DEF WalletSecret, lockVars
<1>5. CASE RemoveStep \/ RestartIdleTimer
  BY <1>5 DEF RemoveStep, RemoveValue, RestartIdleTimer, WalletSecret, secretVars, lockVars
<1>6. CASE Lock \/ IdleTimeout
  BY <1>6 DEF Lock, IdleTimeout, MasterOK, WalletSecret, secretVars, lockVars
<1>7. CASE Reload
  BY <1>7 DEF Reload, WalletSecret
<1>8. CASE UNCHANGED vars
  BY <1>8 DEF vars, secretVars, lockVars, WalletSecret
<1>9. QED
  BY <1>1, <1>2, <1>3, <1>4, <1>5, <1>6, <1>7, <1>8 DEF Next

\* However many enable, update and unlock calls interleave with locks and
\* reloads, the secret in memory, in the lock record and in every call in
\* flight is one: no passphrase change re-keys the wallet.
THEOREM SecretIsOne == Spec => []OneSecret
<1>1. Init => OneSecret
  BY DEF Init, LockInit, StorageInit, NoCall, NoIo, OneSecret, WalletSecret
<1>2. TypeOK /\ MasterOK /\ OneSecret /\ [Next]_vars => OneSecret'
  <2> SUFFICES ASSUME TypeOK, MasterOK, OneSecret, [Next]_vars PROVE OneSecret'
    OBVIOUS
  <2>0. WalletSecret' = WalletSecret \/ (Reload /\ record = None)
    BY SameSecret
  <2>a. Reload \/ WalletSecret' = WalletSecret
    BY <2>0
  <2>1. ASSUME NEW c \in LockCalls, LockCallStep(c), WalletSecret' = WalletSecret
        PROVE  OneSecret'
    <3>1. call'[c].key \in {None, WalletSecret}
      BY <2>1, LockCallEffect DEF OneSecret
    <3>2. call'[c].rec # None => call'[c].rec.secret = WalletSecret
      BY <2>1, LockCallEffect DEF WalletSecret
    <3>3. QED
      BY <2>1, <3>1, <3>2, LockCallEffect DEF OneSecret, storageVars
  <2>2. ASSUME NEW c \in LockCalls, UnlockStep(c), WalletSecret' = WalletSecret
        PROVE  OneSecret'
    <3>1. secret' \in {None, WalletSecret}
      BY <2>2, UnlockEffect, LockAssumption DEF OneSecret, secretVars
    <3>2. QED
      BY <2>2, <3>1, UnlockEffect DEF OneSecret, storageVars
  <2>3. ASSUME NEW c \in LockCalls, EnabledStep(c), WalletSecret' = WalletSecret
        PROVE  OneSecret'
    BY <2>3, EnabledEffect DEF OneSecret, secretVars, storageVars, NoCall
  <2>4. ASSUME NEW c \in StorageCalls, StorageStep(c), WalletSecret' = WalletSecret
        PROVE  OneSecret'
    <3>1. UNCHANGED <<secret, call>> /\ \A d \in StorageCalls \ {c} : io'[d] = io[d]
      BY <2>4, StorageEffect DEF lockVars
    <3>2. io'[c].pc = "put" => io'[c].key = WalletSecret
      BY <2>4, StorageEffect DEF OneSecret, Has
    <3>3. QED
      BY <2>4, <3>1, <3>2 DEF OneSecret
  <2>5. CASE (RemoveStep \/ RestartIdleTimer \/ Lock \/ IdleTimeout)
             /\ WalletSecret' = WalletSecret
    <3>1. secret' \in {secret, None} /\ UNCHANGED <<call, io>>
      BY <2>5 DEF RemoveStep, RemoveValue, RestartIdleTimer, Lock, IdleTimeout, Unset,
                  secretVars, lockVars, storageVars
    <3>2. QED
      BY <2>5, <3>1 DEF OneSecret
  <2>6. CASE Reload
    BY <2>6 DEF Reload, OneSecret, WalletSecret, NoCall, NoIo
  <2>7. CASE UNCHANGED vars
    BY <2>7 DEF vars, secretVars, lockVars, storageVars, OneSecret, WalletSecret
  <2>8. QED
    BY <2>a, <2>1, <2>2, <2>3, <2>4, <2>5, <2>6, <2>7 DEF Next
<1>3. QED
  BY <1>1, <1>2, TypeCorrect, MasterInvariant, PTL DEF Spec

\* Once there is a lock record, no step of any call removes it or changes the
\* secret in it, the end of the process included.
THEOREM RecordDurable == Spec => RecordIsDurable
<1>1. TypeOK /\ MasterOK /\ OneSecret /\ [Next]_vars
        => [record # None => record' # None /\ record'.secret = record.secret]_vars
  <2> SUFFICES ASSUME TypeOK, MasterOK, OneSecret, [Next]_vars, record # None
               PROVE  record' # None /\ record'.secret = record.secret
    OBVIOUS
  <2>1. WalletSecret' = WalletSecret
    BY SameSecret
  <2>2. record' # None
    <3>1. ASSUME NEW c \in LockCalls, LockCallStep(c) PROVE record' # None
      BY <3>1, LockCallEffect, PutRecordEffect
    <3>2. ASSUME NEW c \in LockCalls, UnlockStep(c) \/ EnabledStep(c) PROVE record' # None
      BY <3>2, UnlockEffect, EnabledEffect
    <3>3. ASSUME NEW c \in StorageCalls, StorageStep(c) PROVE record' # None
      BY <3>3, StorageEffect DEF lockVars
    <3>4. CASE RemoveStep \/ Lock \/ IdleTimeout \/ RestartIdleTimer \/ Reload
      BY <3>4 DEF RemoveStep, Lock, IdleTimeout, RestartIdleTimer, Reload, lockVars
    <3>5. CASE UNCHANGED vars
      BY <3>5 DEF vars, lockVars
    <3>6. QED
      BY <3>1, <3>2, <3>3, <3>4, <3>5 DEF Next
  <2>3. QED
    BY <2>1, <2>2 DEF WalletSecret
<1>2. QED
  BY <1>1, TypeCorrect, MasterInvariant, SecretIsOne, PTL DEF Spec, RecordIsDurable

-----------------------------------------------------------------------------
\* Every encrypted value is under the wallet's secret or under one of a
\* process that ended pristine, whatever was locked, re-keyed or lost while it
\* was written (storage/index.js, set() and get()).
THEOREM ValuesReadable == Spec => []Readable
<1>1. Init => Readable
  BY DEF Init, StorageInit, NoIo, Readable
<1>2. TypeOK /\ MasterOK /\ OneSecret /\ Readable /\ [Next]_vars => Readable'
  <2> SUFFICES ASSUME TypeOK, MasterOK, OneSecret, Readable, [Next]_vars PROVE Readable'
    OBVIOUS
  <2>0. WalletSecret' = WalletSecret \/ (Reload /\ record = None)
    BY SameSecret
  <2>a. Reload \/ WalletSecret' = WalletSecret
    BY <2>0
  <2>1. CASE UNCHANGED <<data, io, dropped>> /\ WalletSecret' = WalletSecret
    BY <2>1 DEF Readable
  <2>2. ASSUME NEW c \in LockCalls, LockCallStep(c) \/ UnlockStep(c) \/ EnabledStep(c)
        PROVE  UNCHANGED <<data, io, dropped>>
    BY <2>2, LockCallEffect, UnlockEffect, EnabledEffect DEF storageVars, lockerVars
  <2>3. ASSUME NEW c \in StorageCalls, StorageStep(c), WalletSecret' = WalletSecret
        PROVE  Readable'
    <3>1. dropped' = dropped
      BY <2>3, StorageEffect DEF lockerVars
    <3>2. \A k \in DataKeys : data'[k] \in {None, WalletSecret} \union dropped
      BY <2>3, StorageEffect DEF OneSecret, Readable
    <3>3. io'[c].pc = "decrypt" => io'[c].key \in {WalletSecret} \union dropped
      BY <2>3, StorageEffect DEF Readable
    <3>4. \A d \in StorageCalls : io'[d].pc = "decrypt" => io'[d].key \in {WalletSecret} \union dropped
      BY <2>3, <3>3, StorageEffect DEF Readable
    <3>5. QED
      BY <2>3, <3>1, <3>2, <3>4 DEF Readable
  <2>4. CASE RemoveStep /\ WalletSecret' = WalletSecret
    <3>1. UNCHANGED <<io, dropped>> /\ \A k \in DataKeys : data'[k] \in {None, data[k]}
      BY <2>4 DEF RemoveStep, RemoveValue, lockerVars, TypeOK, StorageTypeOK
    <3>2. QED
      BY <2>4, <3>1 DEF Readable
  <2>5. CASE (Lock \/ IdleTimeout \/ RestartIdleTimer) /\ WalletSecret' = WalletSecret
    BY <2>1, <2>5 DEF Lock, IdleTimeout, RestartIdleTimer, storageVars
  <2>6. CASE Reload
    BY <2>6 DEF Reload, Readable, WalletSecret, NoIo
  <2>7. CASE UNCHANGED vars
    BY <2>7 DEF vars, secretVars, lockVars, storageVars, lockerVars, Readable, WalletSecret
  <2>8. QED
    BY <2>a, <2>1, <2>2, <2>3, <2>4, <2>5, <2>6, <2>7 DEF Next
<1>3. QED
  BY <1>1, <1>2, TypeCorrect, MasterInvariant, SecretIsOne, PTL DEF Spec

-----------------------------------------------------------------------------
\* The locker implements Vault: its secret becomes durable once, when the
\* first lock record is written, and from then on only that secret is ever
\* opened.
THEOREM ImplementsVault == Spec => VaultSpec
<1> DEFINE Durable == IF record = None THEN None ELSE record.secret
<1>1. Init => V!Init
  BY DEF Init, LockInit, V!Init
<1>2. TypeOK /\ MasterOK /\ OneSecret /\ [Next]_vars => [V!Next]_<<Durable, secret>>
  <2> SUFFICES ASSUME TypeOK, MasterOK, OneSecret, [Next]_vars
               PROVE  V!Next \/ UNCHANGED <<Durable, secret>>
    OBVIOUS
  <2>1. CASE UNCHANGED <<record, secret>>
    BY <2>1
  <2>2. ASSUME NEW c \in LockCalls, LockCallStep(c) PROVE V!Next \/ UNCHANGED <<Durable, secret>>
    <3>1. secret' = secret
      BY <2>2, LockCallEffect
    <3>2. CASE PutRecord(c)
      <4>1. record' # None /\ record'.secret = call[c].key /\ call[c].key = WalletSecret
        BY <3>2, PutRecordEffect, StorageAssumption DEF OneSecret
      <4>2. CASE record = None
        BY <3>1, <4>1, <4>2 DEF WalletSecret, V!Next, V!Commit
      <4>3. CASE record # None
        BY <3>1, <4>1, <4>3 DEF WalletSecret
      <4>4. QED
        BY <4>2, <4>3
    <3>3. QED
      BY <2>2, <2>1, <3>1, <3>2, LockCallEffect
  <2>3. ASSUME NEW c \in LockCalls, UnlockStep(c) PROVE V!Next \/ UNCHANGED <<Durable, secret>>
    <3>1. record' = record /\ (secret' = secret \/ secret' = WalletSecret)
      BY <2>3, UnlockEffect, LockAssumption DEF OneSecret, secretVars
    <3>2. CASE record = None
      BY <2>1, <3>1, <3>2 DEF WalletSecret
    <3>3. CASE record # None
      <4>1. record.secret # None
        BY <3>3, StorageAssumption DEF TypeOK, LockTypeOK, LockRecords
      <4>2. QED
        BY <3>1, <3>3, <4>1 DEF WalletSecret, V!Next, V!Open
    <3>4. QED
      BY <3>2, <3>3
  <2>4. ASSUME NEW c \in LockCalls, EnabledStep(c) PROVE UNCHANGED <<record, secret>>
    BY <2>4, EnabledEffect DEF secretVars
  <2>5. ASSUME NEW c \in StorageCalls, StorageStep(c) PROVE UNCHANGED <<record, secret>>
    BY <2>5, StorageEffect DEF lockVars
  <2>6. CASE Lock \/ IdleTimeout
    <3>1. record' = record /\ (secret' = secret \/ (~pristine /\ secret' = None))
      BY <2>6 DEF Lock, IdleTimeout, Unset, secretVars, lockVars
    <3>2. CASE ~pristine /\ secret' = None
      <4>1. record # None /\ record.secret # None
        BY <3>2, StorageAssumption DEF MasterOK, TypeOK, LockTypeOK, LockRecords
      <4>2. QED
        BY <3>1, <3>2, <4>1 DEF V!Next, V!Close
    <3>3. QED
      BY <2>1, <3>1, <3>2
  <2>7. CASE Reload
    <3>1. CASE record = None
      BY <2>7, <3>1 DEF Reload, V!Next, V!Forget
    <3>2. CASE record # None
      <4>1. record.secret # None
        BY <3>2, StorageAssumption DEF TypeOK, LockTypeOK, LockRecords
      <4>2. QED
        BY <2>7, <3>2, <4>1 DEF Reload, V!Next, V!Close
    <3>3. QED
      BY <3>1, <3>2
  <2>8. CASE RemoveStep \/ RestartIdleTimer \/ UNCHANGED vars
    BY <2>1, <2>8 DEF RemoveStep, RemoveValue, RestartIdleTimer, vars, secretVars, lockVars
  <2>9. QED
    BY <2>1, <2>2, <2>3, <2>4, <2>5, <2>6, <2>7, <2>8 DEF Next
<1>3. QED
  BY <1>1, <1>2, TypeCorrect, MasterInvariant, SecretIsOne, PTL DEF Spec, VaultSpec, V!Spec
-----------------------------------------------------------------------------
(* Who opens and re-keys the wallet.                                       *)

\* What a call read was a record during the call, and what it goes on to
\* configure with was verified against such a record.
HoldersOK ==
    /\ opens \in [LockCalls -> SUBSET Passphrases]
    /\ \A c \in LockCalls : call[c].pc = "decrypt" => call[c].rec.pass \in opens[c]
    /\ \A c \in LockCalls : call[c].pc \in {"configure", "secret", "put"} =>
                               call[c].pass \in opens[c] \union {None}

\* Where a call goes on, as far as what it knows is concerned.
LEMMA CallKnows ==
    ASSUME TypeOK, NEW c \in LockCalls, LockCallStep(c)
    PROVE  /\ call'[c].pc = "decrypt" => record # None /\ call'[c].rec = record
           /\ call'[c].pc \in {"configure", "secret", "put"} =>
                 \/ call'[c].pass = None
                 \/ call[c].pc \in {"configure", "secret"} /\ call'[c].pass = call[c].pass
<1>0. call \in [LockCalls -> LockCallRecords]
  BY DEF TypeOK, LockTypeOK
<1>1. CASE \/ \E p \in Strong : Enable(c, p)
           \/ \E p \in Strong, q \in Passphrases : Update(c, p, q)
           \/ \E q \in Passphrases : Unlock(c, q)
  BY <1>0, <1>1 DEF Enable, Update, Unlock, Start, Goto
<1>2. CASE ReadRecord(c) \/ StorageFails(c) \/ PutRecord(c)
  BY <1>0, <1>2 DEF ReadRecord, StorageFails, PutRecord, Settle, Continue, Goto, NoCall
<1>3. CASE AwaitSecret(c) \/ CaptureSecret(c)
  BY <1>0, <1>3 DEF AwaitSecret, CaptureSecret, Settle, Continue, Goto, NoCall
<1>4. QED
  BY <1>1, <1>2, <1>3 DEF LockCallStep

LEMMA UnlockKnows ==
    ASSUME TypeOK, NEW c \in LockCalls, UnlockStep(c)
    PROVE  /\ call[c].pc = "decrypt"
           /\ secret' # secret \/ call'[c].pc = "configure" => call[c].pass = call[c].rec.pass
           /\ call'[c].pc = "configure" => call'[c].pass = call[c].pass
           /\ call'[c].pc \in {"idle", "configure"}
<1>1. call \in [LockCalls -> LockCallRecords]
  BY DEF TypeOK, LockTypeOK
<1>2. QED
  BY <1>1 DEF UnlockStep, DecryptRecord, Settle, Continue, Goto, NoCall, secretVars

\* A step of one call, or of none, keeps what the calls know.
LEMMA KeepsKnown ==
    ASSUME TypeOK, TypeOK', HoldersOK, NextH,
           \A d \in LockCalls :
              \/ call'[d] = call[d]
              \/ /\ call'[d].pc = "decrypt" => record # None /\ call'[d].rec = record
                 /\ call'[d].pc \in {"configure", "secret", "put"} =>
                       call'[d].pass \in opens[d] \union {None}
    PROVE  HoldersOK'
<1>1. opens' = [d \in LockCalls |->
                  IF call'[d].pc = "idle"
                    THEN {}
                    ELSE opens[d] \union Opening(record) \union Opening(record')]
  BY DEF NextH
<1>2. Opening(record) \subseteq Passphrases
  BY DEF Opening, TypeOK, LockTypeOK, LockRecords
<1>3. Opening(record)' \subseteq Passphrases
  BY DEF Opening, TypeOK, LockTypeOK, LockRecords
<1>4. opens' \in [LockCalls -> SUBSET Passphrases]
  BY <1>1, <1>2, <1>3 DEF HoldersOK
<1>5. ASSUME NEW d \in LockCalls, call'[d].pc # "idle"
      PROVE  /\ opens[d] \subseteq opens'[d]
             /\ record # None => record.pass \in opens'[d]
  BY <1>1, <1>5 DEF Opening
<1>6. ASSUME NEW d \in LockCalls, call'[d].pc = "decrypt"
      PROVE  call'[d].rec.pass \in opens'[d]
  BY <1>5, <1>6 DEF HoldersOK
<1>7. ASSUME NEW d \in LockCalls, call'[d].pc \in {"configure", "secret", "put"}
      PROVE  call'[d].pass \in opens'[d] \union {None}
  BY <1>5, <1>7 DEF HoldersOK
<1>8. QED
  BY <1>4, <1>6, <1>7 DEF HoldersOK

LEMMA HoldersNext == TypeOK /\ TypeOK' /\ HoldersOK /\ [NextH]_historyVars => HoldersOK'
<1> SUFFICES ASSUME TypeOK, TypeOK', HoldersOK, [NextH]_historyVars PROVE HoldersOK'
  OBVIOUS
<1>1. CASE UNCHANGED historyVars
  BY <1>1 DEF historyVars, vars, lockVars, HoldersOK
<1> SUFFICES ASSUME NextH PROVE HoldersOK'
  BY <1>1
<1>2. ASSUME NEW c \in LockCalls, LockCallStep(c) PROVE HoldersOK'
  <2>1. call'[c].pc \in {"configure", "secret", "put"} => call'[c].pass \in opens[c] \union {None}
    BY <1>2, CallKnows DEF HoldersOK
  <2>2. QED
    BY <1>2, <2>1, CallKnows, LockCallEffect, KeepsKnown
<1>3. ASSUME NEW c \in LockCalls, UnlockStep(c) PROVE HoldersOK'
  <2>1. call'[c].pc = "configure" => call'[c].pass \in opens[c]
    BY <1>3, UnlockKnows DEF HoldersOK
  <2>2. QED
    BY <1>3, <2>1, UnlockKnows, UnlockEffect, KeepsKnown
<1>4. ASSUME NEW c \in LockCalls, EnabledStep(c) PROVE HoldersOK'
  BY <1>4, EnabledEffect, KeepsKnown DEF NoCall
<1>5. ASSUME NEW c \in StorageCalls, StorageStep(c) PROVE HoldersOK'
  BY <1>5, StorageEffect, KeepsKnown DEF lockVars
<1>6. CASE RemoveStep \/ Lock \/ IdleTimeout \/ RestartIdleTimer
  BY <1>6, KeepsKnown DEF RemoveStep, Lock, IdleTimeout, RestartIdleTimer, lockVars
<1>7. CASE Reload
  BY <1>7, KeepsKnown DEF Reload, NoCall
<1>8. QED
  BY <1>2, <1>3, <1>4, <1>5, <1>6, <1>7 DEF NextH, Next

LEMMA HistorySteps == SpecH => Spec
<1>1. InitH => Init
  BY DEF InitH
<1>2. [NextH]_historyVars => [Next]_vars
  BY DEF NextH, historyVars
<1>3. QED
  BY <1>1, <1>2, PTL DEF SpecH, Spec

LEMMA HoldersInvariant == SpecH => []HoldersOK
<1>1. InitH => HoldersOK
  BY DEF InitH, Init, LockInit, NoCall, HoldersOK
<1>2. QED
  BY <1>1, HoldersNext, HistorySteps, TypeCorrect, PTL DEF SpecH

\* A locked wallet is opened only by a call whose passphrase opened the lock
\* record at some moment of that call (passphrase.js, unlock()), for any number
\* of calls that read, derive and write meanwhile.
THEOREM OpenedByHolder == SpecH => UnlockedByHolder
<1>1. TypeOK /\ MasterOK /\ HoldersOK /\ [NextH]_historyVars
        => [secret = None /\ secret' # None =>
              \E c \in LockCalls :
                 call[c].pc = "decrypt" /\ call[c].pass \in opens[c]]_historyVars
  <2> SUFFICES ASSUME TypeOK, MasterOK, HoldersOK, Next, secret = None, secret' # None
               PROVE  \E c \in LockCalls :
                         call[c].pc = "decrypt" /\ call[c].pass \in opens[c]
    BY DEF NextH
  <2>1. ASSUME NEW c \in LockCalls, UnlockStep(c)
        PROVE  call[c].pc = "decrypt" /\ call[c].pass \in opens[c]
    BY <2>1, UnlockKnows DEF HoldersOK
  <2>2. ASSUME NEW c \in LockCalls, LockCallStep(c) \/ EnabledStep(c) PROVE FALSE
    BY <2>2, LockCallEffect, EnabledEffect DEF secretVars
  <2>3. ASSUME NEW c \in StorageCalls, StorageStep(c) PROVE FALSE
    BY <2>3, StorageEffect
  <2>4. CASE RemoveStep \/ Lock \/ IdleTimeout \/ RestartIdleTimer
    BY <2>4 DEF RemoveStep, RemoveValue, Lock, IdleTimeout, RestartIdleTimer, Unset, secretVars
  <2>5. CASE Reload
    BY <2>5 DEF Reload, MasterOK
  <2>6. QED
    BY <2>1, <2>2, <2>3, <2>4, <2>5 DEF Next
<1>2. QED
  BY <1>1, HoldersInvariant, HistorySteps, TypeCorrect, MasterInvariant, PTL
     DEF SpecH, UnlockedByHolder

\* A lock record is replaced only by a call that knew a passphrase valid during
\* it, or by an enable() (passphrase.js, update()).
THEOREM RekeyedByHolder == SpecH => ReplacedByHolder
<1>1. TypeOK /\ HoldersOK /\ [NextH]_historyVars
        => [record # None /\ record' # record =>
              \E c \in LockCalls :
                 /\ call[c].pc = "put"
                 /\ call[c].pass \in opens[c] \union {None}]_historyVars
  <2> SUFFICES ASSUME TypeOK, HoldersOK, Next, record' # record
               PROVE  \E c \in LockCalls :
                         call[c].pc = "put" /\ call[c].pass \in opens[c] \union {None}
    BY DEF NextH
  <2>1. ASSUME NEW c \in LockCalls, LockCallStep(c)
        PROVE  call[c].pc = "put" /\ call[c].pass \in opens[c] \union {None}
    <3>1. call[c].pc = "put"
      BY <2>1, LockCallEffect DEF PutRecord
    <3>2. QED
      BY <3>1 DEF HoldersOK
  <2>2. ASSUME NEW c \in LockCalls, UnlockStep(c) \/ EnabledStep(c) PROVE FALSE
    BY <2>2, UnlockEffect, EnabledEffect
  <2>3. ASSUME NEW c \in StorageCalls, StorageStep(c) PROVE FALSE
    BY <2>3, StorageEffect DEF lockVars
  <2>4. CASE RemoveStep \/ Lock \/ IdleTimeout \/ RestartIdleTimer \/ Reload
    BY <2>4 DEF RemoveStep, Lock, IdleTimeout, RestartIdleTimer, Reload, lockVars
  <2>5. QED
    BY <2>1, <2>2, <2>3, <2>4 DEF Next
<1>2. QED
  BY <1>1, HoldersInvariant, HistorySteps, TypeCorrect, PTL DEF SpecH, ReplacedByHolder
=============================================================================
