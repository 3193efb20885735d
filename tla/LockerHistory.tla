----------------------------- MODULE LockerHistory -----------------------------
(***************************************************************************)
(* Locker with an auxiliary variable: for each call of the lock, the       *)
(* passphrases that opened the lock record at some moment since the call   *)
(* was made.  unlock() and update() read the record, derive a key for      *)
(* hundreds of milliseconds and only then act, so the record they verified *)
(* may be replaced meanwhile; what can be asked of them is that the        *)
(* passphrase was right at some moment of the call.                        *)
(***************************************************************************)
EXTENDS Locker

VARIABLE opens

historyVars == <<vars, opens>>

Opening(rec) == IF rec = None THEN {} ELSE {rec.pass}

InitH == Init /\ opens = [c \in LockCalls |-> {}]

NextH ==
    /\ Next
    /\ opens' = [c \in LockCalls |->
                   IF call'[c].pc = "idle"
                     THEN {}
                     ELSE opens[c] \union Opening(record) \union Opening(record')]

SpecH == InitH /\ [][NextH]_historyVars

-----------------------------------------------------------------------------
\* A locked wallet is unlocked only by a call whose passphrase opened the lock
\* record at some moment of that call: in particular a call made after an
\* update() settled never succeeds with the passphrase that was replaced,
\* however many updates and unlocks are in flight.
UnlockedByHolder ==
    [][secret = None /\ secret' # None =>
         \E c \in LockCalls :
            call[c].pc = "decrypt" /\ call[c].pass \in opens[c]]_historyVars

\* An existing lock record is replaced only by an update() made by someone
\* who knew a passphrase valid during that call, or by an enable() that was
\* already in flight when the record appeared.
ReplacedByHolder ==
    [][record # None /\ record' # record =>
         \E c \in LockCalls :
            /\ call[c].pc = "put"
            /\ call[c].pass \in opens[c] \union {None}]_historyVars
=============================================================================
