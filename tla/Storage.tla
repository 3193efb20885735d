-------------------------------- MODULE Storage --------------------------------
(***************************************************************************)
(* Encrypted values of the wallet's database (storage/index.js): set()     *)
(* with { encrypt: true } and get() both wait for the wallet secret, so    *)
(* they stay in flight while the wallet is locked.  An encrypted value is  *)
(* the key it was encrypted with; its plain text is never looked at.       *)
(***************************************************************************)
EXTENDS Secret

CONSTANTS DataKeys,     \* keys the wallet's components encrypt values under
          StorageCalls  \* identities of concurrent set and get calls

ASSUME StorageAssumption ==
    /\ StorageCalls \subseteq Callers
    /\ None \notin Keys \union DataKeys

VARIABLES data, \* the encrypted values in the database
          io    \* the set and get calls in flight

storageVars == <<data, io>>

IoRecords ==
    [pc : {"idle", "encrypt", "put", "decrypt"}, at : DataKeys \union {None},
     key : Keys \union {None}]

NoIo == [pc |-> "idle", at |-> None, key |-> None]

StorageInit ==
    /\ data = [k \in DataKeys |-> None]
    /\ io = [c \in StorageCalls |-> NoIo]

-----------------------------------------------------------------------------
IoGoto(c, next) == io' = [io EXCEPT ![c] = next]

SetEncrypted(c, k) ==
    /\ io[c] = NoIo
    /\ GetAsync(c)
    /\ IoGoto(c, [pc |-> "encrypt", at |-> k, key |-> None])
    /\ UNCHANGED data

\* Encrypting with null throws a StorageError.
Encrypt(c) ==
    /\ io[c].pc = "encrypt"
    /\ Resume(c)
    /\ IF Has
         THEN IoGoto(c, [pc |-> "put", at |-> io[c].at, key |-> secret])
         ELSE IoGoto(c, NoIo)
    /\ UNCHANGED data

\* The database accepts the write, or rejects it.
PutValue(c) ==
    /\ io[c].pc = "put"
    /\ IoGoto(c, NoIo)
    /\ \/ data' = [data EXCEPT ![io[c].at] = io[c].key]
       \/ UNCHANGED data
    /\ UNCHANGED secretVars

\* A missing value returns undefined at once; an encrypted one waits.
GetEncrypted(c, k) ==
    /\ io[c] = NoIo
    /\ data[k] # None
    /\ GetAsync(c)
    /\ IoGoto(c, [pc |-> "decrypt", at |-> k, key |-> data[k]])
    /\ UNCHANGED data

\* Decryption succeeds iff the secret is the key of the value that was read.
Decrypt(c) ==
    /\ io[c].pc = "decrypt"
    /\ Resume(c)
    /\ IoGoto(c, NoIo)
    /\ UNCHANGED data

RemoveValue(k) ==
    /\ data[k] # None
    /\ data' = [data EXCEPT ![k] = None]
    /\ UNCHANGED <<io, secretVars>>

StorageTypeOK ==
    /\ data \in [DataKeys -> Keys \union {None}]
    /\ io \in [StorageCalls -> IoRecords]
=============================================================================
