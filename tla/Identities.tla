------------------------------ MODULE Identities ------------------------------
(***************************************************************************)
(* The identities of the wallet (identities/index.js, identities/identity) *)
(* from their creation or import to their removal, step by step: what each *)
(* wait leaves in storage, in the replicated store of devices, in the DID  *)
(* document and in memory.                                                 *)
(*                                                                         *)
(* createIdentity() and removeIdentity() write one thing after the other.  *)
(* At each wait this device may be revoked by another one, the mark of an  *)
(* earlier revocation may reach storage, a service may reject during an    *)
(* outage, or the process may end.                                         *)
(***************************************************************************)
CONSTANTS Ids,     \* identities, one for each DID
          Devices, \* ids of devices; an id nothing refers to is new
          Callers, \* identities of concurrent create(), import() and remove() calls
          Events,  \* bound: the kinds of outside events that happen
          None

ASSUME IdentitiesAssumption ==
    /\ Events \subseteq {"outage", "revoke", "reload"}
    /\ None \notin Devices \union Ids

VARIABLES known,          \* DIDs that exist
          didKeys,        \* devices whose public key is in the DID document
          descriptor,     \* identity descriptors in storage
          deviceKey,      \* descriptors of the current device in storage
          backup,         \* identities with backup data in storage
          entries,        \* the local copy of the replicated devices
          revokedAt,      \* those of them that are revoked
          identities,     \* #identitiesMap, and whether getData() has the backup
          loaded,         \* whether #identitiesMap is defined
          timers,         \* revocations noticed by a constructor (10 ms timers)
          marking,        \* descriptors being written with revoked: true
          removingBackup, \* removals of backups that nobody awaits
          calls,          \* the calls in flight
          outage          \* whether storage, OrbitDB and DID methods may reject

didVars == <<known, didKeys>>
diskVars == <<descriptor, deviceKey, backup, entries, revokedAt>>
memoryVars == <<identities, loaded, timers, marking, removingBackup>>
vars == <<didVars, diskVars, memoryVars, calls, outage>>

NoIdentity == [device |-> None, revoked |-> FALSE, data |-> FALSE]

NoCall == [op |-> "none", pc |-> "idle", id |-> None, device |-> None, closed |-> FALSE]

Creating == {"update", "descriptor", "backup", "profile", "device", "entry", "apps"}
Removing == {"removeDevice", "dropDevices", "dropProfile", "dropApps"}
Pcs == Creating \union Removing \union {"revokeKey", "find", "removeDescriptor"}

CallRecords ==
    {NoCall} \union [op : {"create", "import", "remove"}, pc : Pcs, id : Ids, device : Devices,
                    closed : BOOLEAN]

IdentityRecords ==
    {NoIdentity} \union [device : Devices, revoked : BOOLEAN, data : BOOLEAN]

\* closed: the OrbitDB instance the call holds was dropped by another call.
NewCall(op, pc, i, d) == [op |-> op, pc |-> pc, id |-> i, device |-> d, closed |-> FALSE]

Init ==
    /\ known \in SUBSET Ids
    /\ didKeys = [i \in Ids |-> {}]
    /\ descriptor = [i \in Ids |-> "none"]
    /\ deviceKey = [i \in Ids |-> None]
    /\ backup = {}
    /\ entries = [i \in Ids |-> {}]
    /\ revokedAt = [i \in Ids |-> {}]
    /\ identities = [i \in Ids |-> NoIdentity]
    /\ loaded = FALSE
    /\ timers = {} /\ marking = {} /\ removingBackup = {}
    /\ calls = [c \in Callers |-> NoCall]
    /\ outage = FALSE

-----------------------------------------------------------------------------
Referred(d) ==
    \/ \E i \in Ids : \/ d \in didKeys[i] \union entries[i]
                      \/ d \in {deviceKey[i], identities[i].device}
                      \/ <<i, d>> \in timers \union marking
    \/ \E c \in Callers : calls[c].device = d

At(c, pc) == calls[c].pc = pc
Goto(c, pc) == calls' = [calls EXCEPT ![c].pc = pc]
Ends(c) == calls' = [calls EXCEPT ![c] = NoCall]

\* The catch block of createIdentity removes what there is and rethrows.
Undo(c) == Goto(c, "find")

\* The OrbitDB stores of the identity cannot be used.
StoresFail(c) == outage \/ calls[c].closed

-----------------------------------------------------------------------------
(* load(): everything else waits for it, so nothing it reads changes while *)
(* it restores the identities one by one; if one of them cannot be         *)
(* restored, it rejects and can be tried again.                            *)

CanRestore(i) == deviceKey[i] # None /\ deviceKey[i] \in entries[i]

Stored == {i \in Ids : descriptor[i] # "none"}

Restored(i) ==
    IF i \in Stored
      THEN [device |-> deviceKey[i], revoked |-> descriptor[i] = "revoked", data |-> i \in backup]
      ELSE NoIdentity

\* What the constructor of an identity sets a timer for.
Unmarked(i) == descriptor[i] = "valid" /\ deviceKey[i] \in revokedAt[i]

\* Mutant of Load: revocations that were not marked in storage are forgotten.
LoadTrustsMarks ==
    /\ ~loaded
    /\ \A i \in Stored : CanRestore(i)
    /\ loaded' = TRUE
    /\ identities' = [i \in Ids |-> Restored(i)]
    /\ UNCHANGED <<didVars, diskVars, timers, marking, removingBackup, calls, outage>>

Load ==
    /\ ~loaded
    /\ \A i \in Stored : CanRestore(i)
    /\ loaded' = TRUE
    /\ identities' = [i \in Ids |-> Restored(i)]
    /\ timers' = {<<i, deviceKey[i]>> : i \in {j \in Stored : Unmarked(j)}}
    /\ UNCHANGED <<didVars, diskVars, marking, removingBackup, calls, outage>>

-----------------------------------------------------------------------------
(* create() and import().                                                  *)

\* didm.create() ends with a new DID; its rejection changes nothing.
Create(c) ==
    /\ calls[c] = NoCall
    /\ loaded
    /\ \E i \in Ids \ known, d \in Devices :
          /\ ~Referred(d)
          /\ known' = known \union {i}
          /\ didKeys' = [didKeys EXCEPT ![i] = {d}]
          /\ calls' = [calls EXCEPT ![c] = NewCall("create", "descriptor", i, d)]
    /\ UNCHANGED <<diskVars, memoryVars, outage>>

Import(c) ==
    /\ calls[c] = NoCall
    /\ loaded
    /\ \E i \in known, d \in Devices :
          /\ identities[i] = NoIdentity
          /\ ~Referred(d)
          /\ calls' = [calls EXCEPT ![c] = NewCall("import", "update", i, d)]
    /\ UNCHANGED <<didVars, diskVars, memoryVars, outage>>

UpdateDid(c) ==
    /\ At(c, "update")
    /\ \/ /\ didKeys' = [didKeys EXCEPT ![calls[c].id] = @ \union {calls[c].device}]
          /\ Goto(c, "descriptor")
       \/ outage /\ Ends(c) /\ UNCHANGED didKeys
    /\ UNCHANGED <<known, diskVars, memoryVars, outage>>

StoreDescriptor(c) ==
    /\ At(c, "descriptor")
    /\ \/ /\ descriptor' = [descriptor EXCEPT ![calls[c].id] = "valid"]
          /\ Goto(c, IF calls[c].op = "create" THEN "backup" ELSE "profile")
       \/ outage /\ Undo(c) /\ UNCHANGED descriptor
    /\ UNCHANGED <<didVars, deviceKey, backup, entries, revokedAt, memoryVars, outage>>

StoreBackup(c) ==
    /\ At(c, "backup")
    /\ \/ backup' = backup \union {calls[c].id} /\ Goto(c, "profile")
       \/ outage /\ Undo(c) /\ UNCHANGED backup
    /\ UNCHANGED <<didVars, descriptor, deviceKey, entries, revokedAt, memoryVars, outage>>

\* An import waits for the profile to replicate, and times out.
CreateProfile(c) ==
    /\ At(c, "profile")
    /\ \/ ~calls[c].closed /\ Goto(c, "device")
       \/ (StoresFail(c) \/ calls[c].op = "import") /\ Undo(c)
    /\ UNCHANGED <<didVars, diskVars, memoryVars, outage>>

\* Mutant of StoreDevice: a rejection of storage is ignored.
StoreDeviceUnchecked(c) ==
    /\ At(c, "device")
    /\ \/ deviceKey' = [deviceKey EXCEPT ![calls[c].id] = calls[c].device]
       \/ outage /\ UNCHANGED deviceKey
    /\ Goto(c, "entry")
    /\ UNCHANGED <<didVars, descriptor, backup, entries, revokedAt, memoryVars, outage>>

StoreDevice(c) ==
    /\ At(c, "device")
    /\ \/ /\ ~calls[c].closed
          /\ deviceKey' = [deviceKey EXCEPT ![calls[c].id] = calls[c].device]
          /\ Goto(c, "entry")
       \/ StoresFail(c) /\ Undo(c) /\ UNCHANGED deviceKey
    /\ UNCHANGED <<didVars, descriptor, backup, entries, revokedAt, memoryVars, outage>>

PutEntry(c) ==
    /\ At(c, "entry")
    /\ \/ /\ ~calls[c].closed
          /\ entries' = [entries EXCEPT ![calls[c].id] = @ \union {calls[c].device}]
          /\ Goto(c, "apps")
       \/ StoresFail(c) /\ Undo(c) /\ UNCHANGED entries
    /\ UNCHANGED <<didVars, descriptor, deviceKey, backup, revokedAt, memoryVars, outage>>

\* createApps, the constructor of Identity, and the entry in #identitiesMap.
Construct(c) ==
    /\ At(c, "apps")
    /\ LET i == calls[c].id
           d == calls[c].device
       IN  \/ /\ ~calls[c].closed
              /\ identities' = [identities EXCEPT ![i] =
                    [device |-> d, revoked |-> FALSE, data |-> calls[c].op = "create"]]
              /\ timers' = IF d \in revokedAt[i] THEN timers \union {<<i, d>>} ELSE timers
              /\ Ends(c)
           \/ StoresFail(c) /\ Undo(c) /\ UNCHANGED <<identities, timers>>
    /\ UNCHANGED <<didVars, diskVars, loaded, marking, removingBackup, outage>>

-----------------------------------------------------------------------------
(* remove(), and removeIdentity() for both its callers.                    *)

Remove(c, i) ==
    /\ calls[c] = NoCall
    /\ loaded
    /\ identities[i] # NoIdentity
    /\ calls' = [calls EXCEPT ![c] =
                   NewCall("remove", IF identities[i].revoked THEN "find" ELSE "revokeKey",
                           i, identities[i].device)]
    /\ UNCHANGED <<didVars, diskVars, memoryVars, outage>>

\* Mutant of RevokeKey: a rejection of the DID method is ignored.
RevokeKeyUnchecked(c) ==
    /\ At(c, "revokeKey")
    /\ Goto(c, "find")
    /\ \/ didKeys' = [didKeys EXCEPT ![calls[c].id] = @ \ {calls[c].device}]
       \/ outage /\ UNCHANGED didKeys
    /\ UNCHANGED <<known, diskVars, memoryVars, outage>>

RevokeKey(c) ==
    /\ At(c, "revokeKey")
    /\ \/ /\ didKeys' = [didKeys EXCEPT ![calls[c].id] = @ \ {calls[c].device}]
          /\ Goto(c, "find")
       \/ outage /\ Ends(c) /\ UNCHANGED didKeys
    /\ UNCHANGED <<known, diskVars, memoryVars, outage>>

\* removeIdentity() returns: only remove() has an identity to forget.
Removed(c) ==
    identities' = IF calls[c].op = "remove"
                    THEN [identities EXCEPT ![calls[c].id] = NoIdentity]
                    ELSE identities

FindDescriptor(c) ==
    /\ At(c, "find")
    /\ \/ calls[c].id \in Stored /\ Goto(c, "removeDescriptor") /\ UNCHANGED identities
       \/ calls[c].id \notin Stored /\ Removed(c) /\ Ends(c)
       \/ outage /\ Ends(c) /\ UNCHANGED identities
    /\ UNCHANGED <<didVars, diskVars, loaded, timers, marking, removingBackup, outage>>

\* Mutant of RemoveDescriptor: the descriptor is left for the next removal.
RemoveDescriptorSkipped(c) ==
    /\ At(c, "removeDescriptor")
    /\ \/ Goto(c, "removeDevice")
       \/ outage /\ Ends(c)
    /\ UNCHANGED <<didVars, diskVars, memoryVars, outage>>

RemoveDescriptor(c) ==
    /\ At(c, "removeDescriptor")
    /\ \/ /\ descriptor' = [descriptor EXCEPT ![calls[c].id] = "none"]
          /\ Goto(c, "removeDevice")
       \/ outage /\ Ends(c) /\ UNCHANGED descriptor
    /\ UNCHANGED <<didVars, deviceKey, backup, entries, revokedAt, memoryVars, outage>>

\* getOrbitDb() makes a new instance if there is none, but from createIdentity
\* it is given an OrbitDB in place of IPFS, and can only return a cached one.
RemoveDevice(c) ==
    /\ At(c, "removeDevice")
    /\ \/ /\ deviceKey' = [deviceKey EXCEPT ![calls[c].id] = None]
          /\ calls' = [calls EXCEPT ![c].pc = "dropDevices", ![c].closed = FALSE]
       \/ /\ outage \/ (calls[c].closed /\ calls[c].op # "remove")
          /\ Ends(c)
          /\ UNCHANGED deviceKey
    /\ UNCHANGED <<didVars, descriptor, backup, entries, revokedAt, memoryVars, outage>>

DropDevices(c) ==
    /\ At(c, "dropDevices")
    /\ \/ /\ ~calls[c].closed
          /\ entries' = [entries EXCEPT ![calls[c].id] = {}]
          /\ revokedAt' = [revokedAt EXCEPT ![calls[c].id] = {}]
          /\ Goto(c, "dropProfile")
       \/ StoresFail(c) /\ Ends(c) /\ UNCHANGED <<entries, revokedAt>>
    /\ UNCHANGED <<didVars, descriptor, deviceKey, backup, memoryVars, outage>>

\* Mutant of DropProfile: the backup is not removed.
DropProfileKeepsBackup(c) ==
    /\ At(c, "dropProfile")
    /\ \/ ~calls[c].closed /\ Goto(c, "dropApps")
       \/ StoresFail(c) /\ Ends(c)
    /\ UNCHANGED <<didVars, diskVars, memoryVars, outage>>

\* After the profile, removeBackup() starts a removal it does not wait for.
DropProfile(c) ==
    /\ At(c, "dropProfile")
    /\ \/ /\ ~calls[c].closed
          /\ removingBackup' = removingBackup \union {calls[c].id}
          /\ Goto(c, "dropApps")
       \/ StoresFail(c) /\ Ends(c) /\ UNCHANGED removingBackup
    /\ UNCHANGED <<didVars, diskVars, identities, loaded, timers, marking, outage>>

\* Dropping the OrbitDB instance closes it for every other call that holds it.
DropInstance(c) ==
    /\ At(c, "dropApps")
    /\ \/ /\ ~calls[c].closed
          /\ Removed(c)
          /\ calls' = [b \in Callers |-> IF b = c THEN NoCall
                         ELSE IF calls[b].id = calls[c].id
                         THEN [calls[b] EXCEPT !.closed = TRUE] ELSE calls[b]]
       \/ StoresFail(c) /\ Ends(c) /\ UNCHANGED identities
    /\ UNCHANGED <<didVars, diskVars, loaded, timers, marking, removingBackup, outage>>

BackupRemoved(i) ==
    /\ i \in removingBackup
    /\ removingBackup' = removingBackup \ {i}
    /\ \/ backup' = backup \ {i}
       \/ outage /\ UNCHANGED backup
    /\ UNCHANGED <<didVars, descriptor, deviceKey, entries, revokedAt, identities,
                   loaded, timers, marking, calls, outage>>

\* backup.setComplete(): the owner has noted the master key down.  It changes
\* nothing when storage rejects.
SetBackupComplete(i) ==
    /\ identities[i].data
    /\ identities' = [identities EXCEPT ![i].data = FALSE]
    /\ backup' = backup \ {i}
    /\ UNCHANGED <<didVars, descriptor, deviceKey, entries, revokedAt, loaded, timers,
                   marking, removingBackup, calls, outage>>

-----------------------------------------------------------------------------
(* Revocation of this device.                                              *)

RevokedInMemory(i, d) ==
    identities' = IF identities[i].device = d
                    THEN [identities EXCEPT ![i].revoked = TRUE]
                    ELSE identities

\* Another device takes the key of this one out of the DID document, then the
\* entry with revokedAt replicates.  While the identity is being constructed
\* nobody listens; its constructor sets a timer then.
RemoteRevokes(i, d) ==
    /\ "revoke" \in Events
    /\ d \in entries[i] \ revokedAt[i]
    /\ \/ identities[i].device = d
       \/ \E c \in Callers : At(c, "apps") /\ calls[c].id = i /\ calls[c].device = d
    /\ didKeys' = [didKeys EXCEPT ![i] = @ \ {d}]
    /\ revokedAt' = [revokedAt EXCEPT ![i] = @ \union {d}]
    /\ RevokedInMemory(i, d)
    /\ marking' = IF identities[i].device = d THEN marking \union {<<i, d>>} ELSE marking
    /\ UNCHANGED <<known, descriptor, deviceKey, backup, entries, loaded, timers,
                   removingBackup, calls, outage>>

RevocationTimer(i, d) ==
    /\ <<i, d>> \in timers
    /\ timers' = timers \ {<<i, d>>}
    /\ RevokedInMemory(i, d)
    /\ marking' = marking \union {<<i, d>>}
    /\ UNCHANGED <<didVars, diskVars, loaded, removingBackup, calls, outage>>

\* The write waits for the secret and goes ahead whatever happened since, even
\* if the identity was removed; a rejection is logged.
MarkRevoked(i, d) ==
    /\ <<i, d>> \in marking
    /\ marking' = marking \ {<<i, d>>}
    /\ \/ descriptor' = [descriptor EXCEPT ![i] = "revoked"]
       \/ outage /\ UNCHANGED descriptor
    /\ UNCHANGED <<didVars, deviceKey, backup, entries, revokedAt, identities, loaded,
                   timers, removingBackup, calls, outage>>

-----------------------------------------------------------------------------
(* The environment.                                                        *)

OutageChanges ==
    /\ "outage" \in Events
    /\ outage' = ~outage
    /\ UNCHANGED <<didVars, diskVars, memoryVars, calls>>

Reload ==
    /\ "reload" \in Events
    /\ identities' = [i \in Ids |-> NoIdentity]
    /\ loaded' = FALSE
    /\ timers' = {} /\ marking' = {} /\ removingBackup' = {}
    /\ calls' = [c \in Callers |-> NoCall]
    /\ UNCHANGED <<didVars, diskVars, outage>>

-----------------------------------------------------------------------------
CreateIdentity(c) ==
    \/ UpdateDid(c)
    \/ StoreDescriptor(c)
    \/ StoreBackup(c)
    \/ CreateProfile(c)
    \/ StoreDevice(c)
    \/ PutEntry(c)
    \/ Construct(c)

RemoveIdentity(c) ==
    \/ RevokeKey(c)
    \/ FindDescriptor(c)
    \/ RemoveDescriptor(c)
    \/ RemoveDevice(c)
    \/ DropDevices(c)
    \/ DropProfile(c)
    \/ DropInstance(c)

Next ==
    \/ Load
    \/ \E c \in Callers :
          \/ Create(c) \/ Import(c) \/ CreateIdentity(c)
          \/ \E i \in Ids : Remove(c, i)
          \/ RemoveIdentity(c)
    \/ \E i \in Ids : BackupRemoved(i) \/ SetBackupComplete(i)
    \/ \E i \in Ids, d \in Devices :
          RemoteRevokes(i, d) \/ RevocationTimer(i, d) \/ MarkRevoked(i, d)
    \/ OutageChanges
    \/ Reload

Spec == Init /\ [][Next]_vars

-----------------------------------------------------------------------------
TypeOK ==
    /\ known \subseteq Ids
    /\ didKeys \in [Ids -> SUBSET Devices]
    /\ descriptor \in [Ids -> {"none", "valid", "revoked"}]
    /\ deviceKey \in [Ids -> Devices \union {None}]
    /\ backup \subseteq Ids
    /\ entries \in [Ids -> SUBSET Devices]
    /\ revokedAt \in [Ids -> SUBSET Devices]
    /\ identities \in [Ids -> IdentityRecords]
    /\ loaded \in BOOLEAN
    /\ timers \subseteq Ids \X Devices
    /\ marking \subseteq Ids \X Devices
    /\ removingBackup \subseteq Ids
    /\ calls \in [Callers -> CallRecords]
    /\ outage \in BOOLEAN

\* A device revoked by another one does not work on as if nothing had happened:
\* once no timer and no write is pending, the identity knows, although the mark
\* in storage may have failed, the process may have ended before it, or the
\* entry may have replicated while the identity was being constructed.
RevocationIsKnown ==
    \A i \in Ids :
       LET d == identities[i].device
       IN  d \in revokedAt[i] /\ <<i, d>> \notin timers => identities[i].revoked

\* import() refuses a DID that is there (IdentityAlreadyExistsError): no import
\* ends by replacing an identity of the wallet.
ImportRefusesExisting ==
    [][\A c \in Callers :
          calls[c].op = "import" /\ Construct(c) /\ identities' # identities
             => identities[calls[c].id] = NoIdentity]_vars
=============================================================================
