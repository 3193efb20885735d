--------------------------- MODULE IdentitiesProofs ---------------------------
(***************************************************************************)
(* Theorems about Identities, for every set of identities, devices and     *)
(* concurrent calls, whatever fails and wherever the process ends.         *)
(***************************************************************************)
EXTENDS IdentitiesHistory, TLAPS

-----------------------------------------------------------------------------
\* A call that goes on or ends stays a call, and so does one whose OrbitDB
\* instance is dropped under it.
LEMMA CallTyped ==
    ASSUME calls \in [Callers -> CallRecords], NEW c \in Callers, calls[c].pc # "idle"
    PROVE  /\ calls[c].id \in Ids /\ calls[c].device \in Devices
           /\ \A pc \in Pcs : Goto(c, pc) => calls' \in [Callers -> CallRecords]
           /\ Undo(c) => calls' \in [Callers -> CallRecords]
           /\ Ends(c) => calls' \in [Callers -> CallRecords]
<1>1. calls[c] \in CallRecords \ {NoCall}
  BY DEF NoCall
<1>2. ASSUME NEW pc \in Pcs PROVE [calls[c] EXCEPT !.pc = pc] \in CallRecords
  BY <1>1 DEF CallRecords
<1>3. ASSUME NEW pc \in Pcs, Goto(c, pc) PROVE calls' \in [Callers -> CallRecords]
  BY <1>2, <1>3 DEF Goto
<1>4. NoCall \in CallRecords
  BY DEF CallRecords
<1>5. QED
  BY <1>1, <1>3, <1>4 DEF CallRecords, Undo, Ends, Pcs

\* So does one that reopens its OrbitDB instance.
LEMMA ClosedTyped ==
    ASSUME calls \in [Callers -> CallRecords], NEW c \in Callers, calls[c].pc # "idle"
    PROVE  /\ [calls[c] EXCEPT !.closed = TRUE] \in CallRecords
           /\ \A pc \in Pcs : [calls[c] EXCEPT !.pc = pc, !.closed = FALSE] \in CallRecords
<1>1. calls[c] \in CallRecords \ {NoCall}
  BY DEF NoCall
<1>2. QED
  BY <1>1 DEF CallRecords

\* What create(), import() and remove() begin with.
LEMMA NewCallTyped ==
    ASSUME NEW op \in {"create", "import", "remove"}, NEW pc \in Pcs, NEW i \in Ids,
           NEW d \in Devices
    PROVE  NewCall(op, pc, i, d) \in CallRecords
BY DEF NewCall, CallRecords

\* An identity that learns of its revocation or loses its backup stays one.
LEMMA IdentityTyped ==
    ASSUME identities \in [Ids -> IdentityRecords], NEW i \in Ids
    PROVE  /\ \A d \in Devices : RevokedInMemory(i, d) => identities' \in [Ids -> IdentityRecords]
           /\ identities[i].data =>
                 [identities EXCEPT ![i].data = FALSE] \in [Ids -> IdentityRecords]
           /\ \A c \in Callers : Removed(c) => identities' \in [Ids -> IdentityRecords]
<1>1. ASSUME identities[i] # NoIdentity
      PROVE  /\ [identities[i] EXCEPT !.revoked = TRUE] \in IdentityRecords
             /\ [identities[i] EXCEPT !.data = FALSE] \in IdentityRecords
  BY <1>1 DEF IdentityRecords
<1>2. ASSUME NEW d \in Devices, RevokedInMemory(i, d)
      PROVE  identities' \in [Ids -> IdentityRecords]
  <2>1. identities[i].device = d => identities[i] # NoIdentity
    BY IdentitiesAssumption DEF NoIdentity
  <2>2. QED
    BY <1>1, <1>2, <2>1 DEF RevokedInMemory
<1>3. identities[i].data => identities[i] # NoIdentity
  BY DEF NoIdentity
<1>4. NoIdentity \in IdentityRecords
  BY DEF IdentityRecords
<1>5. QED
  BY <1>1, <1>2, <1>3, <1>4 DEF Removed

-----------------------------------------------------------------------------
\* No step breaks the types.
LEMMA TypeKept ==
    ASSUME TypeOK, [Next]_vars
    PROVE  TypeOK'
<1> USE IdentitiesAssumption DEF didVars, diskVars, memoryVars
<1>a. /\ calls \in [Callers -> CallRecords]
      /\ identities \in [Ids -> IdentityRecords]
  BY DEF TypeOK
<1>1. CASE Load
  <2>1. \A i \in Ids : Restored(i) \in IdentityRecords
    BY <1>1 DEF Load, CanRestore, Stored, Restored, IdentityRecords, TypeOK
  <2>2. timers' \subseteq Ids \X Devices
    BY <1>1 DEF Load, CanRestore, Stored, Unmarked, TypeOK
  <2>3. QED
    BY <1>1, <2>1, <2>2 DEF Load, TypeOK
<1>2. ASSUME NEW c \in Callers, Create(c) PROVE TypeOK'
  <2>1. calls' \in [Callers -> CallRecords]
    BY <1>2, <1>a, NewCallTyped DEF Create, Pcs, Creating
  <2>2. QED
    BY <1>2, <2>1 DEF Create, TypeOK
<1>3. ASSUME NEW c \in Callers, Import(c) PROVE TypeOK'
  <2>1. calls' \in [Callers -> CallRecords]
    BY <1>3, <1>a, NewCallTyped DEF Import, Pcs, Creating, TypeOK
  <2>2. QED
    BY <1>3, <2>1 DEF Import, TypeOK
<1>4. ASSUME NEW c \in Callers, UpdateDid(c) PROVE TypeOK'
  <2>1. calls[c].pc # "idle"
    BY <1>4 DEF UpdateDid, At
  <2>2. calls[c].id \in Ids /\ calls[c].device \in Devices
    BY <1>a, <2>1, CallTyped
  <2>3. calls' \in [Callers -> CallRecords]
    BY <1>4, <1>a, <2>1, CallTyped DEF UpdateDid, Pcs, Creating, Removing
  <2>4. QED
    BY <1>4, <2>2, <2>3 DEF UpdateDid, TypeOK
<1>5. ASSUME NEW c \in Callers, StoreDescriptor(c) PROVE TypeOK'
  <2>1. calls[c].pc # "idle"
    BY <1>5 DEF StoreDescriptor, At
  <2>2. calls[c].id \in Ids /\ calls[c].device \in Devices
    BY <1>a, <2>1, CallTyped
  <2>3. calls' \in [Callers -> CallRecords]
    BY <1>5, <1>a, <2>1, CallTyped DEF StoreDescriptor, Pcs, Creating, Removing
  <2>4. QED
    BY <1>5, <2>2, <2>3 DEF StoreDescriptor, TypeOK
<1>6. ASSUME NEW c \in Callers, StoreBackup(c) PROVE TypeOK'
  <2>1. calls[c].pc # "idle"
    BY <1>6 DEF StoreBackup, At
  <2>2. calls[c].id \in Ids /\ calls[c].device \in Devices
    BY <1>a, <2>1, CallTyped
  <2>3. calls' \in [Callers -> CallRecords]
    BY <1>6, <1>a, <2>1, CallTyped DEF StoreBackup, Pcs, Creating, Removing
  <2>4. QED
    BY <1>6, <2>2, <2>3 DEF StoreBackup, TypeOK
<1>7. ASSUME NEW c \in Callers, CreateProfile(c) PROVE TypeOK'
  <2>1. calls[c].pc # "idle"
    BY <1>7 DEF CreateProfile, At
  <2>2. calls[c].id \in Ids /\ calls[c].device \in Devices
    BY <1>a, <2>1, CallTyped
  <2>3. calls' \in [Callers -> CallRecords]
    BY <1>7, <1>a, <2>1, CallTyped DEF CreateProfile, Pcs, Creating, Removing
  <2>4. QED
    BY <1>7, <2>2, <2>3 DEF CreateProfile, TypeOK
<1>8. ASSUME NEW c \in Callers, StoreDevice(c) PROVE TypeOK'
  <2>1. calls[c].pc # "idle"
    BY <1>8 DEF StoreDevice, At
  <2>2. calls[c].id \in Ids /\ calls[c].device \in Devices
    BY <1>a, <2>1, CallTyped
  <2>3. calls' \in [Callers -> CallRecords]
    BY <1>8, <1>a, <2>1, CallTyped DEF StoreDevice, Pcs, Creating, Removing
  <2>4. QED
    BY <1>8, <2>2, <2>3 DEF StoreDevice, TypeOK
<1>9. ASSUME NEW c \in Callers, PutEntry(c) PROVE TypeOK'
  <2>1. calls[c].pc # "idle"
    BY <1>9 DEF PutEntry, At
  <2>2. calls[c].id \in Ids /\ calls[c].device \in Devices
    BY <1>a, <2>1, CallTyped
  <2>3. calls' \in [Callers -> CallRecords]
    BY <1>9, <1>a, <2>1, CallTyped DEF PutEntry, Pcs, Creating, Removing
  <2>4. QED
    BY <1>9, <2>2, <2>3 DEF PutEntry, TypeOK
<1>10. ASSUME NEW c \in Callers, Construct(c) PROVE TypeOK'
  <2>1. calls[c].pc # "idle"
    BY <1>10 DEF Construct, At
  <2>2. calls[c].id \in Ids /\ calls[c].device \in Devices
    BY <1>a, <2>1, CallTyped
  <2>3. calls' \in [Callers -> CallRecords]
    BY <1>10, <1>a, <2>1, CallTyped DEF Construct, Pcs, Creating, Removing
  <2>4. identities' \in [Ids -> IdentityRecords]
    <3>1. [device |-> calls[c].device, revoked |-> FALSE, data |-> calls[c].op = "create"]
             \in IdentityRecords
      <4>1. (calls[c].op = "create") \in BOOLEAN
        OBVIOUS
      <4>2. QED
        BY <2>2, <4>1 DEF IdentityRecords
    <3>2. QED
      BY <1>10, <1>a, <3>1 DEF Construct
  <2>5. QED
    BY <1>10, <2>2, <2>3, <2>4 DEF Construct, TypeOK
<1>11. ASSUME NEW c \in Callers, RevokeKey(c) PROVE TypeOK'
  <2>1. calls[c].pc # "idle"
    BY <1>11 DEF RevokeKey, At
  <2>2. calls[c].id \in Ids /\ calls[c].device \in Devices
    BY <1>a, <2>1, CallTyped
  <2>3. calls' \in [Callers -> CallRecords]
    BY <1>11, <1>a, <2>1, CallTyped DEF RevokeKey, Pcs, Creating, Removing
  <2>4. QED
    BY <1>11, <2>2, <2>3 DEF RevokeKey, TypeOK
<1>12. ASSUME NEW c \in Callers, FindDescriptor(c) PROVE TypeOK'
  <2>1. calls[c].pc # "idle"
    BY <1>12 DEF FindDescriptor, At
  <2>2. calls[c].id \in Ids /\ calls[c].device \in Devices
    BY <1>a, <2>1, CallTyped
  <2>3. calls' \in [Callers -> CallRecords]
    BY <1>12, <1>a, <2>1, CallTyped DEF FindDescriptor, Pcs, Creating, Removing
  <2>4. identities' \in [Ids -> IdentityRecords]
    BY <1>12, <1>a, <2>2, IdentityTyped DEF FindDescriptor
  <2>5. QED
    BY <1>12, <2>2, <2>3, <2>4 DEF FindDescriptor, TypeOK
<1>13. ASSUME NEW c \in Callers, RemoveDescriptor(c) PROVE TypeOK'
  <2>1. calls[c].pc # "idle"
    BY <1>13 DEF RemoveDescriptor, At
  <2>2. calls[c].id \in Ids /\ calls[c].device \in Devices
    BY <1>a, <2>1, CallTyped
  <2>3. calls' \in [Callers -> CallRecords]
    BY <1>13, <1>a, <2>1, CallTyped DEF RemoveDescriptor, Pcs, Creating, Removing
  <2>4. QED
    BY <1>13, <2>2, <2>3 DEF RemoveDescriptor, TypeOK
<1>14. ASSUME NEW c \in Callers, RemoveDevice(c) PROVE TypeOK'
  <2>1. calls[c].pc # "idle"
    BY <1>14 DEF RemoveDevice, At
  <2>2. calls[c].id \in Ids /\ calls[c].device \in Devices
    BY <1>a, <2>1, CallTyped
  <2>3. calls' \in [Callers -> CallRecords]
    <3>1. [calls[c] EXCEPT !.pc = "dropDevices", !.closed = FALSE] \in CallRecords
      BY <1>a, <2>1, ClosedTyped DEF Pcs, Removing
    <3>2. QED
      BY <1>14, <1>a, <2>1, <3>1, CallTyped DEF RemoveDevice
  <2>4. QED
    BY <1>14, <2>2, <2>3 DEF RemoveDevice, TypeOK
<1>15. ASSUME NEW c \in Callers, DropDevices(c) PROVE TypeOK'
  <2>1. calls[c].pc # "idle"
    BY <1>15 DEF DropDevices, At
  <2>2. calls[c].id \in Ids /\ calls[c].device \in Devices
    BY <1>a, <2>1, CallTyped
  <2>3. calls' \in [Callers -> CallRecords]
    BY <1>15, <1>a, <2>1, CallTyped DEF DropDevices, Pcs, Creating, Removing
  <2>4. QED
    BY <1>15, <2>2, <2>3 DEF DropDevices, TypeOK
<1>16. ASSUME NEW c \in Callers, DropProfile(c) PROVE TypeOK'
  <2>1. calls[c].pc # "idle"
    BY <1>16 DEF DropProfile, At
  <2>2. calls[c].id \in Ids /\ calls[c].device \in Devices
    BY <1>a, <2>1, CallTyped
  <2>3. calls' \in [Callers -> CallRecords]
    BY <1>16, <1>a, <2>1, CallTyped DEF DropProfile, Pcs, Creating, Removing
  <2>4. QED
    BY <1>16, <2>2, <2>3 DEF DropProfile, TypeOK
<1>17. ASSUME NEW c \in Callers, DropInstance(c) PROVE TypeOK'
  <2>1. calls[c].pc # "idle"
    BY <1>17 DEF DropInstance, At
  <2>2. calls[c].id \in Ids /\ calls[c].device \in Devices
    BY <1>a, <2>1, CallTyped
  <2>3. calls' \in [Callers -> CallRecords]
    <3>1. ASSUME NEW b \in Callers, calls[b].id = calls[c].id
          PROVE  [calls[b] EXCEPT !.closed = TRUE] \in CallRecords
      <4>1. calls[b].pc # "idle"
        BY <1>a, <2>2, <3>1 DEF CallRecords, NoCall, Pcs, Creating, Removing
      <4>2. QED
        BY <1>a, <4>1, ClosedTyped
    <3>2. NoCall \in CallRecords
      BY DEF CallRecords
    <3>3. QED
      BY <1>17, <1>a, <2>1, <3>1, <3>2, CallTyped DEF DropInstance
  <2>4. identities' \in [Ids -> IdentityRecords]
    BY <1>17, <1>a, <2>2, IdentityTyped DEF DropInstance
  <2>5. QED
    BY <1>17, <2>2, <2>3, <2>4 DEF DropInstance, TypeOK
<1>18. ASSUME NEW c \in Callers, NEW i \in Ids, Remove(c, i) PROVE TypeOK'
  <2>1. identities[i].device \in Devices
    BY <1>18, <1>a DEF Remove, IdentityRecords
  <2>2. calls' \in [Callers -> CallRecords]
    BY <1>18, <1>a, <2>1, NewCallTyped DEF Remove, Pcs
  <2>3. QED
    BY <1>18, <2>2 DEF Remove, TypeOK
<1>19. ASSUME NEW i \in Ids, BackupRemoved(i) PROVE TypeOK'
  BY <1>19 DEF BackupRemoved, TypeOK
<1>20. ASSUME NEW i \in Ids, SetBackupComplete(i) PROVE TypeOK'
  <2>1. identities' \in [Ids -> IdentityRecords]
    BY <1>20, <1>a, IdentityTyped DEF SetBackupComplete
  <2>2. QED
    BY <1>20, <2>1 DEF SetBackupComplete, TypeOK
<1>21. ASSUME NEW i \in Ids, NEW d \in Devices, RemoteRevokes(i, d) PROVE TypeOK'
  <2>1. identities' \in [Ids -> IdentityRecords]
    BY <1>21, <1>a, IdentityTyped DEF RemoteRevokes
  <2>2. QED
    <3>1. marking' \subseteq Ids \X Devices
      BY <1>21 DEF RemoteRevokes, TypeOK
    <3>2. /\ didKeys' \in [Ids -> SUBSET Devices]
          /\ revokedAt' \in [Ids -> SUBSET Devices]
      BY <1>21 DEF RemoteRevokes, TypeOK
    <3>3. QED
      BY <1>21, <2>1, <3>1, <3>2 DEF RemoteRevokes, TypeOK
<1>22. ASSUME NEW i \in Ids, NEW d \in Devices, RevocationTimer(i, d) PROVE TypeOK'
  <2>1. identities' \in [Ids -> IdentityRecords]
    BY <1>22, <1>a, IdentityTyped DEF RevocationTimer
  <2>2. QED
    BY <1>22, <2>1 DEF RevocationTimer, TypeOK
<1>23. ASSUME NEW i \in Ids, NEW d \in Devices, MarkRevoked(i, d) PROVE TypeOK'
  BY <1>23 DEF MarkRevoked, TypeOK
<1>24. CASE OutageChanges
  BY <1>24 DEF OutageChanges, TypeOK
<1>25. CASE Reload
  <2>1. NoIdentity \in IdentityRecords /\ NoCall \in CallRecords
    BY DEF IdentityRecords, CallRecords
  <2>2. QED
    BY <1>25, <2>1 DEF Reload, TypeOK
<1>26. CASE UNCHANGED vars
  BY <1>26 DEF vars, TypeOK
<1>27. QED
  BY <1>1, <1>2, <1>3, <1>4, <1>5, <1>6, <1>7, <1>8, <1>9, <1>10, <1>11, <1>12, <1>13, <1>14,
     <1>15, <1>16, <1>17, <1>18, <1>19, <1>20, <1>21, <1>22, <1>23, <1>24, <1>25, <1>26 DEF Next, CreateIdentity, RemoveIdentity

\* The identities keep their types: a call in flight never loses the identity
\* or the device it works on, and no identity of the wallet is without one.
THEOREM IdentitiesTypeCorrect == Spec => []TypeOK
<1>1. Init => TypeOK
  <2>1. NoIdentity \in IdentityRecords /\ NoCall \in CallRecords
    BY DEF IdentityRecords, CallRecords
  <2>2. QED
    <3>1. ASSUME Init
          PROVE  /\ didKeys \in [Ids -> SUBSET Devices]
                 /\ descriptor \in [Ids -> {"none", "valid", "revoked"}]
                 /\ deviceKey \in [Ids -> Devices \union {None}]
                 /\ entries \in [Ids -> SUBSET Devices]
                 /\ revokedAt \in [Ids -> SUBSET Devices]
      BY <3>1 DEF Init
    <3>2. ASSUME Init
          PROVE  identities \in [Ids -> IdentityRecords] /\ calls \in [Callers -> CallRecords]
      BY <2>1, <3>2 DEF Init
    <3>3. ASSUME Init
          PROVE  /\ known \subseteq Ids /\ backup \subseteq Ids /\ removingBackup \subseteq Ids
                 /\ timers \subseteq Ids \X Devices /\ marking \subseteq Ids \X Devices
                 /\ loaded \in BOOLEAN /\ outage \in BOOLEAN
      BY <3>3 DEF Init
    <3>4. QED
      BY <3>1, <3>2, <3>3 DEF TypeOK
<1>2. TypeOK /\ [Next]_vars => TypeOK'
  BY TypeKept
<1>3. QED
  BY <1>1, <1>2, PTL DEF Spec

-----------------------------------------------------------------------------
\* A device that another one revoked does not go on as if nothing had happened:
\* once the constructor's timer has run, its identity knows, although the mark
\* in storage may have failed or come to nothing with the process, or the
\* revocation may have replicated before anyone listened for it
\* (identities/identity/index.js:35-39, 97-106).
THEOREM RevocationKnown == Spec => []RevocationIsKnown
<1>1. Init => RevocationIsKnown
  BY DEF Init, RevocationIsKnown
<1>2. TypeOK /\ RevocationIsKnown /\ [Next]_vars => RevocationIsKnown'
  <2> SUFFICES ASSUME TypeOK, RevocationIsKnown, [Next]_vars,
                      NEW i \in Ids, identities'[i].device \in revokedAt'[i],
                      <<i, identities'[i].device>> \notin timers'
               PROVE  identities'[i].revoked
    BY DEF RevocationIsKnown
  <2> USE IdentitiesAssumption DEF didVars, diskVars, memoryVars
  <2>1. ASSUME identities'[i] = identities[i], revokedAt'[i] \subseteq revokedAt[i],
               \A d : <<i, d>> \in timers => <<i, d>> \in timers'
        PROVE  identities'[i].revoked
    BY <2>1 DEF RevocationIsKnown
  <2>2. identities'[i] # NoIdentity
    <3>1. TypeOK'
      BY TypeKept
    <3>2. QED
      BY <3>1 DEF NoIdentity, TypeOK
  <2>3. CASE Load
    <3>1. i \in Stored
      BY <2>2, <2>3 DEF Load, Restored
    <3>2. /\ identities'[i].device = deviceKey[i]
          /\ identities'[i].revoked <=> descriptor[i] = "revoked"
      BY <2>3, <3>1 DEF Load, Restored
    <3>3. ~Unmarked(i)
      BY <2>3, <3>1, <3>2 DEF Load
    <3>4. QED
      BY <2>3, <3>1, <3>2, <3>3 DEF Load, Stored, Unmarked, TypeOK
  <2>4. ASSUME NEW c \in Callers, Construct(c) PROVE identities'[i].revoked
    <3>1. CASE identities'[i] = identities[i]
      BY <2>1, <2>4, <3>1 DEF Construct
    <3>2. CASE identities'[i] # identities[i]
      <4>1. /\ i = calls[c].id /\ identities'[i].device = calls[c].device
            /\ timers' = IF calls[c].device \in revokedAt[i]
                           THEN timers \union {<<i, calls[c].device>>} ELSE timers
        BY <2>4, <3>2 DEF Construct, TypeOK
      <4>2. QED
        BY <2>4, <4>1 DEF Construct
    <3>3. QED
      BY <3>1, <3>2
  <2>5. ASSUME NEW c \in Callers, FindDescriptor(c) \/ DropInstance(c)
        PROVE  identities'[i].revoked
    <3>1. identities'[i] = identities[i]
      BY <2>2, <2>5 DEF FindDescriptor, DropInstance, Removed, TypeOK
    <3>2. QED
      BY <2>1, <2>5, <3>1 DEF FindDescriptor, DropInstance
  <2>6. ASSUME NEW c \in Callers, DropDevices(c) PROVE identities'[i].revoked
    BY <2>1, <2>6 DEF DropDevices, TypeOK
  <2>7. ASSUME NEW c \in Callers,
               \/ Create(c) \/ Import(c) \/ UpdateDid(c) \/ StoreDescriptor(c) \/ StoreBackup(c)
               \/ CreateProfile(c) \/ StoreDevice(c) \/ PutEntry(c) \/ RevokeKey(c)
               \/ RemoveDescriptor(c) \/ RemoveDevice(c) \/ DropProfile(c)
               \/ \E j \in Ids : Remove(c, j)
        PROVE  identities'[i].revoked
    <3>1. UNCHANGED <<identities, revokedAt, timers>>
      BY <2>7 DEF Create, Import, UpdateDid, StoreDescriptor, StoreBackup, CreateProfile,
           StoreDevice, PutEntry, RevokeKey, RemoveDescriptor, RemoveDevice, DropProfile, Remove
    <3>2. QED
      BY <2>1, <3>1
  <2>8. ASSUME NEW j \in Ids, BackupRemoved(j) PROVE identities'[i].revoked
    BY <2>1, <2>8 DEF BackupRemoved
  <2>9. ASSUME NEW j \in Ids, SetBackupComplete(j) PROVE identities'[i].revoked
    <3>1. identities[i].device = identities'[i].device /\ identities[i].revoked = identities'[i].revoked
      BY <2>9 DEF SetBackupComplete, TypeOK, IdentityRecords, NoIdentity
    <3>2. QED
      BY <2>9, <3>1 DEF SetBackupComplete, RevocationIsKnown
  <2>10. ASSUME NEW j \in Ids, NEW d \in Devices, RemoteRevokes(j, d) \/ RevocationTimer(j, d)
         PROVE  identities'[i].revoked
    <3>1. /\ identities'[i].device = identities[i].device
          /\ identities[i].revoked => identities'[i].revoked
          /\ i = j /\ identities[i].device = d => identities'[i].revoked
      BY <2>10 DEF RemoteRevokes, RevocationTimer, RevokedInMemory, TypeOK, IdentityRecords, NoIdentity
    <3>2. CASE i = j /\ identities[i].device = d
      BY <3>1, <3>2
    <3>3. CASE ~(i = j /\ identities[i].device = d)
      <4>1. identities[i].device \in revokedAt[i] /\ <<i, identities[i].device>> \notin timers
        BY <2>10, <3>1, <3>3 DEF RemoteRevokes, RevocationTimer, TypeOK
      <4>2. QED
        BY <3>1, <4>1 DEF RevocationIsKnown
    <3>4. QED
      BY <3>2, <3>3
  <2>11. CASE \/ \E j \in Ids, d \in Devices : MarkRevoked(j, d)
              \/ OutageChanges \/ UNCHANGED vars
    BY <2>1, <2>11 DEF MarkRevoked, OutageChanges, vars
  <2>12. CASE Reload
    BY <2>2, <2>12 DEF Reload
  <2>13. QED
    BY <2>3, <2>4, <2>5, <2>6, <2>7, <2>8, <2>9, <2>10, <2>11, <2>12
    DEF Next, CreateIdentity, RemoveIdentity
<1>3. QED
  BY <1>1, <1>2, IdentitiesTypeCorrect, PTL DEF Spec

-----------------------------------------------------------------------------
(* What the wallet knows is what it stores.                                *)

\* Whatever the wallet works on has a DID that exists.
KnownOK ==
    /\ Stored \subseteq known
    /\ \A i \in Ids : identities[i] # NoIdentity => i \in known
    /\ \A c \in Callers : calls[c] # NoCall => calls[c].id \in known
    /\ \A m \in timers \union marking : m[1] \in known

\* A step of create(), import() or remove() leaves every call that does not
\* end on its identity and device.
LEMMA CallsKept ==
    ASSUME TypeOK, NEW c \in Callers, CreateIdentity(c) \/ RemoveIdentity(c)
    PROVE  /\ calls[c] # NoCall
           /\ \A b \in Callers : calls'[b] # NoCall =>
                 /\ calls[b] # NoCall
                 /\ calls'[b].op = calls[b].op
                 /\ calls'[b].id = calls[b].id
                 /\ calls'[b].device = calls[b].device
<1> DEFINE Kept(b) == /\ calls[b] # NoCall
                      /\ calls'[b].op = calls[b].op
                      /\ calls'[b].id = calls[b].id
                      /\ calls'[b].device = calls[b].device
<1>1. calls \in [Callers -> CallRecords]
  BY DEF TypeOK
<1>2. calls[c].pc # "idle"
  BY DEF CreateIdentity, RemoveIdentity, UpdateDid, StoreDescriptor, StoreBackup, CreateProfile,
     StoreDevice, PutEntry, Construct, RevokeKey, FindDescriptor, RemoveDescriptor, RemoveDevice,
     DropDevices, DropProfile, DropInstance, At
<1>3. calls[c] # NoCall /\ calls[c].id \in Ids
  BY <1>1, <1>2, CallTyped DEF NoCall
<1>4. ASSUME NEW r \in CallRecords
      PROVE  /\ \A pc : [r EXCEPT !.pc = pc].op = r.op /\ [r EXCEPT !.pc = pc].id = r.id
                        /\ [r EXCEPT !.pc = pc].device = r.device
             /\ [r EXCEPT !.closed = TRUE].op = r.op /\ [r EXCEPT !.closed = TRUE].id = r.id
             /\ [r EXCEPT !.closed = TRUE].device = r.device
             /\ [r EXCEPT !.pc = "dropDevices", !.closed = FALSE].op = r.op
             /\ [r EXCEPT !.pc = "dropDevices", !.closed = FALSE].id = r.id
             /\ [r EXCEPT !.pc = "dropDevices", !.closed = FALSE].device = r.device
  BY <1>4 DEF CallRecords, NoCall
<1>5. ASSUME Ends(c), NEW b \in Callers, calls'[b] # NoCall PROVE Kept(b)
  BY <1>1, <1>5 DEF Ends
<1>6. ASSUME NEW pc \in Pcs, Goto(c, pc), NEW b \in Callers, calls'[b] # NoCall PROVE Kept(b)
  <2>1. calls'[b] = IF b = c THEN [calls[b] EXCEPT !.pc = pc] ELSE calls[b]
    BY <1>1, <1>6 DEF Goto
  <2>2. QED
    BY <1>1, <1>3, <1>4, <1>6, <2>1
<1>7. ASSUME RemoveDevice(c), NEW b \in Callers, calls'[b] # NoCall PROVE Kept(b)
  <2>1. CASE Ends(c)
    BY <1>5, <1>7, <2>1
  <2>2. CASE calls' = [calls EXCEPT ![c].pc = "dropDevices", ![c].closed = FALSE]
    <3>1. calls'[b] = IF b = c THEN [calls[b] EXCEPT !.pc = "dropDevices", !.closed = FALSE]
                               ELSE calls[b]
      BY <1>1, <2>2
    <3>2. QED
      BY <1>1, <1>3, <1>4, <1>7, <3>1
  <2>3. QED
    BY <1>7, <2>1, <2>2 DEF RemoveDevice
<1>8. ASSUME DropInstance(c), NEW b \in Callers, calls'[b] # NoCall PROVE Kept(b)
  <2>1. CASE Ends(c)
    BY <1>5, <1>8, <2>1
  <2>2. CASE ~Ends(c)
    <3>1. b # c
      BY <1>8, <2>2 DEF DropInstance
    <3>2. calls'[b] = IF calls[b].id = calls[c].id THEN [calls[b] EXCEPT !.closed = TRUE] ELSE calls[b]
      BY <1>8, <2>2, <3>1 DEF DropInstance
    <3>3. calls[b] = NoCall => calls[b].id # calls[c].id
      BY <1>3, IdentitiesAssumption DEF NoCall
    <3>4. QED
      BY <1>1, <1>4, <1>8, <3>2, <3>3
  <2>3. QED
    BY <2>1, <2>2
<1>9. \/ Ends(c) \/ RemoveDevice(c) \/ DropInstance(c)
      \/ \E pc \in Pcs : Goto(c, pc)
  BY DEF CreateIdentity, RemoveIdentity, UpdateDid, StoreDescriptor, StoreBackup, CreateProfile,
     StoreDevice, PutEntry, Construct, RevokeKey, FindDescriptor, RemoveDescriptor,
     DropDevices, DropProfile, Undo, Pcs, Creating, Removing
<1>10. QED
  BY <1>3, <1>5, <1>6, <1>7, <1>8, <1>9

\* No step works on an identity whose DID does not exist.
LEMMA KnownKept ==
    ASSUME TypeOK, KnownOK, [Next]_vars
    PROVE  KnownOK'
<1> USE IdentitiesAssumption DEF didVars, diskVars, memoryVars, Stored
<1>1. CASE Load
  <2>1. \A m \in timers' : m[1] \in Stored
    BY <1>1 DEF Load
  <2>2. QED
    BY <1>1, <2>1 DEF Load, KnownOK, Restored
<1>2. ASSUME NEW c \in Callers, Create(c) PROVE KnownOK'
  <2>1. PICK i \in Ids, d \in Devices :
          known' = known \union {i} /\ calls' = [calls EXCEPT ![c] = NewCall("create", "descriptor", i, d)]
    BY <1>2 DEF Create
  <2>2. \A b \in Callers : calls'[b] = IF b = c THEN NewCall("create", "descriptor", i, d) ELSE calls[b]
    BY <2>1 DEF TypeOK
  <2>3. QED
    BY <1>2, <2>1, <2>2 DEF Create, KnownOK, NewCall
<1>3. ASSUME NEW c \in Callers, Import(c) PROVE KnownOK'
  <2>1. PICK i \in known, d \in Devices : calls' = [calls EXCEPT ![c] = NewCall("import", "update", i, d)]
    BY <1>3 DEF Import
  <2>2. \A b \in Callers : calls'[b] = IF b = c THEN NewCall("import", "update", i, d) ELSE calls[b]
    BY <2>1 DEF TypeOK
  <2>3. QED
    BY <1>3, <2>1, <2>2 DEF Import, KnownOK, NewCall
<1>4. ASSUME NEW c \in Callers, NEW i \in Ids, Remove(c, i) PROVE KnownOK'
  <2>1. \A b \in Callers \ {c} : calls'[b] = calls[b]
    BY <1>4 DEF Remove, TypeOK
  <2>2. calls'[c].id = i
    BY <1>4 DEF Remove, NewCall, TypeOK
  <2>3. QED
    BY <1>4, <2>1, <2>2 DEF Remove, KnownOK
<1>5. ASSUME NEW c \in Callers, CreateIdentity(c) \/ RemoveIdentity(c) PROVE KnownOK'
  <2>1. calls[c].id \in known /\ UNCHANGED known
    BY <1>5, CallsKept DEF KnownOK, CreateIdentity, RemoveIdentity, UpdateDid, StoreDescriptor,
       StoreBackup, CreateProfile, StoreDevice, PutEntry, Construct, RevokeKey, FindDescriptor,
       RemoveDescriptor, RemoveDevice, DropDevices, DropProfile, DropInstance
  <2>2. \A b \in Callers : calls'[b] # NoCall => calls'[b].id \in known
    BY <1>5, CallsKept DEF KnownOK
  <2>3. \A i \in Ids \ {calls[c].id} : descriptor'[i] = descriptor[i] /\ identities'[i] = identities[i]
    BY <1>5 DEF TypeOK, CreateIdentity, RemoveIdentity, UpdateDid, StoreDescriptor,
       StoreBackup, CreateProfile, StoreDevice, PutEntry, Construct, RevokeKey, FindDescriptor,
       RemoveDescriptor, RemoveDevice, DropDevices, DropProfile, DropInstance, Removed
  <2>4. timers' \subseteq timers \union {<<calls[c].id, calls[c].device>>} /\ UNCHANGED marking
    BY <1>5 DEF CreateIdentity, RemoveIdentity, UpdateDid, StoreDescriptor,
       StoreBackup, CreateProfile, StoreDevice, PutEntry, Construct, RevokeKey, FindDescriptor,
       RemoveDescriptor, RemoveDevice, DropDevices, DropProfile, DropInstance
  <2>5. QED
    BY <2>1, <2>2, <2>3, <2>4 DEF KnownOK
<1>6. ASSUME NEW i \in Ids, BackupRemoved(i) \/ SetBackupComplete(i) PROVE KnownOK'
  <2>1. \A j \in Ids : identities'[j] # NoIdentity => identities[j] # NoIdentity
    <3>1. identities[i].data => identities[i] # NoIdentity
      BY DEF NoIdentity
    <3>2. \A j \in Ids \ {i} : identities'[j] = identities[j]
      BY <1>6 DEF BackupRemoved, SetBackupComplete, TypeOK
    <3>3. QED
      BY <1>6, <3>1, <3>2 DEF BackupRemoved, SetBackupComplete
  <2>2. QED
    BY <1>6, <2>1 DEF BackupRemoved, SetBackupComplete, KnownOK
<1>7. ASSUME NEW i \in Ids, NEW d \in Devices,
             RemoteRevokes(i, d) \/ RevocationTimer(i, d) \/ MarkRevoked(i, d)
      PROVE  KnownOK'
  <2>1. \A j \in Ids : identities'[j] # NoIdentity => identities[j] # NoIdentity
    <3>1. identities[i].device = d => identities[i] # NoIdentity
      BY DEF NoIdentity
    <3>2. \/ UNCHANGED identities
          \/ /\ identities[i].device = d
             /\ \A j \in Ids \ {i} : identities'[j] = identities[j]
      BY <1>7 DEF RemoteRevokes, RevocationTimer, MarkRevoked, RevokedInMemory, TypeOK
    <3>3. QED
      BY <3>1, <3>2
  <2>2. /\ timers' \subseteq timers
        /\ marking' \subseteq marking \/ (marking' = marking \union {<<i, d>>} /\ i \in known)
    <3>1. identities[i].device = d => i \in known
      BY DEF KnownOK, NoIdentity
    <3>2. <<i, d>> \in timers => i \in known
      BY DEF KnownOK
    <3>3. QED
      BY <1>7, <3>1, <3>2 DEF RemoteRevokes, RevocationTimer, MarkRevoked
  <2>3. Stored' \subseteq known
    <3>1. <<i, d>> \in marking => i \in known
      BY DEF KnownOK
    <3>2. QED
      BY <1>7, <3>1 DEF RemoteRevokes, RevocationTimer, MarkRevoked, KnownOK, TypeOK
  <2>4. UNCHANGED <<known, calls>>
    BY <1>7 DEF RemoteRevokes, RevocationTimer, MarkRevoked
  <2>5. QED
    BY <2>1, <2>2, <2>3, <2>4 DEF KnownOK
<1>8. CASE OutageChanges \/ UNCHANGED vars
  BY <1>8 DEF OutageChanges, vars, KnownOK
<1>9. CASE Reload
  BY <1>9 DEF Reload, KnownOK
<1>10. QED
  BY <1>1, <1>2, <1>3, <1>4, <1>5, <1>6, <1>7, <1>8, <1>9 DEF Next

-----------------------------------------------------------------------------
\* What a create() or import() has stored so far.
MakingOK ==
    \A c \in Callers :
       /\ ~loaded => calls[c] = NoCall
       /\ calls[c].pc \in Creating => calls[c].op \in {"create", "import"}
       /\ calls[c].op \in {"create", "import"} => identities[calls[c].id] = NoIdentity
       /\ calls[c].pc \in {"backup", "profile", "device", "entry", "apps"} => calls[c].id \in Stored
       /\ calls[c].pc \in {"entry", "apps"} => deviceKey[calls[c].id] = calls[c].device

\* Changes to an identity in memory leave it on its device.
LEMMA UpdateKept ==
    ASSUME identities \in [Ids -> IdentityRecords], NEW i \in Ids, identities[i] # NoIdentity,
           \/ identities' = [identities EXCEPT ![i].revoked = TRUE]
           \/ identities' = [identities EXCEPT ![i].data = FALSE]
    PROVE  \A j \in Ids : /\ identities'[j].device = identities[j].device
                          /\ identities'[j] = NoIdentity <=> identities[j] = NoIdentity
<1> USE IdentitiesAssumption
<1>1. identities[i].device \in Devices /\ identities'[i].device = identities[i].device
  BY DEF IdentityRecords
<1>2. identities'[i] # NoIdentity
  BY <1>1 DEF NoIdentity
<1>3. \A j \in Ids \ {i} : identities'[j] = identities[j]
  OBVIOUS
<1>4. QED
  BY <1>1, <1>2, <1>3

\* Adding the auxiliary variables changes nothing about the behaviours.
LEMMA HistoryIsSpec == SpecH => Spec
<1>1. InitH => Init
  BY DEF InitH
<1>2. [NextH]_historyVars => [Next]_vars
  BY DEF NextH, historyVars
<1>3. QED
  BY <1>1, <1>2, PTL DEF SpecH, Spec

\* Calls on other identities wait while one goes on.
LEMMA OthersWait ==
    ASSUME TypeOK, Apart, NEW c \in Callers, CreateIdentity(c) \/ RemoveIdentity(c)
    PROVE  \A b \in Callers \ {c} : calls'[b] = calls[b] /\ calls[b].id # calls[c].id
<1>1. calls \in [Callers -> CallRecords] /\ calls[c] # NoCall
  BY CallsKept DEF TypeOK
<1>2. calls[c].id \in Ids
  BY <1>1 DEF CallRecords
<1>3. \A b \in Callers \ {c} : calls[b].id # calls[c].id
  BY <1>1, <1>2, IdentitiesAssumption DEF Apart, NoCall
<1>4. CASE DropInstance(c)
  BY <1>1, <1>3, <1>4 DEF DropInstance, Ends
<1>5. CASE CreateIdentity(c) \/ (RemoveIdentity(c) /\ ~DropInstance(c))
  <2>1. \/ Ends(c) \/ \E pc \in Pcs : Goto(c, pc)
        \/ calls' = [calls EXCEPT ![c].pc = "dropDevices", ![c].closed = FALSE]
    BY <1>5 DEF CreateIdentity, RemoveIdentity, UpdateDid, StoreDescriptor, StoreBackup,
       CreateProfile, StoreDevice, PutEntry, Construct, RevokeKey, FindDescriptor, RemoveDescriptor,
       RemoveDevice, DropDevices, DropProfile, Undo, Pcs, Creating, Removing
  <2>2. QED
    BY <1>1, <1>3, <2>1 DEF Goto, Ends
<1>6. QED
  BY <1>3, <1>4, <1>5

\* No step leaves an identity of the wallet unstored, if the calls on it do
\* not overlap.
LEMMA StoredKept ==
    ASSUME Apart, TypeOK, KnownOK, MakingOK, IdentityIsStored, [NextH]_historyVars
    PROVE  MakingOK' /\ IdentityIsStored'
<1> USE IdentitiesAssumption
<1> USE DEF didVars, diskVars, memoryVars
<1>1. calls \in [Callers -> CallRecords] /\ identities \in [Ids -> IdentityRecords]
  BY DEF TypeOK
<1>2. CASE UNCHANGED historyVars
  BY <1>2 DEF historyVars, vars, MakingOK, IdentityIsStored, Stored, InFlight
<1>3. SUFFICES ASSUME NextH PROVE MakingOK' /\ IdentityIsStored'
  BY <1>2
<1>4. halfRemoved \subseteq halfRemoved'
  BY <1>3 DEF NextH
<1>5. ASSUME UNCHANGED <<calls, deviceKey, loaded>>, Stored \subseteq Stored',
             \A i \in Ids : /\ identities'[i].device = identities[i].device
                            /\ identities'[i] = NoIdentity <=> identities[i] = NoIdentity
      PROVE  MakingOK' /\ IdentityIsStored'
  <2>1. MakingOK'
    BY <1>1, <1>5 DEF MakingOK, CallRecords, NoCall
  <2>2. QED
    BY <1>4, <1>5, <2>1 DEF IdentityIsStored, InFlight
<1>6. CASE Load
  <2>1. MakingOK'
    BY <1>6 DEF Load, MakingOK, NoCall
  <2>2. QED
    BY <1>6, <2>1 DEF Load, IdentityIsStored, Stored, Restored
<1>7. ASSUME NEW c \in Callers, NEW op \in {"create", "import"}, NEW i \in Ids, NEW d \in Devices,
             NEW pc \in {"descriptor", "update"},
             calls' = [calls EXCEPT ![c] = NewCall(op, pc, i, d)], calls[c] = NoCall,
             identities[i] = NoIdentity, loaded, UNCHANGED <<diskVars, memoryVars>>
      PROVE  MakingOK' /\ IdentityIsStored'
  <2>1. calls'[c] = NewCall(op, pc, i, d) /\ \A b \in Callers \ {c} : calls'[b] = calls[b]
    BY <1>1, <1>7
  <2>2. MakingOK'
    BY <1>7, <2>1 DEF MakingOK, NewCall, Stored, Creating
  <2>3. QED
    BY <1>4, <1>7, <2>1, <2>2 DEF IdentityIsStored, InFlight, NoCall, Stored, Removing
<1>8. ASSUME NEW c \in Callers, Create(c) PROVE MakingOK' /\ IdentityIsStored'
  <2>1. PICK i \in Ids \ known, d \in Devices :
          calls' = [calls EXCEPT ![c] = NewCall("create", "descriptor", i, d)]
    BY <1>8 DEF Create
  <2>2. identities[i] = NoIdentity
    BY DEF KnownOK
  <2>3. QED
    BY <1>7, <1>8, <2>1, <2>2 DEF Create
<1>9. ASSUME NEW c \in Callers, Import(c) PROVE MakingOK' /\ IdentityIsStored'
  BY <1>7, <1>9 DEF Import, TypeOK
<1>10. ASSUME NEW c \in Callers, NEW i \in Ids, Remove(c, i) PROVE MakingOK' /\ IdentityIsStored'
  <2>1. /\ calls'[c].op = "remove" /\ loaded
        /\ \A b \in Callers \ {c} : calls'[b] = calls[b]
        /\ calls'[c].pc \in {"find", "revokeKey"} /\ calls[c] = NoCall
    BY <1>1, <1>10 DEF Remove, NewCall
  <2>2. MakingOK'
    BY <1>10, <2>1 DEF Remove, MakingOK, Stored, Creating
  <2>3. QED
    BY <1>4, <1>10, <2>1, <2>2 DEF Remove, IdentityIsStored, InFlight, NoCall, Stored, Removing
<1>11. ASSUME NEW c \in Callers, CreateIdentity(c) \/ RemoveIdentity(c)
       PROVE  MakingOK' /\ IdentityIsStored'
  <2> DEFINE r == calls[c]
  <2>1. /\ r \in CallRecords /\ r # NoCall
        /\ \A b \in Callers \ {c} : calls'[b] = calls[b] /\ calls[b].id # r.id
    BY <1>1, <1>11, CallsKept, OthersWait
  <2>2. /\ r.id \in Ids /\ r.device \in Devices /\ r.op \in {"create", "import", "remove"}
        /\ loaded /\ UNCHANGED loaded
    <3>1. UNCHANGED loaded
      BY <1>11 DEF CreateIdentity, RemoveIdentity, UpdateDid, StoreDescriptor,
       StoreBackup, CreateProfile, StoreDevice, PutEntry, Construct, RevokeKey, FindDescriptor,
       RemoveDescriptor, RemoveDevice, DropDevices, DropProfile, DropInstance
    <3>2. QED
      BY <2>1, <3>1 DEF CallRecords, MakingOK
  <2>3. calls'[c] # NoCall => calls'[c].op = r.op /\ calls'[c].id = r.id /\ calls'[c].device = r.device
    BY <1>11, CallsKept
  <2>4. \A j \in Ids \ {r.id} : /\ identities'[j] = identities[j]
                                /\ descriptor'[j] = descriptor[j]
                                /\ deviceKey'[j] = deviceKey[j]
    BY <1>11 DEF TypeOK, Removed, CreateIdentity, RemoveIdentity, UpdateDid, StoreDescriptor,
       StoreBackup, CreateProfile, StoreDevice, PutEntry, Construct, RevokeKey, FindDescriptor,
       RemoveDescriptor, RemoveDevice, DropDevices, DropProfile, DropInstance
  <2>5. \A j \in Ids \ {r.id} :
           \/ identities'[j] = NoIdentity
           \/ j \in Stored' /\ deviceKey'[j] = identities'[j].device
           \/ j \in halfRemoved'
           \/ \E b \in Callers : calls'[b].id = j /\ calls'[b].pc \in Removing
    BY <1>4, <2>1, <2>4 DEF IdentityIsStored, InFlight, Stored
  <2> DEFINE Making == /\ calls'[c].pc \in Creating => calls'[c].op \in {"create", "import"}
                       /\ calls'[c].op \in {"create", "import"} => identities'[r.id] = NoIdentity
                       /\ calls'[c].pc \in {"backup", "profile", "device", "entry", "apps"} => r.id \in Stored'
                       /\ calls'[c].pc \in {"entry", "apps"} => deviceKey'[r.id] = r.device
             Kept == \/ identities'[r.id] = NoIdentity
                     \/ r.id \in Stored' /\ deviceKey'[r.id] = identities'[r.id].device
                     \/ r.id \in halfRemoved'
                     \/ calls'[c].id = r.id /\ calls'[c].pc \in Removing
  <2>6. SUFFICES Making /\ Kept
    <3>1. Making => MakingOK'
      <4>1. \A b \in Callers \ {c} : calls[b] = NoCall \/ calls[b].id \in Ids \ {r.id}
        BY <1>1, <2>1 DEF CallRecords
      <4>2. QED
        BY <2>1, <2>2, <2>3, <2>4, <4>1 DEF MakingOK, NoCall, Stored, Creating
    <3>2. Kept => IdentityIsStored'
      BY <2>1, <2>5 DEF IdentityIsStored, InFlight
    <3>3. QED
      BY <3>1, <3>2
  <2>7. /\ r.pc \in Creating => r.op \in {"create", "import"}
        /\ r.op \in {"create", "import"} => identities[r.id] = NoIdentity
        /\ r.pc \in {"backup", "profile", "device", "entry", "apps"} => r.id \in Stored
        /\ r.pc \in {"entry", "apps"} => deviceKey[r.id] = r.device
        /\ \/ identities[r.id] = NoIdentity
           \/ r.id \in Stored /\ deviceKey[r.id] = identities[r.id].device
           \/ r.id \in halfRemoved
           \/ r.pc \in Removing
    BY <2>1, <2>2 DEF MakingOK, IdentityIsStored, InFlight
  <2>8. /\ \A pc : Goto(c, pc) => calls'[c].pc = pc /\ calls'[c].op = r.op
        /\ Undo(c) => calls'[c].pc = "find" /\ calls'[c].op = r.op
        /\ Ends(c) => calls'[c] = NoCall
    <3>1. ASSUME NEW pc, Goto(c, pc) PROVE calls'[c] = [r EXCEPT !.pc = pc]
      BY <1>1, <2>1, <3>1 DEF Goto
    <3>2. \A pc : [r EXCEPT !.pc = pc].pc = pc /\ [r EXCEPT !.pc = pc].op = r.op
      BY <2>1 DEF CallRecords
    <3>3. Ends(c) => calls'[c] = NoCall
      BY <1>1 DEF Ends
    <3>4. QED
      BY <3>1, <3>2, <3>3 DEF Undo
  <2>9. CASE UpdateDid(c) \/ StoreDescriptor(c) \/ StoreBackup(c) \/ CreateProfile(c)
             \/ StoreDevice(c) \/ PutEntry(c)
    <3>1. identities'[r.id] = NoIdentity
      BY <2>7, <2>9 DEF UpdateDid, StoreDescriptor, StoreBackup, CreateProfile, StoreDevice,
         PutEntry, At, Creating
    <3>2. r.id \in Stored => r.id \in Stored'
      BY <2>9 DEF UpdateDid, StoreDescriptor, StoreBackup, CreateProfile, StoreDevice,
         PutEntry, Stored, TypeOK
    <3>3. CASE UpdateDid(c) \/ PutEntry(c)
      BY <2>7, <2>8, <3>1, <3>2, <3>3 DEF UpdateDid, PutEntry, At, NoCall, Creating
    <3>4. CASE StoreBackup(c) \/ CreateProfile(c)
      BY <2>7, <2>8, <3>1, <3>2, <3>4 DEF StoreBackup, CreateProfile, At, NoCall, Creating
    <3>5. CASE StoreDescriptor(c)
      BY <2>2, <2>7, <2>8, <3>1, <3>5 DEF StoreDescriptor, Stored, At, NoCall, Creating, TypeOK
    <3>6. CASE StoreDevice(c)
      BY <2>2, <2>7, <2>8, <3>1, <3>2, <3>6 DEF StoreDevice, At, NoCall, Creating, TypeOK
    <3>7. QED
      BY <2>9, <3>3, <3>4, <3>5, <3>6
  <2>10. CASE Construct(c)
    <3>1. UNCHANGED <<descriptor, deviceKey>> /\ r.id \in Stored /\ deviceKey[r.id] = r.device
      BY <2>7, <2>10 DEF Construct, At
    <3>2. CASE Undo(c) /\ UNCHANGED identities
      BY <2>7, <2>8, <2>10, <3>2 DEF Construct, At, Creating, Stored
    <3>3. CASE Ends(c) /\ identities'[r.id].device = r.device
      BY <2>8, <3>1, <3>3 DEF NoCall, Stored, Creating
    <3>4. QED
      BY <1>1, <2>2, <2>10, <3>2, <3>3 DEF Construct
  <2>11. CASE RevokeKey(c)
    BY <1>4, <2>7, <2>8, <2>11 DEF RevokeKey, Creating, Removing, Stored, At, NoCall
  <2>12. CASE FindDescriptor(c) \/ RemoveDescriptor(c)
    <3>1. CASE FindDescriptor(c)
      BY <1>1, <1>4, <2>2, <2>7, <2>8, <3>1
      DEF FindDescriptor, Removed, Creating, Removing, Stored, At, NoCall
    <3>2. CASE RemoveDescriptor(c) /\ Goto(c, "removeDevice")
      BY <2>1, <2>3, <2>7, <2>8, <3>2 DEF RemoveDescriptor, Creating, Removing, NoCall
    <3>3. CASE RemoveDescriptor(c) /\ Ends(c) /\ UNCHANGED descriptor
      BY <1>4, <2>7, <2>8, <3>3 DEF RemoveDescriptor, Creating, Removing, Stored, At, NoCall
    <3>4. QED
      BY <2>12, <3>1, <3>2, <3>3 DEF RemoveDescriptor
  <2>13. CASE RemoveDevice(c) \/ DropDevices(c) \/ DropProfile(c)
    <3>1. \/ calls'[c] # NoCall /\ calls'[c].pc \in {"dropDevices", "dropProfile", "dropApps"}
          \/ Ends(c) /\ c \in CutOff
      <4>1. ASSUME RemoveDevice(c), ~Ends(c) PROVE calls'[c].pc = "dropDevices"
        BY <1>1, <2>1, <4>1 DEF RemoveDevice, CallRecords
      <4>2. QED
        BY <2>8, <2>13, <4>1 DEF RemoveDevice, DropDevices, DropProfile, CutOff, At, NoCall
    <3>2. CASE Ends(c) /\ c \in CutOff
      BY <1>3, <2>8, <3>2 DEF NextH, NoCall, Creating
    <3>3. CASE calls'[c] # NoCall /\ calls'[c].pc \in {"dropDevices", "dropProfile", "dropApps"}
      BY <2>3, <2>7, <2>13, <3>3 DEF RemoveDevice, DropDevices, DropProfile, Creating, Removing
    <3>4. QED
      BY <3>1, <3>2, <3>3
  <2>14. CASE DropInstance(c)
    <3>1. calls'[c] = NoCall
      BY <2>1, <2>8, <2>14 DEF DropInstance
    <3>2. CASE identities'[r.id] = NoIdentity
      BY <3>1, <3>2 DEF NoCall, Creating
    <3>3. CASE identities'[r.id] # NoIdentity
      <4>1. c \in CutOff
        BY <2>14, <3>1, <3>3 DEF DropInstance, CutOff
      <4>2. QED
        BY <1>3, <3>1, <4>1 DEF NextH, NoCall, Creating
    <3>4. QED
      BY <3>2, <3>3
  <2>15. QED
    BY <1>11, <2>9, <2>10, <2>11, <2>12, <2>13, <2>14 DEF CreateIdentity, RemoveIdentity
<1>12. ASSUME NEW i \in Ids, BackupRemoved(i) \/ SetBackupComplete(i)
       PROVE  MakingOK' /\ IdentityIsStored'
  <2>1. ASSUME NEW j \in Ids
        PROVE  /\ identities'[j].device = identities[j].device
               /\ identities'[j] = NoIdentity <=> identities[j] = NoIdentity
    <3>1. identities[i].data => identities[i] # NoIdentity
      BY DEF NoIdentity
    <3>2. QED
      BY <1>1, <1>12, <3>1, UpdateKept DEF BackupRemoved, SetBackupComplete
  <2>2. QED
    BY <1>5, <1>12, <2>1 DEF BackupRemoved, SetBackupComplete, Stored
<1>13. ASSUME NEW i \in Ids, NEW d \in Devices,
              RemoteRevokes(i, d) \/ RevocationTimer(i, d) \/ MarkRevoked(i, d)
       PROVE  MakingOK' /\ IdentityIsStored'
  <2>1. ASSUME NEW j \in Ids
        PROVE  /\ identities'[j].device = identities[j].device
               /\ identities'[j] = NoIdentity <=> identities[j] = NoIdentity
    <3>1. identities[i].device = d => identities[i] # NoIdentity
      BY DEF NoIdentity
    <3>2. QED
      BY <1>1, <1>13, <3>1, UpdateKept
      DEF RemoteRevokes, RevocationTimer, MarkRevoked, RevokedInMemory
  <2>2. Stored \subseteq Stored'
    BY <1>13 DEF RemoteRevokes, RevocationTimer, MarkRevoked, Stored, TypeOK
  <2>3. QED
    BY <1>5, <1>13, <2>1, <2>2 DEF RemoteRevokes, RevocationTimer, MarkRevoked
<1>14. CASE OutageChanges
  BY <1>5, <1>14 DEF OutageChanges, Stored
<1>15. CASE Reload
  <2>1. MakingOK'
    BY <1>15 DEF Reload, MakingOK, NoCall, Creating
  <2>2. QED
    BY <1>15, <2>1 DEF Reload, IdentityIsStored
<1>16. QED
  BY <1>3, <1>6, <1>8, <1>9, <1>10, <1>11, <1>12, <1>13, <1>14, <1>15 DEF NextH, Next

\* With any number of calls that do not overlap on one identity, an identity
\* that the wallet shows is found by the next process, as the same device,
\* wherever this one ends, whatever fails and whenever the device is revoked;
\* except while a removal is under way or after one that was cut off
\* (identities/identity/index.js:133-180).
THEOREM IdentityStored == SpecH /\ []Apart => []IdentityIsStored
<1>1. InitH => KnownOK /\ MakingOK /\ IdentityIsStored
  BY DEF InitH, Init, KnownOK, MakingOK, IdentityIsStored, Stored, NoCall, Creating
<1>2. Apart /\ TypeOK /\ KnownOK /\ MakingOK /\ IdentityIsStored /\ [NextH]_historyVars
        => MakingOK' /\ IdentityIsStored'
  BY StoredKept
<1>3. [NextH]_historyVars => [Next]_vars
  BY DEF NextH, historyVars
<1>4. QED
  BY <1>1, <1>2, <1>3, KnownKept, HistoryIsSpec, IdentitiesTypeCorrect, PTL DEF SpecH

-----------------------------------------------------------------------------
(* What the wallet stores can be loaded.                                   *)

\* A removal past the descriptor has nothing to be loaded, unless a late mark
\* put it back; what a create() or import() is done with can be restored.
LoadableOK ==
    \A c \in Callers :
       /\ calls[c].pc = "apps" => calls[c].device \in entries[calls[c].id]
       /\ calls[c].op = "remove" /\ calls[c].pc \in Removing =>
             calls[c].id \notin Stored \/ calls[c].id \in remarked

\* No step leaves a descriptor that cannot be loaded, if the calls on its
\* identity do not overlap.
LEMMA LoadableKept ==
    ASSUME Apart, TypeOK, KnownOK, MakingOK, LoadableOK, EveryDescriptorLoads, [NextH]_historyVars
    PROVE  LoadableOK' /\ EveryDescriptorLoads'
<1> USE IdentitiesAssumption DEF didVars, diskVars, memoryVars
<1> DEFINE Loads(i) == i \in halfMade \union remarked \/ CanRestore(i)
<1>1. calls \in [Callers -> CallRecords] /\ identities \in [Ids -> IdentityRecords]
  BY DEF TypeOK
<1>2. CASE UNCHANGED historyVars
  BY <1>2 DEF historyVars, vars, LoadableOK, EveryDescriptorLoads, Stored, InFlight, CanRestore
<1>3. SUFFICES ASSUME NextH PROVE LoadableOK' /\ EveryDescriptorLoads'
  BY <1>2
<1>4. /\ remarked \subseteq remarked'
      /\ \A i \in halfMade : i \in Stored' => i \in halfMade'
      /\ \A c \in Failed : calls[c].id \in Stored' => calls[c].id \in halfMade'
  BY <1>3 DEF NextH, Stored, KnownOK
<1>5. ASSUME Stored' \subseteq Stored, UNCHANGED <<deviceKey, entries>>,
             NEW i \in Stored', Loads(i)
      PROVE  Loads(i)'
  BY <1>4, <1>5 DEF CanRestore
<1>6. ASSUME UNCHANGED <<calls, descriptor, deviceKey, entries>>
      PROVE  LoadableOK' /\ EveryDescriptorLoads'
  BY <1>4, <1>6 DEF LoadableOK, EveryDescriptorLoads, Stored, InFlight, CanRestore
<1>7. ASSUME NEW c \in Callers, calls[c] = NoCall, calls'[c] # NoCall,
             calls'[c].pc \in {"descriptor", "update", "find", "revokeKey"},
             \A b \in Callers \ {c} : calls'[b] = calls[b],
             UNCHANGED <<descriptor, deviceKey, entries>>
      PROVE  LoadableOK' /\ EveryDescriptorLoads'
  <2>1. ASSUME NEW i \in Stored, ~Loads(i)
        PROVE  \E b \in Callers : calls'[b].id = i /\ calls'[b].op # "remove"
    <3>1. PICK b \in Callers : calls[b].id = i /\ calls[b].op # "remove"
      BY <2>1 DEF EveryDescriptorLoads, InFlight
    <3>2. b # c
      BY <1>7, <2>1, <3>1 DEF NoCall, Stored
    <3>3. QED
      BY <1>7, <3>1, <3>2
  <2>2. EveryDescriptorLoads'
    BY <1>4, <1>7, <2>1 DEF EveryDescriptorLoads, CanRestore, InFlight, Stored
  <2>3. LoadableOK'
    BY <1>4, <1>7 DEF LoadableOK, Removing, Stored
  <2>4. QED
    BY <2>2, <2>3
<1>8. CASE Load \/ OutageChanges
  BY <1>6, <1>8 DEF Load, OutageChanges
<1>9. ASSUME NEW c \in Callers, Create(c) PROVE LoadableOK' /\ EveryDescriptorLoads'
  BY <1>1, <1>7, <1>9 DEF Create, NewCall, NoCall
<1>10. ASSUME NEW c \in Callers, Import(c) PROVE LoadableOK' /\ EveryDescriptorLoads'
  BY <1>1, <1>7, <1>10 DEF Import, NewCall, NoCall
<1>11. ASSUME NEW c \in Callers, NEW i \in Ids, Remove(c, i)
       PROVE  LoadableOK' /\ EveryDescriptorLoads'
  BY <1>1, <1>7, <1>11 DEF Remove, NewCall, NoCall
<1>12. ASSUME NEW i \in Ids,
              \/ BackupRemoved(i) \/ SetBackupComplete(i)
              \/ \E d \in Devices : RemoteRevokes(i, d) \/ RevocationTimer(i, d)
       PROVE  LoadableOK' /\ EveryDescriptorLoads'
  BY <1>6, <1>12 DEF BackupRemoved, SetBackupComplete, RemoteRevokes, RevocationTimer
<1>13. ASSUME NEW i \in Ids, NEW d \in Devices, MarkRevoked(i, d)
       PROVE  LoadableOK' /\ EveryDescriptorLoads'
  <2>1. UNCHANGED <<calls, deviceKey, entries>>
    BY <1>13 DEF MarkRevoked
  <2>2. \A j \in Stored' \ Stored : j \in remarked'
    <3>1. Stored' \ Stored \subseteq {i}
      BY <1>13 DEF MarkRevoked, Stored, TypeOK
    <3>2. i \in Stored' \ Stored => Late(i, d)
      BY <1>13 DEF MarkRevoked, Stored, Late
    <3>3. <<i, d>> \in marking \ marking'
      BY <1>13 DEF MarkRevoked
    <3>4. QED
      BY <1>3, <3>1, <3>2, <3>3 DEF NextH
  <2>3. EveryDescriptorLoads'
    BY <1>4, <2>1, <2>2 DEF EveryDescriptorLoads, InFlight, CanRestore
  <2>4. LoadableOK'
    BY <1>4, <2>1, <2>2 DEF LoadableOK
  <2>5. QED
    BY <2>3, <2>4
<1>14. CASE Reload
  <2>1. \A c \in Callers : calls'[c] = NoCall
    BY <1>14 DEF Reload
  <2>2. ASSUME NEW i \in Stored' PROVE Loads(i)'
    <3>1. i \in Stored /\ UNCHANGED <<descriptor, deviceKey, entries>>
      BY <1>14 DEF Reload, Stored
    <3>2. CASE Loads(i)
      BY <1>5, <3>1, <3>2 DEF Stored
    <3>3. ASSUME NEW c \in InFlight(i), calls[c].op # "remove" PROVE i \in halfMade'
      <4>1. c \in Callers /\ calls[c].id = i /\ calls[c] # NoCall
        BY <3>1, <3>3 DEF InFlight, NoCall, Stored
      <4>2. calls[c].op \in {"create", "import"} /\ calls[c].device \in Devices
        BY <1>1, <3>3, <4>1 DEF CallRecords
      <4>3. identities'[i].device = None
        BY <1>14, <3>1 DEF Reload, NoIdentity, Stored
      <4>4. c \in Failed
        BY <2>1, <4>1, <4>2, <4>3 DEF Failed
      <4>5. QED
        BY <1>4, <4>1, <4>4
    <3>4. QED
      BY <3>1, <3>2, <3>3 DEF EveryDescriptorLoads
  <2>3. QED
    BY <2>1, <2>2 DEF EveryDescriptorLoads, LoadableOK, NoCall, Removing
<1>15. ASSUME NEW c \in Callers, CreateIdentity(c) \/ RemoveIdentity(c)
       PROVE  LoadableOK' /\ EveryDescriptorLoads'
  <2>0. PICK r : r = calls[c]
    OBVIOUS
  <2> USE <2>0
  <2>1. /\ r \in CallRecords /\ r # NoCall
        /\ \A b \in Callers \ {c} : calls'[b] = calls[b] /\ calls[b].id # r.id
    BY <1>1, <1>15, CallsKept, OthersWait
  <2>2. r.id \in Ids /\ r.device \in Devices /\ r.op \in {"create", "import", "remove"}
    BY <2>1 DEF CallRecords
  <2>3. calls'[c] # NoCall => calls'[c].op = r.op /\ calls'[c].id = r.id /\ calls'[c].device = r.device
    BY <1>15, CallsKept
  <2>4. \A j \in Ids \ {r.id} : /\ descriptor'[j] = descriptor[j]
                                /\ deviceKey'[j] = deviceKey[j]
                                /\ entries'[j] = entries[j]
    BY <1>15 DEF TypeOK, CreateIdentity, RemoveIdentity, UpdateDid, StoreDescriptor, StoreBackup,
       CreateProfile, StoreDevice, PutEntry, Construct, RevokeKey, FindDescriptor,
       RemoveDescriptor, RemoveDevice, DropDevices, DropProfile, DropInstance
  <2>5. \A j \in Stored' \ {r.id} :
           Loads(j)' \/ \E b \in Callers : calls'[b].id = j /\ calls'[b].op # "remove"
    BY <1>4, <2>1, <2>4 DEF EveryDescriptorLoads, InFlight, Stored, CanRestore
  <2> DEFINE Loadable == /\ calls'[c].pc = "apps" => calls'[c].device \in entries'[calls'[c].id]
                         /\ calls'[c].op = "remove" /\ calls'[c].pc \in Removing =>
                               r.id \notin Stored' \/ r.id \in remarked'
             Loaded == \/ r.id \notin Stored' \/ Loads(r.id)'
                       \/ calls'[c].id = r.id /\ calls'[c].op # "remove"
  <2>6. SUFFICES Loadable /\ Loaded
    <3>1. Loadable => LoadableOK'
      <4>1. \A b \in Callers \ {c} : calls[b] = NoCall \/ calls[b].id \in Ids \ {r.id}
        BY <1>1, <2>1 DEF CallRecords
      <4>2. QED
        BY <1>4, <2>1, <2>3, <2>4, <4>1 DEF LoadableOK, NoCall, Removing, Stored
    <3>2. Loaded => EveryDescriptorLoads'
      BY <2>1, <2>5 DEF EveryDescriptorLoads, InFlight
    <3>3. QED
      BY <3>1, <3>2
  <2>a. calls'[c].pc = "apps" => PutEntry(c) /\ Goto(c, "apps")
    <3>1. \A pc \in Pcs : Goto(c, pc) => calls'[c].pc = pc
      BY <1>1, <2>1 DEF Goto
    <3>2. Ends(c) \/ Undo(c) => calls'[c].pc # "apps"
      BY <1>1, <2>1, <3>1 DEF Ends, Undo, NoCall, Pcs
    <3>3. CASE CreateIdentity(c)
      BY <3>1, <3>2, <3>3 DEF Pcs, Creating, CreateIdentity, UpdateDid, StoreDescriptor,
         StoreBackup, CreateProfile, StoreDevice, PutEntry, Construct
    <3>4. CASE RevokeKey(c) \/ FindDescriptor(c) \/ RemoveDescriptor(c)
      BY <3>1, <3>2, <3>4 DEF Pcs, Removing, RevokeKey, FindDescriptor, RemoveDescriptor
    <3>5. CASE RemoveDevice(c) \/ DropDevices(c) \/ DropProfile(c)
      <4>1. CASE RemoveDevice(c)
        BY <1>1, <2>1, <3>2, <4>1 DEF RemoveDevice, CallRecords
      <4>2. CASE DropDevices(c) \/ DropProfile(c)
        BY <3>1, <3>2, <4>2 DEF Pcs, Removing, DropDevices, DropProfile
      <4>3. QED
        BY <3>5, <4>1, <4>2
    <3>6. CASE DropInstance(c)
      BY <1>1, <2>1, <3>2, <3>6 DEF NoCall, DropInstance
    <3>7. QED
      BY <1>15, <3>3, <3>4, <3>5, <3>6 DEF RemoveIdentity
  <2>7. CASE r.op # "remove" /\ calls'[c] # NoCall
    <3>1. ASSUME calls'[c].pc = "apps" PROVE r.device \in entries'[r.id]
      <4>1. entries' = [entries EXCEPT ![r.id] = @ \union {r.device}]
        BY <1>1, <2>1, <2>a, <3>1 DEF PutEntry, Goto, Undo, CallRecords, NoCall
      <4>2. QED
        BY <2>2, <4>1 DEF TypeOK
    <3>2. QED
      BY <2>2, <2>3, <2>7, <3>1
  <2>8. CASE r.op # "remove" /\ calls'[c] = NoCall
    <3>1. CASE identities'[r.id].device # r.device
      <4>1. c \in Failed
        BY <2>2, <2>8, <3>1 DEF Failed
      <4>2. QED
        BY <1>4, <2>8, <4>1 DEF NoCall, Removing
    <3>2. CASE identities'[r.id].device = r.device
      <4>1. identities[r.id] = NoIdentity
        BY <2>2, <2>8 DEF MakingOK
      <4>2. identities'[r.id] # identities[r.id]
        BY <2>2, <3>2, <4>1 DEF NoIdentity
      <4>3. Construct(c)
        BY <1>15, <2>8, <4>1, <4>2 DEF Removed, CreateIdentity, RemoveIdentity, UpdateDid, StoreDescriptor, StoreBackup,
       CreateProfile, StoreDevice, PutEntry, Construct, RevokeKey, FindDescriptor,
       RemoveDescriptor, RemoveDevice, DropDevices, DropProfile, DropInstance
      <4>4. UNCHANGED <<deviceKey, entries>> /\ deviceKey[r.id] = r.device /\ r.device \in entries[r.id]
        BY <4>3 DEF Construct, At, MakingOK, LoadableOK
      <4>5. QED
        BY <2>2, <2>8, <4>4 DEF CanRestore, NoCall, Removing
    <3>3. QED
      BY <3>1, <3>2
  <2>9. CASE r.op = "remove"
    <3>1. RemoveIdentity(c)
      BY <1>15, <2>9 DEF MakingOK, Creating, At, CreateIdentity, UpdateDid, StoreDescriptor,
         StoreBackup, CreateProfile, StoreDevice, PutEntry, Construct
    <3>2. r.id \in Stored => Loads(r.id)
      BY <2>1, <2>9 DEF EveryDescriptorLoads, InFlight
    <3>3. calls'[c].pc # "apps"
      BY <2>9, <2>a DEF PutEntry, At, MakingOK, Creating
    <3>4. CASE RevokeKey(c) \/ FindDescriptor(c) \/ (RemoveDescriptor(c) /\ Ends(c))
      <4>1. UNCHANGED <<descriptor, deviceKey, entries>>
        BY <1>1, <3>4, <2>1 DEF RevokeKey, FindDescriptor, RemoveDescriptor, Goto, Ends, CallRecords, NoCall
      <4>2. calls'[c].pc \in {"find", "removeDescriptor", "idle"}
        BY <1>1, <2>1, <3>4 DEF RevokeKey, FindDescriptor, Goto, Ends, CallRecords, NoCall
      <4>3. QED
        BY <1>4, <3>2, <3>3, <4>1, <4>2 DEF Stored, CanRestore, Removing
    <3>5. CASE RemoveDescriptor(c) /\ ~Ends(c)
      <4>1. r.id \notin Stored'
        BY <2>2, <3>5 DEF RemoveDescriptor, Stored, TypeOK
      <4>2. QED
        BY <3>3, <4>1
    <3>6. CASE RemoveDevice(c) \/ DropDevices(c) \/ DropProfile(c) \/ DropInstance(c)
      <4>1. r.pc \in Removing /\ UNCHANGED descriptor
        BY <3>6 DEF RemoveDevice, DropDevices, DropProfile, DropInstance, At, Removing
      <4>2. r.id \notin Stored' \/ r.id \in remarked'
        BY <1>4, <2>9, <4>1 DEF LoadableOK, Stored
      <4>3. QED
        BY <3>3, <4>2
    <3>7. QED
      BY <3>1, <3>4, <3>5, <3>6 DEF RemoveIdentity
  <2>10. QED
    BY <2>7, <2>8, <2>9
<1>16. QED
  BY <1>3, <1>8, <1>9, <1>10, <1>11, <1>12, <1>13, <1>14, <1>15 DEF NextH, Next

\* load() restores all identities or none, so one descriptor that cannot be
\* restored locks the owner out of every identity.  With any number of calls
\* that do not overlap on one identity, wherever the process ends and whatever
\* fails, only a creation that was cut off or a mark written after a removal
\* leaves such a descriptor: a removal that is cut off never does
\* (identities/identity/index.js:133-203).
THEOREM DescriptorsLoad == SpecH /\ []Apart => []EveryDescriptorLoads
<1>1. InitH => /\ KnownOK /\ MakingOK /\ IdentityIsStored
               /\ LoadableOK /\ EveryDescriptorLoads
  BY DEF InitH, Init, KnownOK, MakingOK, IdentityIsStored, LoadableOK, EveryDescriptorLoads,
     Stored, NoCall, Creating, Removing
<1>2. Apart /\ TypeOK /\ KnownOK /\ MakingOK /\ IdentityIsStored /\ [NextH]_historyVars
        => MakingOK' /\ IdentityIsStored'
  BY StoredKept
<1>3. Apart /\ TypeOK /\ KnownOK /\ MakingOK /\ LoadableOK /\ EveryDescriptorLoads /\ [NextH]_historyVars
        => LoadableOK' /\ EveryDescriptorLoads'
  BY LoadableKept
<1>4. [NextH]_historyVars => [Next]_vars
  BY DEF NextH, historyVars
<1>5. QED
  BY <1>1, <1>2, <1>3, <1>4, KnownKept, HistoryIsSpec, IdentitiesTypeCorrect, PTL DEF SpecH
=============================================================================
