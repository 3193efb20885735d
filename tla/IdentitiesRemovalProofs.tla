------------------------ MODULE IdentitiesRemovalProofs ------------------------
(***************************************************************************)
(* Theorems about what a failed creation or a removal leaves behind, and   *)
(* that Identities implements Holdings, for any number of calls that do    *)
(* not overlap on one identity, on top of those of IdentitiesProofs.       *)
(***************************************************************************)
EXTENDS IdentitiesProofs

\* Nothing of identity i is left, except for a backup that is being removed.
Clean(i) ==
    /\ i \notin Stored
    /\ i \in backup => i \in removingBackup
    /\ deviceKey[i] = None
    /\ entries[i] = {}

Tidy(i) == i \in halfMade \union halfRemoved \union remarked \/ Clean(i)

HalfMadeStored == \A i \in halfMade : descriptor[i] # "none"

\* Who keeps what there is of an identity.
Kept(i) ==
    \/ Tidy(i)
    \/ InFlight(i) # {}
    \/ IF loaded THEN identities[i] # NoIdentity ELSE i \in Stored

\* What a call has left at each wait: a creation starts from nothing, and a
\* removal has removed what comes before the wait it stands at.
PhaseOK(op, pc, i) ==
    /\ op = "remove" => identities[i] # NoIdentity
    /\ pc = "revokeKey" => op = "remove"
    /\ pc \in {"update", "descriptor"} => Tidy(i)
    /\ pc \in {"find", "removeDescriptor"} /\ op # "remove" => Tidy(i) \/ i \in Stored
    /\ pc \in Removing => i \notin Stored \/ i \in remarked
    /\ pc \in {"dropDevices", "dropProfile", "dropApps"} => deviceKey[i] = None
    /\ pc \in {"dropProfile", "dropApps"} => entries[i] = {}
    /\ pc = "dropApps" /\ i \in backup => i \in removingBackup \union halfRemoved

TidyOK ==
    /\ HalfMadeStored
    /\ \A i \in Ids : Kept(i)
    /\ \A c \in Callers : calls[c] # NoCall => PhaseOK(calls[c].op, calls[c].pc, calls[c].id)

-----------------------------------------------------------------------------
\* What the auxiliary variables remember of a step.
LEMMA HistoryGrows ==
    ASSUME NextH
    PROVE  /\ halfRemoved \subseteq halfRemoved' /\ remarked \subseteq remarked'
           /\ orphans \subseteq orphans'
           /\ HalfMadeStored'
           /\ \A i \in halfMade : descriptor'[i] # "none" => i \in halfMade'
           /\ \A c \in Failed : /\ descriptor'[calls[c].id] # "none" => calls[c].id \in halfMade'
                                /\ calls[c].device \in orphans'
           /\ \A c \in CutOff : calls[c].id \in halfRemoved'
           /\ \A i \in removingBackup : i \in backup' => i \in removingBackup' \union halfRemoved'
BY DEF NextH, HalfMadeStored, BackupKept

\* What is tidy stays so, unless the step works on it.
LEMMA TidyStays ==
    ASSUME NextH, HalfMadeStored, NEW i \in Ids, Tidy(i),
           descriptor'[i] = descriptor[i], deviceKey'[i] = deviceKey[i],
           entries'[i] = entries[i], i \in backup' => i \in backup
    PROVE  Tidy(i)'
BY HistoryGrows DEF Tidy, Clean, Stored, HalfMadeStored

\* Phases depend on the identity of the call only.
LEMMA PhaseStays ==
    ASSUME NextH, HalfMadeStored, NEW i \in Ids, NEW op, NEW pc, PhaseOK(op, pc, i),
           descriptor'[i] = descriptor[i], deviceKey'[i] = deviceKey[i],
           entries'[i] = entries[i], i \in backup' => i \in backup,
           identities[i] # NoIdentity => identities'[i] # NoIdentity
    PROVE  PhaseOK(op, pc, i)'
<1>1. Tidy(i) => Tidy(i)'
  BY TidyStays
<1>2. i \in Stored' <=> i \in Stored
  BY DEF Stored
<1>. QED BY <1>1, <1>2, HistoryGrows DEF PhaseOK

\* So do those of the calls on an identity that the step leaves alone.
LEMMA CallPhaseStays ==
    ASSUME NextH, HalfMadeStored, NEW i \in Ids,
           NEW b \in Callers, calls'[b] = calls[b], calls[b].id = i,
           PhaseOK(calls[b].op, calls[b].pc, i),
           descriptor'[i] = descriptor[i], deviceKey'[i] = deviceKey[i],
           entries'[i] = entries[i], i \in backup' => i \in backup,
           identities[i] # NoIdentity => identities'[i] # NoIdentity
    PROVE  PhaseOK(calls[b].op, calls[b].pc, calls[b].id)'
<1>1. PICK op, pc : op = calls[b].op /\ pc = calls[b].pc
  OBVIOUS
<1>2. PhaseOK(op, pc, i)
  BY <1>1
<1>3. PhaseOK(op, pc, i)'
  BY <1>2, PhaseStays
<1>4. i = calls'[b].id /\ op = calls'[b].op /\ pc = calls'[b].pc
  BY <1>1
<1>5. Tidy(i)' <=> Tidy(calls[b].id)'
  BY <1>4 DEF Tidy, Clean, Stored
<1>. QED BY <1>3, <1>4, <1>5 DEF PhaseOK, Stored

\* A step of create(), import() or remove() works on one identity.
LEMMA OthersStay ==
    ASSUME TypeOK, NEW c \in Callers, CreateIdentity(c) \/ RemoveIdentity(c),
           NEW i \in Ids, i # calls[c].id
    PROVE  /\ descriptor'[i] = descriptor[i] /\ deviceKey'[i] = deviceKey[i]
           /\ entries'[i] = entries[i] /\ didKeys'[i] = didKeys[i]
           /\ i \in backup' => i \in backup
           /\ identities'[i] = identities[i]
           /\ loaded' = loaded
BY DEF TypeOK, Removed, CreateIdentity, RemoveIdentity, UpdateDid, StoreDescriptor, StoreBackup,
   CreateProfile, StoreDevice, PutEntry, Construct, RevokeKey, FindDescriptor, RemoveDescriptor,
   RemoveDevice, DropDevices, DropProfile, DropInstance, didVars, diskVars, memoryVars

\* A call is the only one on its identity.
LEMMA OnlyCall ==
    ASSUME Apart, TypeOK, NEW c \in Callers, calls[c] # NoCall
    PROVE  calls[c].id \in Ids /\ InFlight(calls[c].id) = {c}
<1>1. \A b \in Callers : calls[b] # NoCall => calls[b].id \in Ids
  BY DEF TypeOK, CallRecords
<1>2. ASSUME NEW b \in Callers, calls[b].id = calls[c].id PROVE b = c
  <2>1. calls[b] # NoCall
    BY <1>1, <1>2, IdentitiesAssumption DEF NoCall
  <2>. QED BY <1>2, <2>1 DEF Apart
<1>. QED BY <1>1, <1>2 DEF InFlight

\* A step of a call leaves the calls on the other identities as they are.
LEMMA OthersInFlight ==
    ASSUME Apart, TypeOK, NEW c \in Callers, CreateIdentity(c) \/ RemoveIdentity(c),
           NEW i \in Ids, i # calls[c].id
    PROVE  c \notin InFlight(i) /\ InFlight(i)' = InFlight(i)
<1>1. calls \in [Callers -> CallRecords]
  BY DEF TypeOK
<1>2. calls'[c].id \in {calls[c].id, None}
  BY <1>1, CallsKept DEF NoCall
<1>3. \A b \in Callers \ {c} : calls'[b] = calls[b]
  BY OthersWait
<1>. QED BY <1>2, <1>3, IdentitiesAssumption DEF InFlight

\* No step of calls on different identities leaves anything untidy.
LEMMA TidyKept ==
    ASSUME Apart, Apart', TypeOK, KnownOK, MakingOK, IdentityIsStored, TidyOK, [NextH]_historyVars
    PROVE  TidyOK'
<1>. USE IdentitiesAssumption DEF didVars, diskVars, memoryVars
<1>1. calls \in [Callers -> CallRecords] /\ identities \in [Ids -> IdentityRecords]
  BY DEF TypeOK
<1>2. CASE UNCHANGED historyVars
  BY <1>2 DEF historyVars, vars, TidyOK, HalfMadeStored, Kept, PhaseOK, Tidy, Clean, InFlight, Stored
<1>3. SUFFICES ASSUME NextH
               PROVE  /\ \A i \in Ids : Kept(i)'
                      /\ \A c \in Callers : calls'[c] # NoCall =>
                            PhaseOK(calls[c].op, calls[c].pc, calls[c].id)'
  BY <1>2, HistoryGrows DEF TidyOK
<1>. DEFINE Goal == /\ \A i \in Ids : Kept(i)'
                    /\ \A c \in Callers : calls'[c] # NoCall =>
                          PhaseOK(calls[c].op, calls[c].pc, calls[c].id)'
<1>4. HalfMadeStored /\ \A c \in Callers : calls[c] # NoCall => calls[c].id \in Ids /\ InFlight(calls[c].id) = {c}
  BY OnlyCall DEF TidyOK
\* Steps that change nothing that is kept.
<1>5. ASSUME UNCHANGED <<calls, loaded, descriptor, deviceKey, entries>>, backup' \subseteq backup,
             \A i \in Ids : identities'[i] = NoIdentity <=> identities[i] = NoIdentity
      PROVE  Goal
  <2>1. ASSUME NEW i \in Ids PROVE Kept(i)'
    BY <1>3, <1>4, <1>5, TidyStays DEF TidyOK, Kept, InFlight, Stored
  <2>2. ASSUME NEW c \in Callers, calls'[c] # NoCall
        PROVE  PhaseOK(calls[c].op, calls[c].pc, calls[c].id)'
    <3>1. calls[c].id \in Ids /\ PhaseOK(calls[c].op, calls[c].pc, calls[c].id)
      BY <1>4, <1>5, <2>2 DEF TidyOK
    <3>2. PhaseOK(calls[c].op, calls[c].pc, calls[c].id)' <=>
          (\A op, pc, i : op = calls[c].op /\ pc = calls[c].pc /\ i = calls[c].id => PhaseOK(op, pc, i)')
      BY <1>5 DEF PhaseOK, Tidy, Clean, Stored
    <3>. QED BY <1>3, <1>4, <1>5, <3>1, <3>2, PhaseStays
  <2>. QED BY <2>1, <2>2
<1>6. CASE Load
  <2>1. \A c \in Callers : calls[c] = NoCall /\ calls'[c] = NoCall
    BY <1>6 DEF Load, MakingOK
  <2>2. ASSUME NEW i \in Ids PROVE Kept(i)'
    <3>1. Tidy(i) \/ i \in Stored
      BY <1>6, <2>1 DEF Load, TidyOK, Kept, InFlight, NoCall
    <3>2. Tidy(i) => Tidy(i)'
      BY <1>3, <1>4, <1>6, TidyStays DEF Load
    <3>3. i \in Stored => identities'[i] # NoIdentity /\ loaded'
      BY <1>6 DEF Load, CanRestore, Restored, NoIdentity
    <3>. QED BY <3>1, <3>2, <3>3 DEF Kept
  <2>. QED BY <2>1, <2>2
\* A call begins, on an identity of which nothing is left or on one of the wallet.
<1>7. ASSUME NEW c \in Callers, NEW op \in {"create", "import", "remove"}, NEW pc, NEW i \in Ids,
             NEW d, calls[c] = NoCall, calls' = [calls EXCEPT ![c] = NewCall(op, pc, i, d)],
             loaded, UNCHANGED <<diskVars, memoryVars>>,
             op # "remove" => identities[i] = NoIdentity /\ pc \in {"update", "descriptor"},
             op = "remove" => identities[i] # NoIdentity /\ pc \in {"find", "revokeKey"}
      PROVE  Goal
  <2>1. /\ \A b \in Callers \ {c} : calls'[b] = calls[b]
        /\ calls'[c] = NewCall(op, pc, i, d) /\ calls'[c] # NoCall
        /\ calls'[c].op = op /\ calls'[c].pc = pc /\ calls'[c].id = i
    BY <1>1, <1>7 DEF NewCall, NoCall
  <2>2. ASSUME NEW j \in Ids, Tidy(j) PROVE Tidy(j)'
    BY <1>3, <1>4, <1>7, <2>2, TidyStays
  <2>3. ASSUME NEW j \in Ids PROVE Kept(j)'
    <3>1. InFlight(j) \subseteq InFlight(j)'
      BY <1>7, <2>1 DEF InFlight, NoCall
    <3>. QED BY <1>7, <2>2, <3>1 DEF TidyOK, Kept
  <2>4. op # "remove" => Tidy(i)'
    <3>1. InFlight(i) = {}
      BY <1>4, <1>7, <2>1 DEF Apart, InFlight, NoCall
    <3>. QED BY <1>7, <2>2, <3>1 DEF TidyOK, Kept
  <2>6. ASSUME NEW b \in Callers \ {c}, calls'[b] # NoCall
        PROVE  PhaseOK(calls[b].op, calls[b].pc, calls[b].id)'
    <3>0. calls'[b] = calls[b]
      BY <2>1
    <3>1. PICK k \in Ids : k = calls[b].id
      BY <1>4, <2>6, <3>0
    <3>2. PhaseOK(calls[b].op, calls[b].pc, k)
      BY <2>6, <3>0, <3>1 DEF TidyOK
    <3>. QED BY <1>3, <1>4, <1>7, <3>0, <3>1, <3>2, CallPhaseStays
  <2>5. PhaseOK(calls[c].op, calls[c].pc, calls[c].id)'
    <3>1. op # "remove" => Tidy(calls[c].id)'
      BY <2>1, <2>4 DEF Tidy, Clean, Stored
    <3>. QED BY <1>7, <2>1, <3>1 DEF PhaseOK, Removing
  <2>. QED BY <2>3, <2>5, <2>6
<1>8. ASSUME NEW c \in Callers, Create(c) PROVE Goal
  <2>1. PICK i \in Ids \ known, d \in Devices :
          calls' = [calls EXCEPT ![c] = NewCall("create", "descriptor", i, d)]
    BY <1>8 DEF Create
  <2>2. identities[i] = NoIdentity
    BY DEF KnownOK
  <2>. QED BY <1>7, <1>8, <2>1, <2>2 DEF Create
<1>9. ASSUME NEW c \in Callers, Import(c) PROVE Goal
  BY <1>7, <1>9 DEF Import, TypeOK
<1>10. ASSUME NEW c \in Callers, NEW i \in Ids, Remove(c, i) PROVE Goal
  BY <1>7, <1>10 DEF Remove
<1>11. ASSUME NEW i \in Ids, BackupRemoved(i) \/ SetBackupComplete(i) PROVE Goal
  <2>1. \A j \in Ids : identities'[j] = NoIdentity <=> identities[j] = NoIdentity
    <3>1. identities[i].data => identities[i] # NoIdentity
      BY DEF NoIdentity
    <3>. QED BY <1>1, <1>11, <3>1, UpdateKept DEF BackupRemoved, SetBackupComplete
  <2>. QED BY <1>5, <1>11, <2>1 DEF BackupRemoved, SetBackupComplete
<1>12. ASSUME NEW i \in Ids, NEW d \in Devices, RemoteRevokes(i, d) \/ RevocationTimer(i, d)
       PROVE  Goal
  <2>1. \A j \in Ids : identities'[j] = NoIdentity <=> identities[j] = NoIdentity
    <3>1. identities[i].device = d => identities[i] # NoIdentity
      BY DEF NoIdentity
    <3>. QED BY <1>1, <1>12, <3>1, UpdateKept DEF RemoteRevokes, RevocationTimer, RevokedInMemory
  <2>. QED BY <1>5, <1>12, <2>1 DEF RemoteRevokes, RevocationTimer
<1>13. CASE OutageChanges
  BY <1>5, <1>13 DEF OutageChanges
\* A mark that brings a descriptor back is a late one.
<1>14. ASSUME NEW i \in Ids, NEW d \in Devices, MarkRevoked(i, d) PROVE Goal
  <2>1. UNCHANGED <<calls, loaded, deviceKey, entries, backup, identities>>
    BY <1>14 DEF MarkRevoked
  <2>2. \A j \in Ids : j \in Stored => j \in Stored'
    BY <1>14 DEF MarkRevoked, Stored, TypeOK
  <2>3. \A j \in Ids \ {i} : descriptor'[j] = descriptor[j]
    BY <1>14 DEF MarkRevoked, TypeOK
  <2>4. i \in Stored' \ Stored => i \in remarked'
    <3>1. i \in Stored' \ Stored => Late(i, d)
      BY <1>14 DEF MarkRevoked, Stored, Late
    <3>2. <<i, d>> \in marking \ marking'
      BY <1>14 DEF MarkRevoked
    <3>. QED BY <1>3, <3>1, <3>2 DEF NextH
  <2>5. ASSUME NEW j \in Ids, Tidy(j) PROVE Tidy(j)'
    <3>1. CASE descriptor'[j] = descriptor[j]
      BY <1>3, <1>4, <2>1, <2>5, <3>1, TidyStays
    <3>2. CASE j \in Stored
      BY <1>3, <2>2, <2>5, <3>2, HistoryGrows DEF Tidy, Clean, Stored
    <3>3. CASE j \in Stored' \ Stored
      BY <2>3, <2>4, <3>3 DEF Tidy, Stored
    <3>. QED BY <3>1, <3>2, <3>3, <1>14 DEF MarkRevoked, Stored, TypeOK
  <2>6. ASSUME NEW j \in Ids PROVE Kept(j)'
    BY <2>1, <2>2, <2>5 DEF TidyOK, Kept, InFlight
  <2>7. ASSUME NEW c \in Callers, calls'[c] # NoCall
        PROVE  PhaseOK(calls[c].op, calls[c].pc, calls[c].id)'
    <3>1. PICK j \in Ids : j = calls[c].id
      BY <1>4, <2>1, <2>7
    <3>2. /\ PhaseOK(calls[c].op, calls[c].pc, j)
          /\ Tidy(calls[c].id)' <=> Tidy(j)'
      BY <2>1, <2>7, <3>1 DEF TidyOK, Tidy, Clean, Stored
    <3>3. j \in Stored' => j \in Stored \/ j \in remarked'
      BY <2>3, <2>4 DEF Stored
    <3>. QED BY <1>3, <2>1, <2>2, <2>5, <3>1, <3>2, <3>3, HistoryGrows DEF PhaseOK, MarkRevoked
  <2>. QED BY <2>6, <2>7
\* The process ends: what was under way is remembered as half made or removed.
<1>15. CASE Reload
  <2>1. /\ \A c \in Callers : calls'[c] = NoCall
        /\ UNCHANGED <<descriptor, deviceKey, entries, backup>> /\ ~loaded'
        /\ \A i \in Ids : identities'[i] = NoIdentity
    BY <1>15 DEF Reload
  <2>2. ASSUME NEW i \in Ids, i \notin Stored PROVE Tidy(i)'
    <3>1. CASE Tidy(i)
      BY <1>3, <1>4, <2>1, <3>1, TidyStays
    <3>2. ASSUME NEW c \in InFlight(i), ~Tidy(i) PROVE Tidy(i)'
      <4>1. c \in Callers /\ calls[c].id = i /\ calls[c] # NoCall
        BY <3>2 DEF InFlight, NoCall
      <4>2. PhaseOK(calls[c].op, calls[c].pc, i)
        BY <4>1 DEF TidyOK
      <4>3. calls[c].op \in {"create", "import", "remove"} /\ calls[c].pc \in Pcs
        BY <1>1, <4>1 DEF CallRecords
      <4>4. calls[c].pc \in Removing
        <5>1. calls[c].pc \notin Creating
          BY <2>2, <3>2, <4>1, <4>2 DEF PhaseOK, MakingOK, Creating
        <5>2. calls[c].op # "remove" => calls[c].pc \notin {"revokeKey", "find", "removeDescriptor"}
          BY <2>2, <3>2, <4>2 DEF PhaseOK
        <5>3. calls[c].op = "remove" => i \in halfRemoved \/ calls[c].pc \in Removing
          BY <1>4, <2>2, <4>1, <4>2 DEF PhaseOK, IdentityIsStored
        <5>. QED BY <3>2, <4>3, <5>1, <5>2, <5>3 DEF Pcs, Tidy
      <4>5. CASE calls[c].pc = "dropApps"
        BY <1>3, <2>1, <2>2, <3>2, <4>2, <4>5, HistoryGrows DEF PhaseOK, Tidy, Clean, Stored
      <4>6. CASE calls[c].pc # "dropApps"
        <5>1. c \in CutOff
          BY <2>1, <4>1, <4>4, <4>6 DEF CutOff, At, Removing
        <5>. QED BY <1>3, <4>1, <5>1, HistoryGrows DEF Tidy
      <4>. QED BY <4>5, <4>6
    <3>3. ASSUME InFlight(i) = {}, identities[i] # NoIdentity PROVE Tidy(i)'
      BY <1>3, <2>2, <3>3, HistoryGrows DEF IdentityIsStored, Tidy
    <3>. QED BY <2>2, <3>1, <3>2, <3>3 DEF TidyOK, Kept
  <2>3. ASSUME NEW i \in Ids PROVE Kept(i)'
    BY <2>1, <2>2 DEF Kept, Stored
  <2>. QED BY <2>1, <2>3
<1>16. ASSUME NEW c \in Callers, CreateIdentity(c) \/ RemoveIdentity(c) PROVE Goal
  <2>0. PICK r : r = calls[c]
    OBVIOUS
  <2>1. r \in CallRecords /\ r # NoCall
    BY <1>1, <1>16, <2>0, CallsKept
  <2>2. /\ r.id \in Ids /\ r.op \in {"create", "import", "remove"} /\ r.device \in Devices
        /\ loaded /\ loaded'
    <3>1. loaded' = loaded
      BY <1>16 DEF CreateIdentity, RemoveIdentity, UpdateDid, StoreDescriptor, StoreBackup,
         CreateProfile, StoreDevice, PutEntry, Construct, RevokeKey, FindDescriptor, RemoveDescriptor,
         RemoveDevice, DropDevices, DropProfile, DropInstance
    <3>. QED BY <2>0, <2>1, <3>1 DEF CallRecords, MakingOK
  <2>3. calls'[c] # NoCall => calls'[c].op = r.op /\ calls'[c].id = r.id
    BY <1>16, <2>0, CallsKept
  <2>4. ASSUME NEW j \in Ids \ {r.id} PROVE Kept(j)'
    <3>1. InFlight(j)' = InFlight(j) /\ Kept(j)
      BY <1>16, <2>0, OthersInFlight DEF TidyOK
    <3>2. /\ descriptor'[j] = descriptor[j] /\ deviceKey'[j] = deviceKey[j]
          /\ entries'[j] = entries[j] /\ (j \in backup' => j \in backup) /\ identities'[j] = identities[j]
      BY <1>16, <2>0, OthersStay
    <3>. QED BY <1>3, <1>4, <2>2, <3>1, <3>2, TidyStays DEF Kept
  <2>b. ASSUME NEW b \in Callers \ {c}, calls'[b] # NoCall
        PROVE  PhaseOK(calls[b].op, calls[b].pc, calls[b].id)'
    <3>1. calls'[b] = calls[b] /\ calls[b].id # r.id
      BY <1>16, <2>0, <2>b, OthersWait
    <3>2. PICK k \in Ids : k = calls[b].id
      BY <1>4, <2>b, <3>1
    <3>3. PhaseOK(calls[b].op, calls[b].pc, k)
      BY <2>b, <3>1, <3>2 DEF TidyOK
    <3>4. /\ descriptor'[k] = descriptor[k] /\ deviceKey'[k] = deviceKey[k]
          /\ entries'[k] = entries[k] /\ identities'[k] = identities[k]
          /\ k \in backup' => k \in backup
      BY <1>16, <2>0, <3>1, <3>2, OthersStay
    <3>. QED BY <1>3, <1>4, <3>1, <3>2, <3>3, <3>4, CallPhaseStays
  \* It remains to show this of the call and its identity.
  <2>. DEFINE Ended == calls'[c] = NoCall /\ (Tidy(r.id)' \/ identities'[r.id] # NoIdentity)
              Going == calls'[c] # NoCall /\ PhaseOK(r.op, calls[c].pc, r.id)'
  <2>5. SUFFICES Ended \/ Going
    <3>1. Kept(r.id)' /\ (calls'[c] # NoCall => Going)
      BY <2>1, <2>2, <2>3, <2>5 DEF Kept, InFlight
    <3>2. calls'[c] # NoCall => PhaseOK(calls[c].op, calls[c].pc, calls[c].id)'
      BY <2>3, <3>1 DEF PhaseOK, Tidy, Clean, Stored
    <3>. QED BY <2>4, <2>b, <3>1, <3>2
  <2>6. PhaseOK(r.op, r.pc, r.id)
    BY <2>0, <2>1 DEF TidyOK
  <2>7. /\ \A pc : Goto(c, pc) => calls'[c] # NoCall /\ calls'[c].pc = pc
        /\ Undo(c) => calls'[c] # NoCall /\ calls'[c].pc = "find"
        /\ Ends(c) => calls'[c] = NoCall
    <3>1. ASSUME NEW pc, Goto(c, pc) PROVE calls'[c] = [r EXCEPT !.pc = pc]
      BY <1>1, <2>0, <2>1, <3>1 DEF Goto
    <3>2. \A pc : [r EXCEPT !.pc = pc].pc = pc /\ [r EXCEPT !.pc = pc] # NoCall
      BY <2>1, <2>2 DEF CallRecords, NoCall
    <3>. QED BY <1>1, <3>1, <3>2 DEF Undo, Ends
  <2>8. /\ r.pc \in Creating => r.op \in {"create", "import"}
        /\ r.op \in {"create", "import"} => identities[r.id] = NoIdentity
        /\ r.pc \in {"backup", "profile", "device", "entry", "apps"} => r.id \in Stored
        /\ \/ identities[r.id] = NoIdentity
           \/ r.id \in Stored
           \/ r.id \in halfRemoved
           \/ r.pc \in Removing
    BY <1>4, <2>0, <2>1, <2>2 DEF MakingOK, IdentityIsStored, InFlight
  \* A creation that gives up, and a removal that does not begin, keep what
  \* there is.
  <2>9. ASSUME Ends(c), UNCHANGED <<descriptor, deviceKey, entries, backup, identities>>,
               r.op # "remove" => Tidy(r.id) \/ r.id \in Stored
        PROVE  Ended
    <3>1. CASE r.op = "remove"
      BY <2>6, <2>7, <2>9, <3>1 DEF PhaseOK
    <3>2. CASE r.op # "remove" /\ Tidy(r.id)
      BY <1>3, <1>4, <2>2, <2>7, <2>9, <3>2, TidyStays
    <3>3. CASE r.op # "remove" /\ r.id \in Stored
      <4>1. c \in Failed
        BY <2>0, <2>2, <2>7, <2>8, <2>9, <3>3 DEF Failed, NoIdentity
      <4>. QED BY <1>3, <2>0, <2>7, <2>9, <3>3, <4>1, HistoryGrows DEF Stored, Tidy
    <3>. QED BY <2>9, <3>1, <3>2, <3>3
  <2>10. CASE UpdateDid(c)
    <3>1. Tidy(r.id) /\ Tidy(r.id)'
      BY <1>3, <1>4, <2>0, <2>2, <2>6, <2>10, TidyStays DEF UpdateDid, At, PhaseOK
    <3>. QED BY <2>0, <2>2, <2>7, <2>8, <2>10, <3>1 DEF UpdateDid, At, PhaseOK, Creating, Removing
  <2>11. CASE StoreDescriptor(c) \/ StoreBackup(c) \/ CreateProfile(c) \/ StoreDevice(c)
              \/ PutEntry(c) \/ (Construct(c) /\ Undo(c))
    <3>1. r.op # "remove" /\ (Tidy(r.id) \/ r.id \in Stored)
      BY <2>0, <2>6, <2>8, <2>11 DEF StoreDescriptor, StoreBackup, CreateProfile, StoreDevice, PutEntry,
         Construct, At, PhaseOK, Creating
    <3>2. CASE Undo(c)
      <4>1. UNCHANGED <<descriptor, deviceKey, entries, backup>>
        BY <2>0, <2>2, <2>7, <2>11, <3>2
           DEF StoreDescriptor, StoreBackup, CreateProfile, StoreDevice, PutEntry, Construct, At, Undo
      <4>2. (Tidy(r.id) \/ r.id \in Stored)'
        BY <1>3, <1>4, <2>2, <3>1, <4>1, TidyStays DEF Stored
      <4>. QED BY <2>7, <3>1, <3>2, <4>2 DEF PhaseOK, Removing
    <3>3. CASE ~Undo(c)
      <4>1. calls'[c] # NoCall /\ calls'[c].pc \in {"backup", "profile", "device", "entry", "apps"}
        BY <2>7, <2>11, <3>3 DEF StoreDescriptor, StoreBackup, CreateProfile, StoreDevice, PutEntry
      <4>. QED BY <3>1, <4>1 DEF PhaseOK, Removing
    <3>. QED BY <3>2, <3>3
  <2>12. CASE Construct(c) /\ ~Undo(c)
    <3>1. identities'[r.id] # NoIdentity
      BY <1>1, <2>0, <2>2, <2>12 DEF Construct, NoIdentity
    <3>. QED BY <2>7, <2>12, <3>1 DEF Construct
  <2>13. CASE RevokeKey(c)
    <3>1. r.op = "remove"
      BY <2>0, <2>6, <2>13 DEF RevokeKey, At, PhaseOK
    <3>2. CASE Ends(c)
      BY <2>9, <2>13, <3>1, <3>2 DEF RevokeKey
    <3>3. CASE Goto(c, "find")
      BY <2>6, <2>7, <2>13, <3>1, <3>3 DEF RevokeKey, PhaseOK, Removing
    <3>. QED BY <2>13, <3>2, <3>3 DEF RevokeKey
  <2>14. CASE FindDescriptor(c)
    <3>1. r.pc = "find" /\ UNCHANGED <<descriptor, deviceKey, entries, backup>>
      BY <2>0, <2>14 DEF FindDescriptor, At
    <3>2. CASE r.id \in Stored /\ Goto(c, "removeDescriptor") /\ UNCHANGED identities
      BY <2>6, <2>7, <3>1, <3>2 DEF PhaseOK, Removing, Stored
    <3>3. CASE r.id \notin Stored /\ Removed(c) /\ Ends(c)
      <4>1. Tidy(r.id)
        BY <2>2, <2>6, <2>8, <3>1, <3>3 DEF PhaseOK, Tidy, Removing
      <4>. QED BY <1>3, <1>4, <2>2, <2>7, <3>1, <3>3, <4>1, TidyStays
    <3>4. CASE Ends(c) /\ UNCHANGED identities
      BY <2>2, <2>6, <2>9, <3>1, <3>4 DEF PhaseOK
    <3>. QED BY <2>0, <2>14, <3>2, <3>3, <3>4 DEF FindDescriptor
  <2>15. CASE RemoveDescriptor(c)
    <3>1. r.pc = "removeDescriptor" /\ UNCHANGED <<deviceKey, entries, backup, identities>>
      BY <2>0, <2>15 DEF RemoveDescriptor, At
    <3>2. CASE Ends(c) /\ UNCHANGED descriptor
      BY <2>2, <2>6, <2>9, <3>1, <3>2 DEF PhaseOK
    <3>3. CASE descriptor' = [descriptor EXCEPT ![r.id] = "none"] /\ Goto(c, "removeDevice")
      <4>1. r.id \notin Stored'
        BY <2>2, <3>3 DEF Stored, TypeOK
      <4>. QED BY <2>6, <2>7, <3>1, <3>3, <4>1 DEF PhaseOK
    <3>. QED BY <2>0, <2>15, <3>2, <3>3 DEF RemoveDescriptor
  <2>16. CASE RemoveDevice(c) \/ DropDevices(c) \/ DropProfile(c)
    <3>1. r.pc \in Removing /\ UNCHANGED <<descriptor, backup, identities>>
      BY <2>0, <2>16 DEF RemoveDevice, DropDevices, DropProfile, At, Removing
    <3>2. r.id \notin Stored' \/ r.id \in remarked'
      BY <1>3, <2>6, <3>1, HistoryGrows DEF PhaseOK, Stored
    <3>3. CASE Ends(c)
      <4>1. c \in CutOff
        BY <2>7, <2>16, <3>3 DEF CutOff, RemoveDevice, DropDevices, DropProfile, At
      <4>. QED BY <1>3, <2>0, <2>7, <3>3, <4>1, HistoryGrows DEF Tidy
    <3>4. CASE RemoveDevice(c) /\ ~Ends(c)
      <4>1. deviceKey'[r.id] = None
        BY <2>0, <2>2, <3>4 DEF RemoveDevice, TypeOK
      <4>2. calls'[c] # NoCall /\ calls'[c].pc = "dropDevices"
        BY <1>1, <2>0, <2>1, <2>2, <3>4 DEF RemoveDevice, CallRecords, NoCall
      <4>. QED BY <2>6, <3>1, <3>2, <4>1, <4>2 DEF PhaseOK, Removing
    <3>5. CASE DropDevices(c) /\ ~Ends(c)
      <4>1. entries'[r.id] = {} /\ UNCHANGED deviceKey /\ r.pc = "dropDevices"
        BY <2>0, <2>2, <3>5 DEF DropDevices, TypeOK, At
      <4>. QED BY <2>6, <2>7, <3>1, <3>2, <3>5, <4>1 DEF DropDevices, PhaseOK, Removing
    <3>6. CASE DropProfile(c) /\ ~Ends(c)
      <4>1. r.id \in removingBackup' /\ UNCHANGED <<deviceKey, entries>> /\ r.pc = "dropProfile"
        BY <2>0, <3>6 DEF DropProfile, At
      <4>. QED BY <2>6, <2>7, <3>1, <3>2, <3>6, <4>1 DEF DropProfile, PhaseOK, Removing
    <3>. QED BY <2>16, <3>3, <3>4, <3>5, <3>6
  <2>17. CASE DropInstance(c)
    <3>1. calls'[c] = NoCall /\ r.pc = "dropApps" /\ UNCHANGED <<descriptor, deviceKey, entries, backup>>
      BY <2>0, <2>1, <2>7, <2>17 DEF DropInstance, At
    <3>2. Tidy(r.id)
      BY <2>6, <3>1 DEF PhaseOK, Tidy, Clean, Removing
    <3>. QED BY <1>3, <1>4, <2>2, <3>1, <3>2, TidyStays
  <2>. QED
    BY <1>16, <2>10, <2>11, <2>12, <2>13, <2>14, <2>15, <2>16, <2>17 DEF CreateIdentity, RemoveIdentity
<1>. QED
  BY <1>3, <1>6, <1>8, <1>9, <1>10, <1>11, <1>12, <1>13, <1>14, <1>15, <1>16 DEF NextH, Next

\* What is not in the wallet has left neither keys of the device nor the backup
\* of the master key in storage, unless a failure cut its creation or removal
\* off (identities/identity/index.js:133-180, backup.js:55-60).
THEOREM LeavesNothing == SpecH /\ []Apart => []NothingLeftBehind
<1>1. InitH => KnownOK /\ MakingOK /\ IdentityIsStored /\ TidyOK
  BY DEF InitH, Init, KnownOK, MakingOK, IdentityIsStored, TidyOK, HalfMadeStored, Kept, Tidy, Clean,
     Stored, NoCall, Creating
<1>2. Apart /\ TypeOK /\ KnownOK /\ MakingOK /\ IdentityIsStored /\ [NextH]_historyVars
        => MakingOK' /\ IdentityIsStored'
  BY StoredKept
<1>3. Apart /\ Apart' /\ TypeOK /\ KnownOK /\ MakingOK /\ IdentityIsStored /\ TidyOK /\ [NextH]_historyVars
        => TidyOK'
  BY TidyKept
<1>4. [NextH]_historyVars => [Next]_vars
  BY DEF NextH, historyVars
<1>5. TidyOK => NothingLeftBehind
  BY DEF TidyOK, Kept, Tidy, Clean, NothingLeftBehind
<1>. QED
  BY <1>1, <1>2, <1>3, <1>4, <1>5, KnownKept, HistoryIsSpec, IdentitiesTypeCorrect, PTL DEF SpecH

-----------------------------------------------------------------------------
(* The DID document holds the keys of devices in use.                      *)

\* The devices of identity i whose keys may be in its DID document.
Owners(i) ==
    {IF loaded THEN identities[i].device ELSE IF i \in Stored THEN deviceKey[i] ELSE None}
       \union orphans \union {calls[c].device : c \in InFlight(i)}

\* A revocation is of a key that has left the document, an identity of the
\* wallet is stored or has lost its key, and so is one stored as revoked.
KeyOK(i) ==
    /\ revokedAt[i] \subseteq entries[i]
    /\ \A d \in revokedAt[i] : d \notin didKeys[i]
    /\ \A d \in Devices : <<i, d>> \in timers \union marking => d \notin didKeys[i]
    /\ \/ i \in remarked
       \/ /\ didKeys[i] \subseteq Owners(i)
          /\ identities[i].revoked => identities[i].device \notin didKeys[i]
          /\ identities[i] # NoIdentity => IF i \in Stored THEN deviceKey[i] = identities[i].device
                                           ELSE identities[i].device \notin didKeys[i]
          /\ descriptor[i] = "revoked" => deviceKey[i] \notin didKeys[i]

\* An import brings a new device, a removal works on the device of its identity
\* and goes on without its key.
CallKeyOK(op, pc, i, d) ==
    /\ pc = "update" => d \notin entries[i] \union {deviceKey[i]} /\ <<i, d>> \notin timers \union marking
    /\ pc \in {"backup", "profile", "device", "entry", "apps"} => descriptor[i] = "valid" \/ i \in remarked
    /\ op = "remove" => identities[i].device = d
    /\ op = "remove" /\ pc # "revokeKey" => d \notin didKeys[i] \/ i \in remarked

KeysOK ==
    /\ \A i \in Ids : KeyOK(i)
    /\ \A c \in Callers :
          calls[c] # NoCall => CallKeyOK(calls[c].op, calls[c].pc, calls[c].id, calls[c].device)

-----------------------------------------------------------------------------
\* The clauses of KeyOK about an identity of which the step leaves all that
\* they read; its owners may have changed.
LEMMA KeyStays ==
    ASSUME NextH, TypeOK, NEW i \in Ids, KeyOK(i),
           didKeys'[i] \subseteq didKeys[i], revokedAt'[i] = revokedAt[i], entries'[i] = entries[i],
           \A d \in Devices : <<i, d>> \in timers' \union marking' => <<i, d>> \in timers \union marking,
           descriptor'[i] = descriptor[i], deviceKey'[i] = deviceKey[i],
           identities'[i].device = identities[i].device,
           identities'[i].revoked => identities[i].revoked,
           identities'[i] = NoIdentity <=> identities[i] = NoIdentity,
           i \in remarked \/ didKeys'[i] \subseteq Owners(i)'
    PROVE  KeyOK(i)'
BY HistoryGrows DEF KeyOK, Stored

\* So with the calls on such an identity.
LEMMA CallKeyStays ==
    ASSUME NextH, NEW i \in Ids, didKeys'[i] = didKeys[i],
           descriptor'[i] = descriptor[i], deviceKey'[i] = deviceKey[i], entries'[i] = entries[i],
           \A d \in Devices : <<i, d>> \in timers' \union marking' => <<i, d>> \in timers \union marking,
           identities'[i].device = identities[i].device,
           NEW b \in Callers, calls'[b] = calls[b], calls[b].id = i, calls[b].device \in Devices,
           CallKeyOK(calls[b].op, calls[b].pc, i, calls[b].device)
    PROVE  CallKeyOK(calls[b].op, calls[b].pc, calls[b].id, calls[b].device)'
<1>. DEFINE d == calls[b].device
<1>1. <<i, d>> \in timers' \union marking' => <<i, d>> \in timers \union marking
  OBVIOUS
<1>. QED BY <1>1, HistoryGrows DEF CallKeyOK

\* What a call does, step by step, to the keys of its identity.
LEMMA CallKeysKept ==
    ASSUME Apart, TypeOK, MakingOK, TidyOK, KeysOK, NextH,
           NEW c \in Callers, CreateIdentity(c) \/ RemoveIdentity(c)
    PROVE  KeysOK'
<1>. USE IdentitiesAssumption DEF didVars, diskVars, memoryVars
<1>1. calls \in [Callers -> CallRecords] /\ identities \in [Ids -> IdentityRecords]
  BY DEF TypeOK
<1>2. PICK r : r = calls[c]
  OBVIOUS
<1>3. r \in CallRecords /\ r # NoCall /\ InFlight(r.id) = {c}
  BY <1>1, <1>2, CallsKept, OnlyCall
<1>4. /\ r.id \in Ids /\ r.op \in {"create", "import", "remove"} /\ r.device \in Devices
      /\ loaded /\ loaded'
  <2>1. loaded' = loaded
    BY DEF CreateIdentity, RemoveIdentity, UpdateDid, StoreDescriptor, StoreBackup,
       CreateProfile, StoreDevice, PutEntry, Construct, RevokeKey, FindDescriptor, RemoveDescriptor,
       RemoveDevice, DropDevices, DropProfile, DropInstance
  <2>. QED BY <1>2, <1>3, <2>1 DEF CallRecords, MakingOK
<1>5. calls'[c] # NoCall => calls'[c].op = r.op /\ calls'[c].id = r.id /\ calls'[c].device = r.device
  BY <1>2, CallsKept
<1>6. /\ \A pc : Goto(c, pc) => calls'[c] # NoCall /\ calls'[c].pc = pc
      /\ Undo(c) => calls'[c] # NoCall /\ calls'[c].pc = "find"
      /\ Ends(c) => calls'[c] = NoCall
  <2>1. ASSUME NEW pc, Goto(c, pc) PROVE calls'[c] = [r EXCEPT !.pc = pc]
    BY <1>1, <1>2, <1>3, <2>1 DEF Goto
  <2>2. \A pc : [r EXCEPT !.pc = pc].pc = pc /\ [r EXCEPT !.pc = pc] # NoCall
    BY <1>3, <1>4 DEF CallRecords, NoCall
  <2>. QED BY <1>1, <2>1, <2>2 DEF Undo, Ends
<1>7. /\ PhaseOK(r.op, r.pc, r.id) /\ CallKeyOK(r.op, r.pc, r.id, r.device) /\ KeyOK(r.id)
      /\ r.pc \in Creating => r.op \in {"create", "import"}
      /\ r.op \in {"create", "import"} => identities[r.id] = NoIdentity
      /\ r.pc \in {"backup", "profile", "device", "entry", "apps"} => r.id \in Stored
      /\ r.pc \in {"entry", "apps"} => deviceKey[r.id] = r.device
  BY <1>2, <1>3, <1>4 DEF TidyOK, KeysOK, MakingOK
\* The other identities, and their calls, stay as they are.
<1>b. ASSUME NEW j \in Ids \ {r.id}
      PROVE  /\ descriptor'[j] = descriptor[j] /\ deviceKey'[j] = deviceKey[j]
             /\ entries'[j] = entries[j] /\ didKeys'[j] = didKeys[j] /\ identities'[j] = identities[j]
             /\ revokedAt'[j] = revokedAt[j]
             /\ \A d \in Devices : <<j, d>> \in timers' \union marking' => <<j, d>> \in timers \union marking
  <2>1. /\ revokedAt'[j] = revokedAt[j]
        /\ \A d \in Devices : <<j, d>> \in timers' \union marking' => <<j, d>> \in timers \union marking
    BY <1>2, <1>b DEF TypeOK, CreateIdentity, RemoveIdentity, UpdateDid, StoreDescriptor, StoreBackup,
       CreateProfile, StoreDevice, PutEntry, Construct, RevokeKey, FindDescriptor, RemoveDescriptor,
       RemoveDevice, DropDevices, DropProfile, DropInstance
  <2>. QED BY <1>2, <1>b, <2>1, OthersStay
<1>8. ASSUME NEW j \in Ids \ {r.id} PROVE KeyOK(j)'
  <2>1. InFlight(j)' = InFlight(j) /\ \A b \in InFlight(j) : calls'[b] = calls[b]
    BY <1>2, <1>8, OthersInFlight, OthersWait DEF InFlight
  <2>2. Owners(j) \subseteq Owners(j)'
    BY <1>4, <1>8, <1>b, <2>1, HistoryGrows DEF Owners
  <2>3. KeyOK(j)
    BY <1>8 DEF KeysOK
  <2>. QED BY <1>8, <1>b, <2>2, <2>3, KeyStays DEF KeyOK
<1>c. ASSUME NEW b \in Callers \ {c}, calls'[b] # NoCall
      PROVE  CallKeyOK(calls[b].op, calls[b].pc, calls[b].id, calls[b].device)'
  <2>1. calls'[b] = calls[b] /\ calls[b].id # r.id
    BY <1>2, <1>c, OthersWait
  <2>2. PICK k \in Ids \ {r.id} : k = calls[b].id /\ calls[b].device \in Devices
    BY <1>1, <1>c, <2>1 DEF CallRecords
  <2>3. CallKeyOK(calls[b].op, calls[b].pc, k, calls[b].device)
    BY <1>c, <2>1, <2>2 DEF KeysOK
  <2>. QED BY <1>b, <2>1, <2>2, <2>3, CallKeyStays
\* It remains to show this of the identity of the call.
<1>. DEFINE Going == calls'[c] # NoCall /\ CallKeyOK(r.op, calls[c].pc, r.id, r.device)'
            Done == KeyOK(r.id)' /\ (calls'[c] = NoCall \/ Going)
<1>9. SUFFICES Done
  <2>1. calls'[c] # NoCall => CallKeyOK(calls[c].op, calls[c].pc, calls[c].id, calls[c].device)'
    BY <1>5, <1>9 DEF CallKeyOK
  <2>. QED BY <1>8, <1>9, <1>c, <2>1 DEF KeysOK
\* The device of the call has an owner afterwards, or an orphaned key.
<1>10. ASSUME identities' = identities \/ (r.op # "remove" /\ calls'[c] = NoCall /\ identities'[r.id] = NoIdentity)
       PROVE  Owners(r.id) \subseteq Owners(r.id)' \union {None} /\ r.device \in Owners(r.id)'
  <2>1. identities'[r.id].device = identities[r.id].device \/ identities[r.id].device = None
    BY <1>4, <1>7, <1>10 DEF NoIdentity
  <2>2. CASE calls'[c] # NoCall
    BY <1>2, <1>3, <1>4, <1>5, <2>1, <2>2, HistoryGrows DEF Owners, InFlight
  <2>3. CASE calls'[c] = NoCall /\ r.op = "remove"
    BY <1>2, <1>3, <1>4, <1>7, <1>10, <2>3, HistoryGrows DEF Owners, InFlight, CallKeyOK
  <2>4. CASE calls'[c] = NoCall /\ r.op # "remove"
    <3>1. c \in Failed
      BY <1>2, <1>4, <1>7, <1>10, <2>4 DEF Failed, NoIdentity
    <3>. QED BY <1>2, <1>3, <1>4, <2>1, <3>1, HistoryGrows DEF Owners, InFlight
  <2>. QED BY <2>2, <2>3, <2>4
<1>11. didKeys[r.id] \subseteq Devices /\ None \notin didKeys[r.id] /\ deviceKey[r.id] \in Devices \union {None}
  BY <1>4 DEF TypeOK
<1>12. r.id \in remarked \/ didKeys[r.id] \subseteq Owners(r.id)
  BY <1>7 DEF KeyOK
<1>a. ASSUME identities' = identities \/ (r.op # "remove" /\ calls'[c] = NoCall /\ identities'[r.id] = NoIdentity),
             didKeys'[r.id] \subseteq didKeys[r.id] \union {r.device}
      PROVE  r.id \in remarked \/ didKeys'[r.id] \subseteq Owners(r.id)'
  <2>1. \A d \in didKeys[r.id] : d # None
    BY <1>11
  <2>2. ASSUME NEW d \in didKeys'[r.id], r.id \notin remarked PROVE d \in Owners(r.id)'
    BY <1>10, <1>12, <1>a, <2>1, <2>2
  <2>. QED BY <2>2
\* Steps that change nothing in storage or in the document.
<1>13. ASSUME UNCHANGED <<didKeys, descriptor, deviceKey, entries, revokedAt, timers, marking, identities>>,
              \/ calls'[c] = NoCall
              \/ /\ calls'[c] # NoCall /\ calls'[c].pc # "update" /\ r.pc # "revokeKey"
                 /\ calls'[c].pc \notin {"backup", "profile", "device", "entry", "apps"}
              \/ /\ calls'[c] # NoCall /\ calls'[c].pc # "update" /\ r.pc # "revokeKey"
                 /\ r.pc \in {"backup", "profile", "device", "entry", "apps"}
       PROVE  Done
  <2>1. KeyOK(r.id)'
    <3>1. r.id \in remarked \/ didKeys'[r.id] \subseteq Owners(r.id)'
      BY <1>13, <1>a
    <3>. QED BY <1>4, <1>7, <1>13, <3>1, KeyStays
  <2>2. r.pc # "update" \/ calls'[c] = NoCall \/ calls'[c].pc # "update"
    BY <1>13
  <2>. QED BY <1>7, <1>13, <2>1, HistoryGrows DEF CallKeyOK
<1>14. CASE UpdateDid(c)
  <2>1. /\ r.pc = "update" /\ r.op # "remove" /\ identities[r.id] = NoIdentity
        /\ UNCHANGED <<descriptor, deviceKey, entries, revokedAt, timers, marking, identities>>
    BY <1>2, <1>7, <1>14 DEF UpdateDid, At, Creating
  <2>2. CASE Ends(c) /\ UNCHANGED didKeys
    BY <1>6, <1>13, <2>1, <2>2
  <2>3. CASE didKeys' = [didKeys EXCEPT ![r.id] = @ \union {r.device}] /\ Goto(c, "descriptor")
    <3>1. didKeys'[r.id] = didKeys[r.id] \union {r.device}
      BY <1>4, <2>3 DEF TypeOK
    <3>2. r.device \notin entries[r.id] \union {deviceKey[r.id]} /\ <<r.id, r.device>> \notin timers \union marking
      BY <1>7, <2>1 DEF CallKeyOK
    <3>3. r.id \in remarked \/ didKeys'[r.id] \subseteq Owners(r.id)'
      BY <1>a, <2>1, <3>1
    <3>4. KeyOK(r.id)'
      BY <1>4, <1>7, <2>1, <3>1, <3>2, <3>3, HistoryGrows DEF KeyOK, NoIdentity, Stored
    <3>. QED BY <1>6, <2>1, <2>3, <3>4 DEF CallKeyOK
  <2>. QED BY <1>2, <1>14, <2>2, <2>3 DEF UpdateDid
<1>15. CASE StoreDescriptor(c)
  <2>1. /\ r.pc = "descriptor" /\ r.op # "remove" /\ identities[r.id] = NoIdentity
        /\ UNCHANGED <<didKeys, deviceKey, entries, revokedAt, timers, marking, identities>>
    BY <1>2, <1>7, <1>15 DEF StoreDescriptor, At, Creating
  <2>2. CASE Undo(c) /\ UNCHANGED descriptor
    BY <1>6, <1>13, <2>1, <2>2
  <2>3. CASE ~Undo(c) \/ descriptor' # descriptor
    <3>1. /\ descriptor'[r.id] = "valid"
          /\ calls'[c] # NoCall /\ calls'[c].pc \in {"backup", "profile"}
      BY <1>2, <1>4, <1>6, <1>15, <2>3 DEF StoreDescriptor, TypeOK
    <3>2. KeyOK(r.id)'
      BY <1>4, <1>7, <1>a, <2>1, <3>1, HistoryGrows DEF KeyOK, NoIdentity
    <3>. QED BY <2>1, <3>1, <3>2 DEF CallKeyOK
  <2>. QED BY <2>2, <2>3
<1>16. CASE StoreBackup(c) \/ CreateProfile(c)
  <2>1. /\ r.pc \in {"backup", "profile"}
        /\ UNCHANGED <<didKeys, descriptor, deviceKey, entries, revokedAt, timers, marking, identities>>
    BY <1>2, <1>16 DEF StoreBackup, CreateProfile, At
  <2>2. calls'[c] # NoCall /\ calls'[c].pc \in {"profile", "device", "find"}
    BY <1>6, <1>16 DEF StoreBackup, CreateProfile
  <2>. QED BY <1>13, <2>1, <2>2
<1>17. CASE StoreDevice(c) \/ PutEntry(c)
  <2>1. /\ r.pc \in {"device", "entry"} /\ r.op # "remove" /\ identities[r.id] = NoIdentity
        /\ UNCHANGED <<didKeys, descriptor, revokedAt, timers, marking, identities>>
        /\ entries[r.id] \subseteq entries'[r.id]
    BY <1>2, <1>4, <1>7, <1>17 DEF StoreDevice, PutEntry, At, Creating, TypeOK
  <2>2. calls'[c] # NoCall /\ calls'[c].pc \in {"entry", "apps", "find"}
    BY <1>6, <1>17 DEF StoreDevice, PutEntry
  <2>3. r.id \in remarked \/ descriptor[r.id] = "valid"
    BY <1>7, <2>1 DEF CallKeyOK
  <2>4. KeyOK(r.id)'
    BY <1>4, <1>7, <1>a, <2>1, <2>3, HistoryGrows DEF KeyOK, NoIdentity
  <2>. QED BY <2>1, <2>2, <2>3, <2>4, HistoryGrows DEF CallKeyOK
<1>18. CASE Construct(c)
  <2>1. /\ r.pc = "apps" /\ r.op # "remove" /\ identities[r.id] = NoIdentity /\ r.id \in Stored
        /\ deviceKey[r.id] = r.device
        /\ UNCHANGED <<didKeys, descriptor, deviceKey, entries, revokedAt, marking>>
    BY <1>2, <1>7, <1>18 DEF Construct, At, Creating
  <2>2. CASE Undo(c) /\ UNCHANGED <<identities, timers>>
    BY <1>6, <1>13, <2>1, <2>2
  <2>3. CASE /\ identities' = [identities EXCEPT ![r.id] =
                    [device |-> r.device, revoked |-> FALSE, data |-> r.op = "create"]]
             /\ timers' = IF r.device \in revokedAt[r.id] THEN timers \union {<<r.id, r.device>>} ELSE timers
             /\ Ends(c)
    <3>1. /\ identities'[r.id].device = r.device /\ ~identities'[r.id].revoked
      BY <1>1, <1>4, <2>3
    <3>2. Owners(r.id) \subseteq Owners(r.id)' \union {None}
      BY <1>2, <1>3, <1>4, <2>1, <3>1, HistoryGrows DEF Owners, InFlight, NoIdentity
    <3>3. KeyOK(r.id)'
      BY <1>4, <1>7, <1>11, <1>12, <2>1, <2>3, <3>1, <3>2, HistoryGrows DEF KeyOK, Stored
    <3>. QED BY <1>6, <2>3, <3>3
  <2>. QED BY <1>2, <1>18, <2>2, <2>3 DEF Construct
<1>19. CASE RevokeKey(c)
  <2>1. /\ r.pc = "revokeKey" /\ r.op = "remove"
        /\ UNCHANGED <<descriptor, deviceKey, entries, revokedAt, timers, marking, identities>>
    BY <1>2, <1>7, <1>19 DEF RevokeKey, At, PhaseOK
  <2>2. CASE Ends(c) /\ UNCHANGED didKeys
    BY <1>6, <1>13, <2>1, <2>2
  <2>3. CASE didKeys' = [didKeys EXCEPT ![r.id] = @ \ {r.device}] /\ Goto(c, "find")
    <3>1. didKeys'[r.id] = didKeys[r.id] \ {r.device}
      BY <1>4, <2>3 DEF TypeOK
    <3>2. KeyOK(r.id)'
      BY <1>4, <1>7, <1>a, <2>1, <3>1, KeyStays
    <3>. QED BY <1>6, <1>7, <2>1, <2>3, <3>1, <3>2 DEF CallKeyOK
  <2>. QED BY <1>2, <1>19, <2>2, <2>3 DEF RevokeKey
\* An identity that is forgotten has lost its key.
<1>20. ASSUME UNCHANGED <<didKeys, descriptor, deviceKey, entries, revokedAt, timers, marking>>,
              Removed(c), calls'[c] = NoCall, r.pc # "revokeKey"
       PROVE  Done
  <2>1. CASE r.op # "remove"
    BY <1>2, <1>13, <1>20, <2>1 DEF Removed
  <2>2. CASE r.op = "remove"
    <3>1. identities'[r.id] = NoIdentity
      BY <1>1, <1>2, <1>4, <1>20, <2>2 DEF Removed
    <3>2. identities[r.id].device = r.device /\ (r.id \in remarked \/ r.device \notin didKeys[r.id])
      BY <1>7, <1>20, <2>2 DEF CallKeyOK
    <3>3. Owners(r.id) \subseteq Owners(r.id)' \union {r.device}
      BY <1>2, <1>3, <1>4, <3>2, HistoryGrows DEF Owners, InFlight
    <3>4. KeyOK(r.id)'
      BY <1>4, <1>7, <1>12, <1>20, <3>1, <3>2, <3>3, HistoryGrows DEF KeyOK, NoIdentity
    <3>. QED BY <1>20, <3>4
  <2>. QED BY <1>4, <2>1, <2>2
<1>21. CASE FindDescriptor(c)
  <2>1. /\ r.pc = "find"
        /\ UNCHANGED <<didKeys, descriptor, deviceKey, entries, revokedAt, timers, marking>>
    BY <1>2, <1>21 DEF FindDescriptor, At
  <2>2. CASE Removed(c) /\ Ends(c)
    BY <1>6, <1>20, <2>1, <2>2
  <2>3. CASE UNCHANGED identities /\ (Goto(c, "removeDescriptor") \/ Ends(c))
    BY <1>6, <1>13, <2>1, <2>3
  <2>. QED BY <1>21, <2>2, <2>3 DEF FindDescriptor
\* From here on, the key has gone and the descriptor goes before the device.
<1>22. CASE RemoveDescriptor(c) \/ RemoveDevice(c) \/ DropDevices(c) \/ DropProfile(c)
  <2>1. /\ r.pc \in Removing \union {"removeDescriptor"}
        /\ UNCHANGED <<didKeys, timers, marking, identities>>
    BY <1>2, <1>22 DEF RemoveDescriptor, RemoveDevice, DropDevices, DropProfile, At, Removing
  <2>a. RemoveDevice(c) => (Ends(c) /\ UNCHANGED deviceKey) \/ (calls'[c] # NoCall /\ calls'[c].pc = "dropDevices")
    BY <1>1, <1>2, <1>3, <1>4 DEF RemoveDevice, CallRecords, NoCall
  <2>2. CASE Ends(c)
    <3>1. UNCHANGED <<descriptor, deviceKey, entries, revokedAt>>
      BY <1>2, <1>6, <1>22, <2>a, <2>2 DEF RemoveDescriptor, RemoveDevice, DropDevices, DropProfile
    <3>. QED BY <1>6, <1>13, <2>1, <2>2, <3>1
  <2>3. CASE ~Ends(c)
    <3>1. calls'[c] # NoCall /\ calls'[c].pc \in Removing
      BY <1>6, <1>22, <2>a, <2>3 DEF RemoveDescriptor, DropDevices, DropProfile, Removing
    <3>2. /\ \/ descriptor'[r.id] = "none" /\ UNCHANGED deviceKey
             \/ /\ UNCHANGED descriptor /\ r.pc \in Removing
                /\ deviceKey'[r.id] \in {deviceKey[r.id], None}
          /\ revokedAt'[r.id] = {} \/ UNCHANGED <<entries, revokedAt>>
      BY <1>2, <1>4, <1>22, <2>3 DEF RemoveDescriptor, RemoveDevice, DropDevices, DropProfile, TypeOK, At, Removing
    <3>3. r.op = "remove" => /\ identities[r.id].device = r.device
                             /\ r.id \in remarked \/ r.device \notin didKeys[r.id]
      BY <1>7, <2>1 DEF CallKeyOK, Removing
    <3>4. r.op # "remove" => identities[r.id] = NoIdentity
      BY <1>4, <1>7
    <3>5. r.pc \in Removing => descriptor[r.id] = "none" \/ r.id \in remarked
      BY <1>4, <1>7 DEF PhaseOK, Stored
    <3>6. KeyOK(r.id)'
      BY <1>4, <1>7, <1>a, <2>1, <3>2, <3>3, <3>4, <3>5, HistoryGrows DEF KeyOK, Stored
    <3>. QED BY <2>1, <3>1, <3>3, <3>6, HistoryGrows DEF CallKeyOK, Removing
  <2>. QED BY <2>2, <2>3
<1>23. CASE DropInstance(c)
  <2>1. /\ r.pc = "dropApps" /\ calls'[c] = NoCall
        /\ UNCHANGED <<didKeys, descriptor, deviceKey, entries, revokedAt, timers, marking>>
    BY <1>2, <1>6, <1>23 DEF DropInstance, At
  <2>. QED BY <1>13, <1>20, <1>23, <2>1 DEF DropInstance
<1>. QED
  BY <1>14, <1>15, <1>16, <1>17, <1>18, <1>19, <1>21, <1>22, <1>23 DEF CreateIdentity, RemoveIdentity

\* No step of calls on different identities leaves the key of a device that is
\* not in use in the DID document.
LEMMA KeysKept ==
    ASSUME Apart, Apart', TypeOK, KnownOK, MakingOK, TidyOK, KeysOK, [NextH]_historyVars
    PROVE  KeysOK'
<1>. USE IdentitiesAssumption DEF didVars, diskVars, memoryVars
<1>1. calls \in [Callers -> CallRecords] /\ identities \in [Ids -> IdentityRecords]
  BY DEF TypeOK
<1>2. CASE UNCHANGED historyVars
  BY <1>2 DEF historyVars, vars, KeysOK, KeyOK, CallKeyOK, Owners, InFlight, Stored
<1>3. SUFFICES ASSUME NextH PROVE KeysOK'
  BY <1>2
<1>4. \A i \in Ids : KeyOK(i) /\ None \notin didKeys[i] /\ didKeys[i] \subseteq Devices
  BY DEF KeysOK, TypeOK
<1>5. \A c \in Callers : calls[c] # NoCall => calls[c].id \in Ids /\ InFlight(calls[c].id) = {c}
  BY OnlyCall
\* Steps that leave calls, the document and what storage has of descriptors.
<1>6. ASSUME UNCHANGED <<calls, loaded, didKeys, descriptor, deviceKey, entries, revokedAt, identities>>,
             \A m : m \in timers' \union marking' => m \in timers \union marking
      PROVE  KeysOK'
  <2>1. ASSUME NEW i \in Ids PROVE KeyOK(i)'
    <3>1. Owners(i) \subseteq Owners(i)'
      BY <1>3, <1>6, HistoryGrows DEF Owners, InFlight, Stored
    <3>. QED BY <1>3, <1>4, <1>6, <3>1, KeyStays DEF KeyOK
  <2>2. ASSUME NEW c \in Callers, calls'[c] # NoCall
        PROVE  CallKeyOK(calls[c].op, calls[c].pc, calls[c].id, calls[c].device)'
    BY <1>3, <1>6, <2>2, HistoryGrows DEF KeysOK, CallKeyOK
  <2>. QED BY <2>1, <2>2 DEF KeysOK
<1>7. CASE Load
  <2>1. \A c \in Callers : calls[c] = NoCall /\ calls'[c] = NoCall
    BY <1>7 DEF Load, MakingOK
  <2>2. ASSUME NEW i \in Ids PROVE KeyOK(i)'
    <3>1. /\ identities'[i].device = IF i \in Stored THEN deviceKey[i] ELSE None
          /\ identities'[i].revoked => i \in Stored /\ descriptor[i] = "revoked"
          /\ identities'[i] # NoIdentity => i \in Stored
      BY <1>7 DEF Load, Restored, NoIdentity
    <3>2. Owners(i) \subseteq Owners(i)'
      BY <1>3, <1>7, <2>1, <3>1, HistoryGrows DEF Load, Owners, InFlight
    <3>3. \A d \in Devices : <<i, d>> \in timers' => d \in revokedAt[i]
      BY <1>7 DEF Load, Unmarked
    <3>. QED BY <1>3, <1>4, <1>7, <3>1, <3>2, <3>3, HistoryGrows DEF Load, KeyOK, Stored
  <2>. QED BY <2>1, <2>2 DEF KeysOK
\* A call begins, with a new device or with that of its identity.
<1>8. ASSUME NEW c \in Callers, NEW op \in {"create", "import", "remove"}, NEW pc, NEW i \in Ids,
             NEW d \in Devices, calls[c] = NoCall,
             calls' = [calls EXCEPT ![c] = NewCall(op, pc, i, d)],
             UNCHANGED <<diskVars, memoryVars>>, CallKeyOK(op, pc, i, d)',
             \A j \in Ids : didKeys'[j] = didKeys[j] \/ (j = i /\ didKeys'[j] = {d} /\ i \notin known /\ d \notin entries[i])
      PROVE  KeysOK'
  <2>1. /\ \A b \in Callers \ {c} : calls'[b] = calls[b]
        /\ calls'[c] = NewCall(op, pc, i, d) /\ calls'[c] # NoCall
        /\ calls'[c].op = op /\ calls'[c].pc = pc /\ calls'[c].id = i /\ calls'[c].device = d
    BY <1>1, <1>8 DEF NewCall, NoCall
  <2>2. ASSUME NEW j \in Ids PROVE Owners(j) \subseteq Owners(j)'
    BY <1>3, <1>8, <2>1, HistoryGrows DEF Owners, InFlight, NoCall, Stored
  <2>3. ASSUME NEW j \in Ids, didKeys'[j] = didKeys[j] PROVE KeyOK(j)'
    BY <1>3, <1>4, <1>8, <2>2, <2>3, KeyStays DEF KeyOK
  <2>4. ASSUME i \notin known, didKeys'[i] = {d}, d \notin entries[i] PROVE KeyOK(i)'
    <3>1. /\ identities[i] = NoIdentity /\ descriptor[i] = "none"
          /\ \A m \in Devices : <<i, m>> \notin timers \union marking
      BY <2>4 DEF KnownOK, Stored
    <3>2. d \in Owners(i)'
      BY <2>1 DEF Owners, InFlight
    <3>. QED BY <1>4, <1>8, <2>4, <3>1, <3>2 DEF KeyOK, NoIdentity, Stored
  <2>5. CallKeyOK(calls[c].op, calls[c].pc, calls[c].id, calls[c].device)'
    BY <1>8, <2>1 DEF CallKeyOK
  <2>6. ASSUME NEW b \in Callers \ {c}, calls'[b] # NoCall
        PROVE  CallKeyOK(calls[b].op, calls[b].pc, calls[b].id, calls[b].device)'
    <3>1. calls'[b] = calls[b] /\ calls[b].id # i
      BY <1>8, <2>1, <2>6 DEF Apart
    <3>2. PICK k \in Ids \ {i} : k = calls[b].id /\ calls[b].device \in Devices
      BY <1>1, <2>6, <3>1 DEF CallRecords
    <3>3. CallKeyOK(calls[b].op, calls[b].pc, k, calls[b].device)
      BY <2>6, <3>1, <3>2 DEF KeysOK
    <3>. QED BY <1>3, <1>8, <3>1, <3>2, <3>3, CallKeyStays
  <2>. QED BY <1>8, <2>3, <2>4, <2>5, <2>6 DEF KeysOK
<1>9. ASSUME NEW c \in Callers, Create(c) PROVE KeysOK'
  <2>1. PICK i \in Ids \ known, d \in Devices :
          /\ ~Referred(d) /\ didKeys' = [didKeys EXCEPT ![i] = {d}]
          /\ calls' = [calls EXCEPT ![c] = NewCall("create", "descriptor", i, d)]
    BY <1>9 DEF Create
  <2>2. d \notin entries[i] /\ \A j \in Ids : didKeys'[j] = didKeys[j] \/ (j = i /\ didKeys'[j] = {d})
    BY <2>1 DEF Referred, TypeOK
  <2>3. CallKeyOK("create", "descriptor", i, d)'
    BY DEF CallKeyOK
  <2>. QED BY <1>8, <1>9, <2>1, <2>2, <2>3 DEF Create
<1>10. ASSUME NEW c \in Callers, Import(c) PROVE KeysOK'
  <2>1. PICK i \in Ids, d \in Devices :
          ~Referred(d) /\ calls' = [calls EXCEPT ![c] = NewCall("import", "update", i, d)]
    BY <1>10 DEF Import, TypeOK
  <2>2. CallKeyOK("import", "update", i, d)'
    BY <1>10, <2>1 DEF Import, Referred, CallKeyOK
  <2>. QED BY <1>8, <1>10, <2>1, <2>2 DEF Import
<1>11. ASSUME NEW c \in Callers, NEW i \in Ids, Remove(c, i) PROVE KeysOK'
  <2>1. identities[i].device \in Devices
    BY <1>1, <1>11 DEF Remove, IdentityRecords
  <2>2. PICK pc : /\ pc = IF identities[i].revoked THEN "find" ELSE "revokeKey"
                  /\ calls' = [calls EXCEPT ![c] = NewCall("remove", pc, i, identities[i].device)]
    BY <1>11 DEF Remove
  <2>3. CallKeyOK("remove", pc, i, identities[i].device)'
    BY <1>3, <1>4, <1>11, <2>2, HistoryGrows DEF Remove, CallKeyOK, KeyOK
  <2>. QED BY <1>8, <1>11, <2>1, <2>2, <2>3 DEF Remove
<1>12. ASSUME NEW i \in Ids, BackupRemoved(i) PROVE KeysOK'
  BY <1>6, <1>12 DEF BackupRemoved
\* An identity changes in memory: its device stays.
<1>13. ASSUME UNCHANGED <<calls, loaded, descriptor, deviceKey, entries>>,
              \A i \in Ids : /\ identities'[i].device = identities[i].device
                             /\ identities'[i] = NoIdentity <=> identities[i] = NoIdentity
                             /\ didKeys'[i] \subseteq didKeys[i]
                             /\ revokedAt'[i] \subseteq entries[i]
                             /\ \A d \in revokedAt'[i] : d \notin didKeys'[i]
                             /\ \A d \in Devices : <<i, d>> \in timers' \union marking' =>
                                   d \notin didKeys'[i] /\ (<<i, d>> \in timers \union marking
                                                              \/ identities[i].device = d)
                             /\ \/ i \in remarked
                                \/ identities'[i].revoked => identities[i].device \notin didKeys'[i]
       PROVE  KeysOK'
  <2>1. ASSUME NEW i \in Ids PROVE KeyOK(i)'
    <3>1. Owners(i) \subseteq Owners(i)'
      BY <1>3, <1>13, HistoryGrows DEF Owners, InFlight, Stored
    <3>. QED BY <1>3, <1>4, <1>13, <3>1, HistoryGrows DEF KeyOK, Stored
  <2>2. ASSUME NEW c \in Callers, calls'[c] # NoCall
        PROVE  CallKeyOK(calls[c].op, calls[c].pc, calls[c].id, calls[c].device)'
    <3>1. /\ calls[c].pc = "update" => identities[calls[c].id].device = None
          /\ calls[c].id \in Ids /\ calls[c].device \in Devices
      BY <1>1, <1>13, <2>2 DEF MakingOK, Creating, NoIdentity, CallRecords
    <3>. QED BY <1>3, <1>13, <2>2, <3>1, HistoryGrows DEF KeysOK, CallKeyOK
  <2>. QED BY <2>1, <2>2 DEF KeysOK
<1>14. ASSUME NEW i \in Ids, SetBackupComplete(i) PROVE KeysOK'
  <2>1. identities[i] # NoIdentity
    BY <1>14 DEF SetBackupComplete, NoIdentity
  <2>2. \A j \in Ids : /\ identities'[j].device = identities[j].device
                       /\ identities'[j] = NoIdentity <=> identities[j] = NoIdentity
    BY <1>1, <1>14, <2>1, UpdateKept DEF SetBackupComplete
  <2>3. \A j \in Ids : identities'[j].revoked = identities[j].revoked
    BY <1>1, <1>14, <2>1 DEF SetBackupComplete, IdentityRecords
  <2>. QED BY <1>4, <1>13, <1>14, <2>2, <2>3 DEF SetBackupComplete, KeyOK
<1>15. ASSUME NEW i \in Ids, NEW d \in Devices, RemoteRevokes(i, d) \/ RevocationTimer(i, d)
       PROVE  KeysOK'
  <2>1. identities[i].device = d => identities[i] # NoIdentity
    BY DEF NoIdentity
  <2>2. /\ \A j \in Ids : /\ identities'[j].device = identities[j].device
                          /\ identities'[j] = NoIdentity <=> identities[j] = NoIdentity
        /\ \A j \in Ids : identities'[j].revoked => identities[j].revoked \/ (j = i /\ identities[i].device = d)
    <3>1. CASE identities[i].device = d
      BY <1>1, <1>15, <2>1, <3>1, UpdateKept DEF RemoteRevokes, RevocationTimer, RevokedInMemory
    <3>2. CASE identities[i].device # d
      BY <1>15, <3>2 DEF RemoteRevokes, RevocationTimer, RevokedInMemory
    <3>. QED BY <3>1, <3>2
  <2>3. /\ \A j \in Ids : didKeys'[j] \subseteq didKeys[j]
        /\ \A j \in Ids : revokedAt'[j] \subseteq revokedAt[j] \union {d} /\ revokedAt'[j] \subseteq entries[j]
        /\ \A j \in Ids : j # i => revokedAt'[j] = revokedAt[j]
        /\ d \notin didKeys'[i]
    BY <1>4, <1>15 DEF RemoteRevokes, RevocationTimer, TypeOK, KeyOK
  <2>4. \A j \in Ids, e \in Devices : <<j, e>> \in timers' \union marking' =>
           <<j, e>> \in timers \union marking \/ (j = i /\ e = d /\ identities[i].device = d)
    BY <1>15 DEF RemoteRevokes, RevocationTimer
  <2>5. UNCHANGED <<calls, loaded, descriptor, deviceKey, entries>>
    BY <1>15 DEF RemoteRevokes, RevocationTimer
  <2>. QED BY <1>4, <1>13, <2>2, <2>3, <2>4, <2>5 DEF KeyOK
\* A mark is late, or the identity is stored as the device that lost its key.
<1>16. ASSUME NEW i \in Ids, NEW d \in Devices, MarkRevoked(i, d) PROVE KeysOK'
  <2>1. /\ UNCHANGED <<calls, loaded, didKeys, deviceKey, entries, revokedAt, identities, timers>>
        /\ marking' \subseteq marking /\ <<i, d>> \in marking \ marking'
    BY <1>16 DEF MarkRevoked
  <2>2. CASE descriptor'[i] = descriptor[i]
    <3>1. UNCHANGED descriptor
      BY <1>16, <2>2 DEF MarkRevoked, TypeOK
    <3>. QED BY <1>6, <2>1, <3>1
  <2>3. CASE descriptor'[i] # descriptor[i]
    <3>1. \A j \in Ids : descriptor'[j] = IF j = i THEN "revoked" ELSE descriptor[j]
      BY <1>16, <2>3 DEF MarkRevoked, TypeOK
    <3>2. i \in remarked' \/ (i \in Stored /\ identities[i].device = d)
      BY <1>3, <2>1, <2>3 DEF NextH, Late
    <3>3. i \in remarked' \/ (deviceKey[i] = d /\ d \notin didKeys[i])
      <4>1. identities[i].device = d => identities[i] # NoIdentity
        BY DEF NoIdentity
      <4>. QED BY <1>3, <1>4, <2>1, <3>2, <4>1, HistoryGrows DEF KeyOK
    <3>4. ASSUME NEW j \in Ids PROVE KeyOK(j)'
      <4>1. Owners(j) \subseteq Owners(j)' \/ j \in remarked'
        BY <1>3, <2>1, <3>1, <3>2, HistoryGrows DEF Owners, InFlight, Stored
      <4>. QED BY <1>3, <1>4, <2>1, <3>1, <3>2, <3>3, <4>1, HistoryGrows DEF KeyOK, Stored
    <3>5. ASSUME NEW c \in Callers, calls'[c] # NoCall
          PROVE  CallKeyOK(calls[c].op, calls[c].pc, calls[c].id, calls[c].device)'
      <4>1. calls[c].pc \in Creating /\ calls[c].id = i => i \in remarked'
        BY <3>2 DEF MakingOK, NoIdentity
      <4>. QED BY <1>3, <1>5, <2>1, <3>1, <3>5, <4>1, HistoryGrows DEF KeysOK, CallKeyOK, Creating
    <3>. QED BY <3>4, <3>5 DEF KeysOK
  <2>. QED BY <2>2, <2>3
<1>17. CASE OutageChanges
  BY <1>6, <1>17 DEF OutageChanges
\* The process ends: calls under way leave orphans, and what was in the wallet
\* is in storage or has lost its key.
<1>18. CASE Reload
  <2>1. /\ \A c \in Callers : calls'[c] = NoCall
        /\ UNCHANGED <<didKeys, descriptor, deviceKey, entries, revokedAt>> /\ ~loaded'
        /\ \A i \in Ids : identities'[i] = NoIdentity
        /\ timers' = {} /\ marking' = {}
    BY <1>18 DEF Reload
  <2>2. ASSUME NEW i \in Ids, i \notin remarked, NEW d \in didKeys[i], d \in Owners(i)
        PROVE  d \in Owners(i)'
    <3>1. CASE loaded /\ d = identities[i].device
      <4>1. identities[i] # NoIdentity
        BY <1>4, <3>1 DEF NoIdentity
      <4>. QED BY <1>4, <2>1, <2>2, <3>1, <4>1 DEF KeyOK, Owners, Stored
    <3>2. CASE d \in orphans
      BY <1>3, <3>2, HistoryGrows DEF Owners
    <3>3. ASSUME NEW c \in InFlight(i), d = calls[c].device PROVE d \in Owners(i)'
      <4>1. c \in Callers /\ calls[c] # NoCall /\ calls[c].id = i /\ loaded
        BY <3>3 DEF InFlight, NoCall, MakingOK
      <4>2. CASE calls[c].op = "remove"
        BY <3>1, <3>3, <4>1, <4>2 DEF KeysOK, CallKeyOK
      <4>3. CASE calls[c].op # "remove"
        <5>1. calls[c].op \in {"create", "import"} /\ calls[c].device \in Devices
          BY <1>1, <4>1, <4>3 DEF CallRecords
        <5>2. c \in Failed
          BY <2>1, <4>1, <5>1 DEF Failed, NoIdentity
        <5>. QED BY <1>3, <3>3, <5>2, HistoryGrows DEF Owners
      <4>. QED BY <4>2, <4>3
    <3>4. CASE ~loaded /\ d = (IF i \in Stored THEN deviceKey[i] ELSE None)
      BY <1>4, <2>1, <3>4 DEF Owners, Stored
    <3>. QED BY <2>2, <3>1, <3>2, <3>3, <3>4 DEF Owners
  <2>3. ASSUME NEW i \in Ids PROVE KeyOK(i)'
    <3>1. i \in remarked \/ didKeys[i] \subseteq Owners(i)'
      BY <1>4, <2>2 DEF KeyOK
    <3>2. remarked \subseteq remarked'
      BY <1>3, HistoryGrows
    <3>3. identities'[i] = NoIdentity /\ ~NoIdentity.revoked
      BY <2>1 DEF NoIdentity
    <3>. QED BY <1>4, <2>1, <3>1, <3>2, <3>3 DEF KeyOK
  <2>. QED BY <2>1, <2>3 DEF KeysOK
<1>19. ASSUME NEW c \in Callers, CreateIdentity(c) \/ RemoveIdentity(c) PROVE KeysOK'
  BY <1>3, <1>19, CallKeysKept
<1>. QED
  BY <1>3, <1>7, <1>9, <1>10, <1>11, <1>12, <1>14, <1>15, <1>16, <1>17, <1>18, <1>19 DEF NextH, Next

\* The DID document keeps the key of no device that was removed or revoked,
\* wherever the process ends and whatever fails, except for devices of create()
\* and import() calls that failed and of identities that a late mark brought
\* back (identities/index.js:163-174, identities/identity/index.js:147-156).
THEOREM KeysOwned == SpecH /\ []Apart => []OnlyOwnKeys
<1>1. InitH => KnownOK /\ MakingOK /\ IdentityIsStored /\ TidyOK /\ KeysOK
  BY DEF InitH, Init, KnownOK, MakingOK, IdentityIsStored, TidyOK, HalfMadeStored, Kept, Tidy, Clean,
     Stored, NoCall, Creating, KeysOK, KeyOK, NoIdentity
<1>2. Apart /\ TypeOK /\ KnownOK /\ MakingOK /\ IdentityIsStored /\ [NextH]_historyVars
        => MakingOK' /\ IdentityIsStored'
  BY StoredKept
<1>3. Apart /\ Apart' /\ TypeOK /\ KnownOK /\ MakingOK /\ IdentityIsStored /\ TidyOK /\ [NextH]_historyVars
        => TidyOK'
  BY TidyKept
<1>4. Apart /\ Apart' /\ TypeOK /\ KnownOK /\ MakingOK /\ TidyOK /\ KeysOK /\ [NextH]_historyVars
        => KeysOK'
  BY KeysKept
<1>5. [NextH]_historyVars => [Next]_vars
  BY DEF NextH, historyVars
<1>6. KeysOK => OnlyOwnKeys
  BY DEF KeysOK, KeyOK, Owners, OnlyOwnKeys
<1>. QED
  BY <1>1, <1>2, <1>3, <1>4, <1>5, <1>6, KnownKept, HistoryIsSpec, IdentitiesTypeCorrect, PTL DEF SpecH

-----------------------------------------------------------------------------
(* The identities are held as a whole or not at all.                       *)

Torn == halfMade \union halfRemoved \union remarked

\* A creation that has not put its device into the store finds it empty, and
\* before load() the wallet has no identity.
FreshOK ==
    /\ ~loaded => \A i \in Ids : identities[i] = NoIdentity
    /\ \A c \in Callers :
          calls[c].pc \in {"backup", "profile", "device", "entry"} =>
             entries[calls[c].id] = {} \/ calls[c].id \in Torn

\* What is torn stays so as long as it is stored.
LEMMA TornStays ==
    ASSUME NextH, NEW i \in Torn, i \notin Torn'
    PROVE  descriptor'[i] = "none"
BY HistoryGrows DEF Torn

LEMMA FreshKept ==
    ASSUME Apart, TypeOK, MakingOK, TidyOK, FreshOK, [NextH]_historyVars, MakingOK'
    PROVE  FreshOK'
<1>. USE IdentitiesAssumption DEF didVars, diskVars, memoryVars
<1>1. calls \in [Callers -> CallRecords] /\ identities \in [Ids -> IdentityRecords]
  BY DEF TypeOK
<1>2. CASE UNCHANGED historyVars
  BY <1>2 DEF historyVars, vars, FreshOK, Torn
<1>3. SUFFICES ASSUME NextH PROVE FreshOK'
  BY <1>2
<1>. DEFINE Waits == {"backup", "profile", "device", "entry"}
            Fresh(i) == entries[i] = {} \/ i \in Torn
<1>4. ASSUME NEW c \in Callers, calls'[c].pc \in Waits, Fresh(calls'[c].id),
             entries'[calls'[c].id] = entries[calls'[c].id]
      PROVE  Fresh(calls[c].id)'
  BY <1>3, <1>4, TornStays DEF MakingOK, Stored
<1>5. ASSUME UNCHANGED <<calls, entries, loaded>>,
             loaded \/ \A i \in Ids : identities'[i] = identities[i]
      PROVE  FreshOK'
  BY <1>4, <1>5 DEF FreshOK
<1>6. CASE Load
  BY <1>4, <1>6 DEF Load, FreshOK
<1>7. ASSUME NEW c \in Callers, Create(c) \/ Import(c) \/ \E i \in Ids : Remove(c, i)
      PROVE  FreshOK'
  <2>1. /\ loaded' /\ calls'[c].pc \notin Waits /\ entries' = entries
        /\ \A b \in Callers \ {c} : calls'[b] = calls[b]
    BY <1>1, <1>7 DEF Create, Import, Remove, NewCall
  <2>2. ASSUME NEW b \in Callers, calls'[b].pc \in Waits PROVE Fresh(calls[b].id)'
    BY <1>4, <2>1, <2>2 DEF FreshOK
  <2>. QED BY <2>1, <2>2 DEF FreshOK
<1>8. ASSUME NEW c \in Callers, CreateIdentity(c) \/ RemoveIdentity(c)
      PROVE  FreshOK'
  <2>1. calls[c] # NoCall /\ calls[c].id \in Ids /\ loaded /\ loaded'
    BY <1>1, <1>8 DEF CreateIdentity, RemoveIdentity, UpdateDid, StoreDescriptor, StoreBackup,
       CreateProfile, StoreDevice, PutEntry, Construct, RevokeKey, FindDescriptor, RemoveDescriptor,
       RemoveDevice, DropDevices, DropProfile, DropInstance, At, NoCall, MakingOK, CallRecords
  <2>a. ASSUME NEW b \in Callers \ {c}, calls'[b].pc \in Waits PROVE Fresh(calls[b].id)'
    <3>1. calls'[b] = calls[b] /\ calls[b].id # calls[c].id
      BY <1>8, OthersWait
    <3>2. calls[b] # NoCall
      BY <2>a, <3>1 DEF NoCall
    <3>3. PICK k \in Ids \ {calls[c].id} : k = calls[b].id
      BY <1>1, <3>1, <3>2 DEF CallRecords
    <3>4. entries'[k] = entries[k]
      BY <1>8, <3>3, OthersStay
    <3>. QED BY <1>4, <2>a, <3>1, <3>3, <3>4 DEF FreshOK
  <2>2. SUFFICES ASSUME calls'[c].pc \in Waits PROVE Fresh(calls[c].id)'
    BY <2>1, <2>a DEF FreshOK
  <2>3. CASE StoreDescriptor(c)
    <3>1. Tidy(calls[c].id) /\ calls'[c].id = calls[c].id /\ entries' = entries
      BY <1>1, <2>1, <2>3 DEF StoreDescriptor, At, Goto, Undo, TidyOK, PhaseOK, CallRecords
    <3>. QED BY <1>4, <2>2, <3>1 DEF Tidy, Clean, Torn
  <2>4. CASE StoreBackup(c) \/ CreateProfile(c) \/ StoreDevice(c)
    <3>1. calls[c].pc \in Waits /\ calls'[c].id = calls[c].id /\ entries' = entries
      BY <1>1, <2>1, <2>4 DEF StoreBackup, CreateProfile, StoreDevice, At, Goto, Undo, CallRecords
    <3>. QED BY <1>4, <2>2, <3>1 DEF FreshOK
  <2>5. CASE UpdateDid(c) \/ PutEntry(c) \/ Construct(c) \/ RemoveIdentity(c)
    <3>1. calls'[c].pc \notin Waits
      BY <1>1, <2>1, <2>5 DEF RemoveIdentity, UpdateDid, PutEntry, Construct, RevokeKey, FindDescriptor,
         RemoveDescriptor, RemoveDevice, DropDevices, DropProfile, DropInstance,
         At, Goto, Undo, Ends, NoCall, CallRecords
    <3>. QED BY <2>2, <3>1
  <2>. QED BY <1>8, <2>3, <2>4, <2>5 DEF CreateIdentity
<1>9. ASSUME NEW i \in Ids, BackupRemoved(i) \/ SetBackupComplete(i) PROVE FreshOK'
  <2>1. SetBackupComplete(i) => loaded
    BY DEF SetBackupComplete, FreshOK, NoIdentity
  <2>. QED BY <1>5, <1>9, <2>1 DEF BackupRemoved, SetBackupComplete
<1>10. ASSUME NEW i \in Ids, NEW d \in Devices,
              RemoteRevokes(i, d) \/ RevocationTimer(i, d) \/ MarkRevoked(i, d)
       PROVE  FreshOK'
  <2>1. UNCHANGED <<calls, entries, loaded>>
    BY <1>10 DEF RemoteRevokes, RevocationTimer, MarkRevoked
  <2>2. ~loaded => identities[i].device # d
    BY DEF FreshOK, NoIdentity
  <2>3. loaded \/ identities' = identities
    BY <1>10, <2>2 DEF RemoteRevokes, RevocationTimer, MarkRevoked, RevokedInMemory
  <2>. QED BY <1>5, <2>1, <2>3
<1>11. CASE OutageChanges
  BY <1>5, <1>11 DEF OutageChanges
<1>12. CASE Reload
  BY <1>12 DEF Reload, FreshOK, NoCall
<1>. QED
  BY <1>3, <1>6, <1>7, <1>8, <1>9, <1>10, <1>11, <1>12 DEF NextH, Next

Held == [i \in Ids |-> HeldAs(i)]

Shown == [i \in Ids |-> identities[i].device]

\* What another identity is held and shown as does not change.
StepOf(i) ==
    \A j \in Ids : j # i => HeldAs(j)' = HeldAs(j) /\ identities'[j].device = identities[j].device

\* A step on one identity is one of the owner's view if it leaves what is
\* shown, and what is held as well, drops it, makes it, or finds it torn.
LEMMA HeldChanges ==
    ASSUME TypeOK', Owned!Mends, NEW i \in Ids, StepOf(i),
           identities'[i].device = identities[i].device,
           \/ HeldAs(i)' = HeldAs(i) \/ HeldAs(i)' = None \/ i \in Torn'
           \/ HeldAs(i) = None /\ identities[i].device = None
    PROVE  Owned!Next
<1>1. Shown' = Shown
  BY DEF StepOf, Shown
<1>2. Held' = [Held EXCEPT ![i] = HeldAs(i)']
  BY DEF StepOf, Held
<1>3. HeldAs(i)' \in Devices \union {None}
  BY DEF TypeOK, HeldAs
<1>4. CASE HeldAs(i)' = HeldAs(i)
  BY <1>1, <1>2, <1>4 DEF Owned!Next, Held, Shown
<1>5. CASE HeldAs(i)' = None
  <2>1. Owned!Drop(i)
    BY <1>1, <1>2, <1>5 DEF Owned!Drop, Held, Shown
  <2>. QED BY <2>1 DEF Owned!Next
<1>6. CASE HeldAs(i)' \in Devices /\ i \in Torn'
  <2>1. Owned!Revive(i, HeldAs(i)')
    BY <1>1, <1>2, <1>6 DEF Owned!Revive, Held, Shown, Torn
  <2>. QED BY <1>6, <2>1 DEF Owned!Next
<1>7. CASE HeldAs(i)' \in Devices /\ HeldAs(i) = None /\ identities[i].device = None
  <2>1. Owned!Make(i, HeldAs(i)')
    BY <1>1, <1>2, <1>7 DEF Owned!Make, Held, Shown
  <2>. QED BY <1>7, <2>1 DEF Owned!Next
<1>. QED BY <1>3, <1>4, <1>5, <1>6, <1>7

\* A step that leaves what is held shows an identity as it is held, or hides
\* one that is not.
LEMMA ShownChanges ==
    ASSUME Owned!Mends, NEW i \in Ids, StepOf(i), HeldAs(i)' = HeldAs(i),
           \/ identities'[i].device = identities[i].device
           \/ identities'[i].device = None /\ HeldAs(i) = None
           \/ /\ identities[i].device = None
              /\ identities'[i].device = HeldAs(i) /\ HeldAs(i) # None
    PROVE  Owned!Next
<1>1. Held' = Held
  BY DEF StepOf, Held
<1>2. Shown' = [Shown EXCEPT ![i] = identities'[i].device]
  BY DEF StepOf, Shown
<1>3. CASE identities'[i].device = identities[i].device
  BY <1>1, <1>2, <1>3 DEF Owned!Next, Held, Shown
<1>4. CASE identities'[i].device = None /\ HeldAs(i) = None
  <2>1. Owned!Hide(i)
    BY <1>1, <1>2, <1>4 DEF Owned!Hide, Held, Shown
  <2>. QED BY <2>1 DEF Owned!Next
<1>5. CASE /\ identities[i].device = None
           /\ identities'[i].device = HeldAs(i) /\ HeldAs(i) # None
  <2>1. Owned!Show(i)
    BY <1>1, <1>2, <1>5 DEF Owned!Show, Held, Shown
  <2>. QED BY <2>1 DEF Owned!Next
<1>. QED BY <1>3, <1>4, <1>5

\* An identity of the wallet has a device.
LEMMA ShownHasDevice ==
    ASSUME identities \in [Ids -> IdentityRecords], NEW i \in Ids
    PROVE  identities[i].device = None <=> identities[i] = NoIdentity
BY IdentitiesAssumption DEF IdentityRecords, NoIdentity

\* Each step is a step of the owner's view, or shows none.
LEMMA HoldingsStep ==
    ASSUME TypeOK, KnownOK, MakingOK, LoadableOK, TidyOK, FreshOK, NextH, TypeOK'
    PROVE  Owned!Next
<1>. USE IdentitiesAssumption DEF didVars, diskVars, memoryVars
<1>1. calls \in [Callers -> CallRecords] /\ identities \in [Ids -> IdentityRecords]
  BY DEF TypeOK
<1>2. Owned!Mends
  BY TornStays DEF Owned!Mends, Torn, HeldAs, Stored
<1>3. ASSUME UNCHANGED <<descriptor, deviceKey, entries>>,
             \A i \in Ids : identities'[i].device = identities[i].device
      PROVE  Owned!Next
  <2>1. Held' = Held /\ Shown' = Shown
    BY <1>3 DEF Held, Shown, HeldAs, Stored, CanRestore
  <2>. QED BY <1>2, <2>1 DEF Owned!Next, Held, Shown
<1>4. CASE Load
  <2>1. Shown = [i \in Ids |-> None]
    BY <1>4 DEF Load, FreshOK, Shown, NoIdentity
  <2>2. Held' = Held
    BY <1>4 DEF Load, Held, HeldAs, Stored, CanRestore
  <2>3. \A i \in Ids : identities'[i].device = HeldAs(i)
    BY <1>4 DEF Load, HeldAs, Restored, NoIdentity
  <2>4. Shown' = Held
    BY <2>3 DEF Shown, Held
  <2>5. Owned!Load
    BY <2>1, <2>2, <2>4 DEF Owned!Load, Held, Shown
  <2>. QED BY <1>2, <2>5 DEF Owned!Next
<1>5. ASSUME NEW c \in Callers, Create(c) \/ Import(c) \/ \E i \in Ids : Remove(c, i)
      PROVE  Owned!Next
  BY <1>3, <1>5 DEF Create, Import, Remove
<1>6. ASSUME NEW c \in Callers, CreateIdentity(c) PROVE Owned!Next
  <2>1. calls[c] # NoCall /\ calls[c].pc \in Creating
    BY <1>1, <1>6 DEF CreateIdentity, UpdateDid, StoreDescriptor, StoreBackup, CreateProfile,
       StoreDevice, PutEntry, Construct, At, NoCall, Creating
  <2>2. PICK k \in Ids : /\ k = calls[c].id /\ calls[c].device \in Devices
                         /\ identities[k].device = None
    BY <1>1, <2>1 DEF MakingOK, CallRecords, NoIdentity
  <2>3. StepOf(k)
    BY <1>6, <2>2, OthersStay DEF StepOf, HeldAs, Stored, CanRestore
  <2>4. CASE UpdateDid(c) \/ StoreBackup(c) \/ CreateProfile(c)
    BY <1>3, <2>4 DEF UpdateDid, StoreBackup, CreateProfile
  <2>5. CASE StoreDescriptor(c)
    <3>1. identities' = identities /\ deviceKey' = deviceKey
      BY <2>5 DEF StoreDescriptor
    <3>2. CASE descriptor' = descriptor
      BY <1>3, <2>5, <3>1, <3>2 DEF StoreDescriptor
    <3>3. CASE descriptor'[k] = "valid"
      <4>1. k \in Torn \/ deviceKey[k] = None
        BY <2>1, <2>2, <2>5 DEF StoreDescriptor, At, TidyOK, PhaseOK, Tidy, Clean, Torn
      <4>2. k \in Torn' \/ HeldAs(k)' = None
        BY <3>1, <3>3, <4>1, TornStays DEF HeldAs, CanRestore
      <4>. QED BY <1>2, <2>2, <2>3, <3>1, <4>2, HeldChanges
    <3>. QED BY <2>2, <2>5, <3>2, <3>3 DEF StoreDescriptor, TypeOK
  <2>6. CASE StoreDevice(c)
    <3>1. UNCHANGED <<identities, entries, descriptor>>
      BY <2>6 DEF StoreDevice
    <3>2. k \in Stored /\ (k \in Torn \/ entries[k] = {})
      BY <2>2, <2>6 DEF StoreDevice, At, MakingOK, FreshOK
    <3>3. k \in Torn' \/ HeldAs(k)' = None
      BY <3>1, <3>2, TornStays DEF HeldAs, CanRestore, Stored
    <3>. QED BY <1>2, <2>2, <2>3, <3>1, <3>3, HeldChanges
  <2>7. CASE PutEntry(c)
    <3>1. UNCHANGED <<identities, deviceKey, descriptor>>
      BY <2>7 DEF PutEntry
    <3>2. k \in Stored /\ (k \in Torn \/ entries[k] = {})
      BY <2>2, <2>7 DEF PutEntry, At, MakingOK, FreshOK
    <3>3. k \in Torn' \/ HeldAs(k) = None
      BY <3>1, <3>2, TornStays DEF HeldAs, CanRestore, Stored
    <3>. QED BY <1>2, <2>2, <2>3, <3>1, <3>3, HeldChanges
  <2>8. CASE Construct(c)
    <3>1. UNCHANGED <<deviceKey, descriptor, entries>>
      BY <2>8 DEF Construct
    <3>2. HeldAs(k) = calls[c].device /\ HeldAs(k)' = HeldAs(k)
      BY <2>2, <2>8, <3>1 DEF Construct, At, MakingOK, LoadableOK, HeldAs, CanRestore, Stored
    <3>3. identities' = identities \/ identities'[k].device = calls[c].device
      BY <1>1, <2>2, <2>8 DEF Construct
    <3>. QED BY <1>2, <2>2, <2>3, <3>2, <3>3, ShownChanges
  <2>. QED BY <1>6, <2>4, <2>5, <2>6, <2>7, <2>8 DEF CreateIdentity
<1>7. ASSUME NEW c \in Callers, RemoveIdentity(c) PROVE Owned!Next
  <2>1. calls[c] # NoCall
    BY <1>1, <1>7 DEF RemoveIdentity, RevokeKey, FindDescriptor, RemoveDescriptor, RemoveDevice,
       DropDevices, DropProfile, DropInstance, At, NoCall
  <2>2. PICK k \in Ids : k = calls[c].id
    BY <1>1, <2>1 DEF CallRecords
  <2>3. StepOf(k)
    BY <1>7, <2>2, OthersStay DEF StepOf, HeldAs, Stored, CanRestore
  <2>4. CASE RevokeKey(c) \/ DropProfile(c)
    BY <1>3, <2>4 DEF RevokeKey, DropProfile
  <2>5. CASE RemoveDescriptor(c) \/ RemoveDevice(c) \/ DropDevices(c)
    <3>1. identities' = identities
      BY <2>5 DEF RemoveDescriptor, RemoveDevice, DropDevices
    <3>2. HeldAs(k)' = HeldAs(k) \/ HeldAs(k)' = None
      BY <2>2, <2>5 DEF RemoveDescriptor, RemoveDevice, DropDevices, TypeOK, HeldAs, CanRestore, Stored
    <3>. QED BY <1>2, <2>2, <2>3, <3>1, <3>2, HeldChanges
  <2>6. CASE FindDescriptor(c) \/ DropInstance(c)
    <3>1. UNCHANGED <<deviceKey, descriptor, entries>>
      BY <2>6 DEF FindDescriptor, DropInstance
    <3>2. HeldAs(k)' = HeldAs(k)
      BY <3>1 DEF HeldAs, CanRestore, Stored
    <3>3. identities' = identities \/ (Removed(c) /\ HeldAs(k) = None)
      BY <2>1, <2>2, <2>6 DEF FindDescriptor, DropInstance, At, TidyOK, PhaseOK, HeldAs, CanRestore
    <3>4. \/ identities'[k].device = identities[k].device
          \/ identities'[k].device = None /\ HeldAs(k) = None
      BY <1>1, <2>2, <3>3 DEF Removed, NoIdentity
    <3>. QED BY <1>2, <2>2, <2>3, <3>2, <3>4, ShownChanges
  <2>. QED BY <1>7, <2>4, <2>5, <2>6 DEF RemoveIdentity
<1>8. ASSUME NEW i \in Ids, BackupRemoved(i) \/ SetBackupComplete(i) PROVE Owned!Next
  <2>1. \A j \in Ids : identities'[j].device = identities[j].device
    BY <1>1, <1>8 DEF BackupRemoved, SetBackupComplete, IdentityRecords, NoIdentity
  <2>. QED BY <1>3, <1>8, <2>1 DEF BackupRemoved, SetBackupComplete
<1>9. ASSUME NEW i \in Ids, NEW d \in Devices, RemoteRevokes(i, d) \/ RevocationTimer(i, d)
      PROVE  Owned!Next
  <2>1. \A j \in Ids : identities'[j].device = identities[j].device
    BY <1>1, <1>9 DEF RemoteRevokes, RevocationTimer, RevokedInMemory, IdentityRecords, NoIdentity
  <2>. QED BY <1>3, <1>9, <2>1 DEF RemoteRevokes, RevocationTimer
<1>10. ASSUME NEW i \in Ids, NEW d \in Devices, MarkRevoked(i, d) PROVE Owned!Next
  <2>1. UNCHANGED <<identities, deviceKey, entries>> /\ <<i, d>> \in marking \ marking'
    BY <1>10 DEF MarkRevoked
  <2>2. StepOf(i)
    BY <1>10, <2>1 DEF MarkRevoked, StepOf, HeldAs, Stored, CanRestore, TypeOK
  <2>3. CASE i \in Stored
    <3>1. HeldAs(i)' = HeldAs(i)
      BY <1>10, <2>1, <2>3 DEF MarkRevoked, HeldAs, Stored, CanRestore, TypeOK
    <3>. QED BY <1>2, <2>1, <2>2, <3>1, HeldChanges
  <2>4. CASE descriptor' = descriptor
    BY <1>3, <2>1, <2>4
  <2>5. CASE i \notin Stored /\ descriptor'[i] # descriptor[i]
    <3>1. i \in Torn'
      BY <2>1, <2>5 DEF NextH, Late, Torn
    <3>. QED BY <1>2, <2>1, <2>2, <3>1, HeldChanges
  <2>. QED BY <1>10, <2>3, <2>4, <2>5 DEF MarkRevoked, TypeOK, Stored
<1>11. CASE OutageChanges
  BY <1>3, <1>11 DEF OutageChanges
<1>12. CASE Reload
  <2>1. Held' = Held
    BY <1>12 DEF Reload, Held, HeldAs, Stored, CanRestore
  <2>2. Shown' = [i \in Ids |-> None]
    BY <1>12 DEF Reload, Shown, NoIdentity
  <2>3. Owned!End
    BY <2>1, <2>2 DEF Owned!End, Held, Shown
  <2>. QED BY <1>2, <2>3 DEF Owned!Next
<1>. QED
  BY <1>4, <1>5, <1>6, <1>7, <1>8, <1>9, <1>10, <1>11, <1>12 DEF NextH, Next

\* With calls that do not overlap on one identity, it is made, removed and shown
\* in one step each, although createIdentity and removeIdentity write one thing
\* after the other, may fail or be cut off at each, and revocations are marked
\* beside them: the wallet implements Holdings
\* (identities/index.js:32-52, 99-182, identities/identity/index.js:133-203).
THEOREM ImplementsHoldings == SpecH /\ []Apart => HoldingsSpec
<1>1. InitH => KnownOK /\ MakingOK /\ IdentityIsStored /\ LoadableOK /\ TidyOK /\ FreshOK
  BY DEF InitH, Init, KnownOK, MakingOK, IdentityIsStored, LoadableOK, TidyOK, HalfMadeStored, Kept,
     Tidy, Clean, Stored, NoCall, Creating, Removing, FreshOK
<1>2. InitH => Owned!Init
  BY DEF InitH, Init, Owned!Init, HeldAs, Stored, NoIdentity
<1>3. Apart /\ TypeOK /\ KnownOK /\ MakingOK /\ IdentityIsStored /\ [NextH]_historyVars
        => MakingOK' /\ IdentityIsStored'
  BY StoredKept
<1>4. Apart /\ Apart' /\ TypeOK /\ KnownOK /\ MakingOK /\ IdentityIsStored /\ TidyOK /\ [NextH]_historyVars
        => TidyOK'
  BY TidyKept
<1>5. Apart /\ TypeOK /\ MakingOK /\ TidyOK /\ FreshOK /\ [NextH]_historyVars /\ MakingOK' => FreshOK'
  BY FreshKept
<1>6. Apart /\ TypeOK /\ KnownOK /\ MakingOK /\ LoadableOK /\ EveryDescriptorLoads /\ [NextH]_historyVars
        => LoadableOK' /\ EveryDescriptorLoads'
  BY LoadableKept
<1>7. InitH => EveryDescriptorLoads
  BY DEF InitH, Init, EveryDescriptorLoads, Stored
<1>8. TypeOK /\ KnownOK /\ MakingOK /\ LoadableOK /\ TidyOK /\ FreshOK /\ [NextH]_historyVars /\ TypeOK'
        => [Owned!Next]_(Owned!vars)
  <2>1. UNCHANGED historyVars => UNCHANGED Owned!vars
    BY DEF historyVars, vars, Owned!vars, HeldAs, Stored, CanRestore, didVars, diskVars, memoryVars
  <2>. QED BY <2>1, HoldingsStep
<1>9. [NextH]_historyVars => [Next]_vars
  BY DEF NextH, historyVars
<1>. QED
  BY <1>1, <1>2, <1>3, <1>4, <1>5, <1>6, <1>7, <1>8, <1>9, KnownKept, HistoryIsSpec,
     IdentitiesTypeCorrect, PTL DEF SpecH, HoldingsSpec, Owned!Spec
=============================================================================
