-------------------------------- MODULE Devices --------------------------------
(***************************************************************************)
(* The devices of one identity (identities/identity/devices.js), each with *)
(* its own wallet and its own copy of the replicated store of devices.     *)
(*                                                                         *)
(* The store is an OrbitDB key-value store: a log of writes stamped with   *)
(* Lamport clocks, which copies exchange whenever their wallets meet.  The *)
(* last write of a key wins and the id of the writer breaks ties.  OrbitDB *)
(* updates the index and emits its event in one turn, so the in-memory map *)
(* of devices is always a function of the log.                             *)
(***************************************************************************)
EXTENDS Integers

CONSTANTS Devices,   \* numbers, ordered as the writers' ids are in the log
          MaxTime,   \* bound: the Lamport time of the last write
          Revokes,   \* bound: pairs of a wallet and the device it may revoke,
          Updates,   \* ... and the device whose info it may update
          Leavers,   \* bound: devices that may be removed or fail to join
          Restarters \* bound: devices whose process may end

ASSUME DevicesAssumption ==
    /\ Devices \subseteq Nat
    /\ MaxTime \in Nat
    /\ Revokes \union Updates \subseteq Devices \X Devices
    /\ Leavers \union Restarters \subseteq Devices

VARIABLES didKeys, \* devices whose public key is in the DID document
          log,     \* what each device has of the log of the store
          phase,   \* where the wallet of each device stands
          marked,  \* devices whose stored identity descriptor says revoked
          call     \* the revoke() call in flight of each device, one at most

vars == <<didKeys, log, phase, marked, call>>

\* joining: createIdentity() has the stores open.  entered: the device has its
\* entry, and the identity is not constructed yet.  noticing: its constructor
\* set the timer.  revoked: descriptor.revoked is set.  stopped: and replication
\* has stopped.  gone: removed, or never created.
Phases == {"absent", "joining", "entered", "listening", "noticing", "revoked", "stopped", "gone"}
Running == {"listening", "noticing", "revoked", "stopped"}

Entries == [key : Devices, time : 1..MaxTime, by : Devices,
            revoked : BOOLEAN, sensitive : BOOLEAN]

NoCall == [pc |-> "idle"]
Snapshots == [pc : {"update", "put"}, key : Devices, sensitive : BOOLEAN]

Init ==
    /\ didKeys = {}
    /\ log = [d \in Devices |-> {}]
    /\ phase = [d \in Devices |-> "absent"]
    /\ marked = {}
    /\ call = [d \in Devices |-> NoCall]

-----------------------------------------------------------------------------
(* The store.                                                              *)

Earlier(e, f) == e.time < f.time \/ (e.time = f.time /\ e.by < f.by)

\* The index of a log holds e: no write of its key comes later.
Shows(l, e) == e \in l /\ \A f \in l : f.key = e.key => ~Earlier(e, f)

Has(l, k) == \E e \in l : e.key = k
Revoked(l, k) == \E e \in l : e.key = k /\ e.revoked /\ Shows(l, e)

\* isCurrentDeviceRevoked: without an entry the device counts as revoked.
OwnRevoked(l, d) == ~Has(l, d) \/ Revoked(l, d)

\* The clock of a write follows everything its writer has.
Clock(l, t) ==
    /\ \A e \in l : e.time < t
    /\ t = 1 \/ \E e \in l : e.time = t - 1

\* Mutant of Handled: the state before is read after the map was updated.
HandledTooLate(d, l) == phase[d]

\* handleOrbitdbStoreChange: the identity is told when its device has turned
\* revoked; its handler sets descriptor.revoked before it waits for storage.
Handled(d, l) ==
    IF /\ phase[d] \in {"listening", "noticing"}
       /\ OwnRevoked(l, d)
       /\ ~OwnRevoked(log[d], d)
      THEN "revoked"
      ELSE phase[d]

Update(d, l) ==
    /\ log' = [log EXCEPT ![d] = l]
    /\ phase' = [phase EXCEPT ![d] = Handled(d, l)]

Put(d, k, revoked, sensitive) ==
    \E t \in 1..MaxTime :
       /\ Clock(log[d], t)
       /\ Update(d, log[d] \union {[key |-> k, time |-> t, by |-> d,
                                    revoked |-> revoked, sensitive |-> sensitive]})

-----------------------------------------------------------------------------
(* A device joins with create() or import(), and leaves with remove().     *)

\* The public key enters the DID document before anything is stored.
AddKey(d) ==
    /\ phase[d] = "absent"
    /\ didKeys' = didKeys \union {d}
    /\ phase' = [phase EXCEPT ![d] = "joining"]
    /\ UNCHANGED <<log, marked, call>>

\* createDevices: the entry is written while nobody listens to the store.  The
\* apps are created before the identity can hear of a revocation.
CreateDevices(d) ==
    /\ phase[d] = "joining"
    /\ \E t \in 1..MaxTime :
          /\ Clock(log[d], t)
          /\ log' = [log EXCEPT ![d] = @ \union
                       {[key |-> d, time |-> t, by |-> d,
                         revoked |-> FALSE, sensitive |-> FALSE]}]
    /\ phase' = [phase EXCEPT ![d] = "entered"]
    /\ UNCHANGED <<didKeys, marked, call>>

\* The identity could not be created, or is removed: remove() takes the key of
\* a device that is not revoked out of the DID document, and nothing tells the
\* other devices.  Identities has the steps.
Leave(d) ==
    /\ phase[d] \in Running \union {"joining", "entered"}
    /\ phase' = [phase EXCEPT ![d] = "gone"]
    /\ didKeys' = IF phase[d] \in {"listening", "noticing"} THEN didKeys \ {d} ELSE didKeys
    /\ log' = [log EXCEPT ![d] = {}]
    /\ marked' = marked \ {d}
    /\ UNCHANGED call

-----------------------------------------------------------------------------
(* updateInfo() and revoke(), from the wallet of d about device k.         *)

\* What the map of d holds of k: the entry the store shows, and for the own
\* device the sensitive keys on top of it.  merge() writes them through the
\* shallow copy into keyMaterial, an object of the entry that the store has in
\* memory.  This changes nothing here: src/ reads that entry only to make the
\* map, and OrbitDB, which is external, is taken to replicate entries as they
\* were written.
Sensitive(d, e) == e.sensitive \/ e.key = d

\* Mutant of UpdateInfo: the update is written on a fresh record.
UpdateInfoAfresh(d, k) ==
    /\ phase[d] \in Running
    /\ \E e \in log[d] :
          /\ e.key = k /\ Shows(log[d], e)
          /\ Put(d, k, FALSE, Sensitive(d, e))
    /\ UNCHANGED <<didKeys, marked, call>>

\* An update that changes something: nothing is written when the info is the
\* one there is, and which info it is does not matter here.
UpdateInfo(d, k) ==
    /\ phase[d] \in Running
    /\ \E e \in log[d] :
          /\ e.key = k /\ Shows(log[d], e)
          /\ Put(d, k, e.revoked, Sensitive(d, e))
    /\ UNCHANGED <<didKeys, marked, call>>

\* revoke() of another device that is not revoked, as far as d knows.
Revoke(d, k) ==
    /\ phase[d] \in Running
    /\ call[d] = NoCall
    /\ k # d
    /\ \E e \in log[d] :
          /\ e.key = k /\ Shows(log[d], e) /\ ~e.revoked
          /\ call' = [call EXCEPT ![d] = [pc |-> "update", key |-> k,
                                          sensitive |-> e.sensitive]]
    /\ UNCHANGED <<didKeys, log, phase, marked>>

\* Mutant of UpdateDid: the rejection of the update is ignored.
UpdateDidUnchecked(d) ==
    /\ call[d].pc = "update"
    /\ didKeys' \in {didKeys, didKeys \ {call[d].key}}
    /\ call' = [call EXCEPT ![d].pc = "put"]
    /\ UNCHANGED <<log, phase, marked>>

\* The key is removed from the DID document, or revoke() rejects.
UpdateDid(d) ==
    /\ call[d].pc = "update"
    /\ \/ /\ didKeys' = didKeys \ {call[d].key}
          /\ call' = [call EXCEPT ![d].pc = "put"]
       \/ /\ call' = [call EXCEPT ![d] = NoCall]
          /\ UNCHANGED didKeys
    /\ UNCHANGED <<log, phase, marked>>

\* The device is written as it was when revoke() was called; the write may
\* reject, as in a store that was dropped meanwhile, and leave a device listed
\* as active without its key in the DID document.
PutRevoked(d) ==
    /\ call[d].pc = "put"
    /\ \/ /\ phase[d] # "gone"
          /\ Put(d, call[d].key, TRUE, call[d].sensitive)
       \/ UNCHANGED <<log, phase>>
    /\ call' = [call EXCEPT ![d] = NoCall]
    /\ UNCHANGED <<didKeys, marked>>

-----------------------------------------------------------------------------
(* Replication, and what a revoked device does.                            *)

Replicating(d) == phase[d] \in {"joining", "entered", "listening", "noticing", "revoked"}

\* Two wallets meet and d gets what s has.
Sync(s, d) ==
    /\ Replicating(s) /\ Replicating(d)
    /\ ~(log[s] \subseteq log[d])
    /\ Update(d, log[d] \union log[s])
    /\ UNCHANGED <<didKeys, marked, call>>

\* handleDevicesCurrentRevoke, after descriptor.revoked: the descriptor may not
\* reach storage, and the replication may fail to stop.
FinishRevocation(d) ==
    /\ phase[d] = "revoked"
    /\ marked' \in {marked, marked \union {d}}
    /\ \E to \in {"revoked", "stopped"} : phase' = [phase EXCEPT ![d] = to]
    /\ UNCHANGED <<didKeys, log, call>>

\* The timer that the constructor of the identity set.
Notice(d) ==
    /\ phase[d] = "noticing"
    /\ phase' = [phase EXCEPT ![d] = "revoked"]
    /\ UNCHANGED <<didKeys, log, marked, call>>

\* Mutant of Restored: the constructor does not look at the device.
RestoredUnseen(d) == IF d \in marked THEN "stopped" ELSE "listening"

\* loadIdentities: a descriptor marked as revoked is loaded without replication,
\* and the constructor notices a revocation that was not marked.
Restored(d) ==
    IF d \in marked
      THEN "stopped"
      ELSE IF Revoked(log[d], d) THEN "noticing" ELSE "listening"

\* The constructor of a new identity looks at its device in the same way.
Listen(d) ==
    /\ phase[d] = "entered"
    /\ phase' = [phase EXCEPT ![d] = Restored(d)]
    /\ UNCHANGED <<didKeys, log, marked, call>>

\* The process of d ends, with its calls, and a new one loads the identity, of
\* which everything is in storage once the device has its entry.
Reload(d) ==
    /\ phase[d] \in Running \union {"entered"}
    /\ phase' = [phase EXCEPT ![d] = Restored(d)]
    /\ call' = [call EXCEPT ![d] = NoCall]
    /\ UNCHANGED <<didKeys, log, marked>>

Next ==
    \/ \E d \in Devices :
          \/ AddKey(d)
          \/ CreateDevices(d)
          \/ Listen(d)
          \/ UpdateDid(d)
          \/ PutRevoked(d)
          \/ \E s \in Devices : Sync(s, d)
          \/ FinishRevocation(d)
          \/ Notice(d)
    \/ \E p \in Revokes : Revoke(p[1], p[2])
    \/ \E p \in Updates : UpdateInfo(p[1], p[2])
    \/ \E d \in Leavers : Leave(d)
    \/ \E d \in Restarters : Reload(d)

Spec == Init /\ [][Next]_vars

\* A wallet that replicates keeps meeting wallets that have something for it,
\* and the timer fires.  Nothing makes an owner call an entry point, a write
\* succeed or a process end.
Fairness ==
    \A d \in Devices :
       /\ WF_vars(Notice(d))
       /\ WF_vars(\E s \in Devices : Sync(s, d))

-----------------------------------------------------------------------------
TypeOK ==
    /\ didKeys \subseteq Devices
    /\ log \in [Devices -> SUBSET Entries]
    /\ phase \in [Devices -> Phases]
    /\ marked \subseteq Devices
    /\ call \in [Devices -> {NoCall} \union Snapshots]

(* Safety. *)

\* "Remove device from DID Document and only then remove it from orbitdb"
\* (devices.js:67): wherever a device is listed as revoked, its key is out of
\* the DID document for good, so revoke() may return early for it; whichever
\* revoke() calls failed, were cut off or overlapped before.
RevokedHasNoKey ==
    \A d \in Devices : \A e \in log[d] : e.revoked => e.key \notin didKeys

\* A wallet whose own device is listed as revoked has been told, or its
\* constructor will tell it: also when a concurrent update brought the device
\* back in between, and when the process ended before the mark was stored.
RevocationIsTold ==
    \A d \in Devices :
       phase[d] \in Running /\ OwnRevoked(log[d], d) =>
          phase[d] \in {"noticing", "revoked", "stopped"}

\* "Keys in the descriptor that are consired sensitive and must not be
\* replicated" (constants/devices.js:12): what another device has of a
\* device holds none of its private keys.
SensitiveStaysHome ==
    \A d \in Devices : \A e \in log[d] : e.sensitive => e.key = d

(* Liveness. *)

\* A device that another replicating device lists as revoked gets to know it,
\* even if processes end in between, unless that listing is lost to a concurrent
\* update, or its holders leave or stop replicating first.
Listed(d) == \E s \in Devices : Replicating(s) /\ Revoked(log[s], d)
Told(d) == phase[d] \in {"revoked", "stopped"}
Revocable == {p[2] : p \in Revokes}
RevocationReachesDevice ==
    \A d \in Revocable :
       Listed(d) /\ phase[d] \in Running ~> Told(d) \/ phase[d] = "gone" \/ ~Listed(d)

-----------------------------------------------------------------------------
(* The devices as their owner sees them.                                   *)

Standing(d) ==
    IF Told(d)
      THEN IF d \in marked THEN "noted" ELSE "told"
      ELSE IF phase[d] \in {"absent", "gone"} THEN phase[d] ELSE "joined"

Register == INSTANCE Membership WITH
                members <- didKeys,
                standing <- [d \in Devices |-> Standing(d)]

\* However the entries of devices are replicated, updated at the same time, cut
\* off or lost, a device takes itself for revoked only after its key has left
\* the DID document, where it never comes back; and once the mark is stored it
\* does so whenever its process starts again.
MembershipSpec == Register!Spec
=============================================================================
