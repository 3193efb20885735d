----------------------------- MODULE DevicesProofs -----------------------------
(***************************************************************************)
(* Theorems about Devices and DevicesHistory, for any number of devices,   *)
(* writes, concurrent calls, removals and ends of processes.               *)
(***************************************************************************)
EXTENDS DevicesHistory, TLAPS

-----------------------------------------------------------------------------
(* What a step does to the logs.                                           *)

\* d writes n: it follows everything that d has.
Wrote(d, n) ==
    /\ n \in Entries /\ n.by = d
    /\ phase[d] \notin {"absent", "gone"}
    /\ \A e \in log[d] : e.time < n.time
    /\ log' = [log EXCEPT ![d] = log[d] \union {n}]

\* The device of d writes about itself for the first time.
Created(d, n) ==
    /\ Wrote(d, n)
    /\ phase[d] = "joining"
    /\ n.key = d /\ ~n.revoked /\ ~n.sensitive
    /\ phase' = [phase EXCEPT ![d] = "entered"]
    /\ UNCHANGED <<didKeys, marked, call>>

\* updateInfo() writes over the entry e.
Updated(d, e, n) ==
    /\ Wrote(d, n)
    /\ phase[d] \in Running
    /\ e \in log[d] /\ Shows(log[d], e)
    /\ n.key = e.key /\ n.revoked = e.revoked /\ n.sensitive = Sensitive(d, e)
    /\ phase' = [phase EXCEPT ![d] = Handled(d, log[d] \union {n})]
    /\ UNCHANGED <<didKeys, marked, call>>

\* revoke() writes what its call has.
WroteRevoked(d, n) ==
    /\ Wrote(d, n)
    /\ call[d].pc = "put"
    /\ n.key = call[d].key /\ n.revoked /\ n.sensitive = call[d].sensitive
    /\ phase' = [phase EXCEPT ![d] = Handled(d, log[d] \union {n})]
    /\ call' = [call EXCEPT ![d] = NoCall]
    /\ UNCHANGED <<didKeys, marked>>

LEMMA Handles ==
    ASSUME NEW d \in Devices, NEW l, phase \in [Devices -> Phases]
    PROVE  /\ Handled(d, l) \in Phases
           /\ Handled(d, l) # phase[d] => phase[d] \in Running /\ Handled(d, l) = "revoked"
BY DEF Handled, Phases, Running

LEMMA CallShape ==
    ASSUME TypeOK, NEW d \in Devices, call[d].pc # "idle"
    PROVE  call[d] \in Snapshots /\ call[d] # NoCall
BY DEF TypeOK, NoCall, Snapshots

LEMMA CreateWrites ==
    ASSUME TypeOK, NEW d \in Devices, CreateDevices(d)
    PROVE  \E n \in Entries : Created(d, n)
<1>1. PICK t \in 1..MaxTime :
        /\ Clock(log[d], t)
        /\ log' = [log EXCEPT ![d] = @ \union
                     {[key |-> d, time |-> t, by |-> d, revoked |-> FALSE, sensitive |-> FALSE]}]
  BY DEF CreateDevices
<1> DEFINE n == [key |-> d, time |-> t, by |-> d, revoked |-> FALSE, sensitive |-> FALSE]
<1>2. n \in Entries
  BY DEF Entries
<1>3. Created(d, n)
  BY <1>1, <1>2 DEF CreateDevices, Created, Wrote, Clock, TypeOK
<1>4. QED
  BY <1>2, <1>3

LEMMA PutWrites ==
    ASSUME TypeOK, NEW d \in Devices, NEW k \in Devices, NEW r \in BOOLEAN, NEW s \in BOOLEAN,
           phase[d] \notin {"absent", "gone"}, Put(d, k, r, s)
    PROVE  \E n \in Entries :
              /\ Wrote(d, n) /\ n.key = k /\ n.revoked = r /\ n.sensitive = s
              /\ phase' = [phase EXCEPT ![d] = Handled(d, log[d] \union {n})]
<1>1. PICK t \in 1..MaxTime :
        /\ Clock(log[d], t)
        /\ Update(d, log[d] \union {[key |-> k, time |-> t, by |-> d,
                                     revoked |-> r, sensitive |-> s]})
  BY DEF Put
<1> DEFINE n == [key |-> k, time |-> t, by |-> d, revoked |-> r, sensitive |-> s]
<1>2. n \in Entries
  BY DEF Entries
<1>3. Wrote(d, n)
  BY <1>1, <1>2 DEF Wrote, Clock, Update
<1>4. QED
  BY <1>1, <1>2, <1>3 DEF Update

LEMMA UpdateWrites ==
    ASSUME TypeOK, NEW d \in Devices, NEW k \in Devices, UpdateInfo(d, k)
    PROVE  \E e \in log[d], n \in Entries : Updated(d, e, n)
<1>1. PICK e \in log[d] : /\ e.key = k /\ Shows(log[d], e)
                          /\ Put(d, k, e.revoked, Sensitive(d, e))
  BY DEF UpdateInfo
<1>2. e \in Entries /\ e.revoked \in BOOLEAN /\ Sensitive(d, e) \in BOOLEAN
  BY DEF TypeOK, Entries, Sensitive
<1> DEFINE r == e.revoked  s == Sensitive(d, e)
<1>3. phase[d] \notin {"absent", "gone"} /\ r \in BOOLEAN /\ s \in BOOLEAN /\ Put(d, k, r, s)
  BY <1>1, <1>2 DEF UpdateInfo, Running
<1> HIDE DEF r, s
<1>5. PICK n \in Entries :
        /\ Wrote(d, n) /\ n.key = k /\ n.revoked = r /\ n.sensitive = s
        /\ phase' = [phase EXCEPT ![d] = Handled(d, log[d] \union {n})]
  BY <1>3, PutWrites, SMTT(20)
<1>4. Updated(d, e, n)
  BY <1>1, <1>5 DEF Updated, UpdateInfo, r, s
<1>6. QED
  BY <1>4

LEMMA RevokeWrites ==
    ASSUME TypeOK, NEW d \in Devices, PutRevoked(d), phase[d] # "absent"
    PROVE  \/ \E n \in Entries : WroteRevoked(d, n)
           \/ UNCHANGED <<didKeys, log, phase, marked>> /\ call' = [call EXCEPT ![d] = NoCall]
<1>1. call[d] \in Snapshots
  BY CallShape DEF PutRevoked
<1>2. CASE UNCHANGED <<log, phase>>
  BY <1>2 DEF PutRevoked
<1>3. CASE phase[d] # "gone" /\ Put(d, call[d].key, TRUE, call[d].sensitive)
  <2>1. PICK k \in Devices, r \in BOOLEAN, s \in BOOLEAN :
          k = call[d].key /\ r = TRUE /\ s = call[d].sensitive
    BY <1>1 DEF Snapshots
  <2>3. phase[d] \notin {"absent", "gone"} /\ Put(d, k, r, s)
    BY <1>3, <2>1
  <2>2. PICK n \in Entries :
          /\ Wrote(d, n) /\ n.key = k /\ n.revoked = r /\ n.sensitive = s
          /\ phase' = [phase EXCEPT ![d] = Handled(d, log[d] \union {n})]
    BY <2>3, PutWrites
  <2>4. WroteRevoked(d, n)
    BY <2>1, <2>2 DEF WroteRevoked, PutRevoked
  <2>5. QED
    BY <2>4
<1>4. QED
  BY <1>2, <1>3 DEF PutRevoked

\* The devices that a call is made from, or is about, have joined.
CallersOK == \A d \in Devices : call[d].pc # "idle" => phase[d] # "absent"

\* What there is to a step, the quiet ones being those that write nothing.
QuietStep ==
    \E d \in Devices :
       \/ AddKey(d) \/ UpdateDid(d) \/ FinishRevocation(d) \/ Notice(d) \/ Listen(d) \/ Reload(d)
       \/ \E k \in Devices : Revoke(d, k)
       \/ UNCHANGED <<didKeys, log, phase, marked>> /\ call' = [call EXCEPT ![d] = NoCall]

WriteStep ==
    \E d \in Devices, n \in Entries :
       \/ Created(d, n)
       \/ \E e \in log[d] : Updated(d, e, n)
       \/ WroteRevoked(d, n)

LEMMA Steps ==
    ASSUME TypeOK, CallersOK, [Next]_vars
    PROVE  \/ WriteStep
           \/ \E s, d \in Devices : Sync(s, d)
           \/ \E d \in Devices : Leave(d)
           \/ QuietStep
           \/ UNCHANGED vars
<1>1. ASSUME NEW d \in Devices, CreateDevices(d) PROVE WriteStep
  BY <1>1, CreateWrites DEF WriteStep
<1>2. ASSUME NEW p \in Updates, UpdateInfo(p[1], p[2]) PROVE WriteStep
  <2>1. p[1] \in Devices /\ p[2] \in Devices
    BY DevicesAssumption
  <2>2. QED
    BY <1>2, <2>1, UpdateWrites DEF WriteStep
<1>3. ASSUME NEW d \in Devices, PutRevoked(d) PROVE WriteStep \/ QuietStep
  <2>1. phase[d] # "absent"
    BY <1>3 DEF PutRevoked, CallersOK
  <2>2. QED
    BY <1>3, <2>1, RevokeWrites DEF WriteStep, QuietStep
<1>4. ASSUME NEW p \in Revokes, Revoke(p[1], p[2]) PROVE QuietStep
  <2>1. p[1] \in Devices /\ p[2] \in Devices
    BY DevicesAssumption
  <2>2. QED
    BY <1>4, <2>1 DEF QuietStep
<1>5. ASSUME NEW d \in Leavers, Leave(d) PROVE \E e \in Devices : Leave(e)
  BY <1>5, DevicesAssumption
<1>6. ASSUME NEW d \in Restarters, Reload(d) PROVE QuietStep
  BY <1>6, DevicesAssumption DEF QuietStep
<1>7. QED
  BY <1>1, <1>2, <1>3, <1>4, <1>5, <1>6 DEF Next, QuietStep

LEMMA Restores == ASSUME NEW d \in Devices PROVE Restored(d) \in {"stopped", "noticing", "listening"}
BY DEF Restored

-----------------------------------------------------------------------------
IType == TypeOK /\ CallersOK

LEMMA TypeInit == Init => IType
BY DEF Init, IType, TypeOK, CallersOK, Phases, NoCall

LEMMA TypeStep == IType /\ [Next]_vars => IType'
<1> SUFFICES ASSUME TypeOK, CallersOK, [Next]_vars PROVE TypeOK' /\ CallersOK'
  BY DEF IType
<1>1. CASE WriteStep
  <2>1. PICK d \in Devices, n \in Entries :
          \/ Created(d, n)
          \/ \E e \in log[d] : Updated(d, e, n)
          \/ WroteRevoked(d, n)
    BY <1>1 DEF WriteStep
  <2>2. Wrote(d, n)
    BY <2>1 DEF Created, Updated, WroteRevoked
  <2>3. log' \in [Devices -> SUBSET Entries]
    BY <2>2 DEF Wrote, TypeOK
  <2>4. PICK p \in Phases : /\ phase' = [phase EXCEPT ![d] = p]
                            /\ p # "absent" /\ UNCHANGED <<didKeys, marked>>
                            /\ call' \in {call, [call EXCEPT ![d] = NoCall]}
    <3>1. CASE Created(d, n)
      BY <3>1 DEF Created, Phases
    <3>2. CASE ~Created(d, n)
      <4>1. Handled(d, log[d] \union {n}) \in Phases /\ Handled(d, log[d] \union {n}) # "absent"
        BY <2>2, Handles DEF Wrote, TypeOK
      <4>2. QED
        BY <2>1, <3>2, <4>1 DEF Updated, WroteRevoked
    <3>3. QED
      BY <3>1, <3>2
  <2>5. QED
    BY <2>3, <2>4 DEF TypeOK, CallersOK, NoCall
<1>2. ASSUME NEW s \in Devices, NEW d \in Devices, Sync(s, d) PROVE TypeOK' /\ CallersOK'
  <2>1. PICK p \in Phases : phase' = [phase EXCEPT ![d] = p] /\ p # "absent"
    BY <1>2, Handles DEF Sync, Update, Replicating, TypeOK
  <2>2. log' \in [Devices -> SUBSET Entries]
    BY <1>2 DEF Sync, Update, TypeOK
  <2>3. QED
    BY <1>2, <2>1, <2>2 DEF Sync, TypeOK, CallersOK
<1>3. ASSUME NEW d \in Devices, Leave(d) PROVE TypeOK' /\ CallersOK'
  BY <1>3 DEF Leave, TypeOK, CallersOK, Phases
<1>4. CASE QuietStep
  <2>1. PICK d \in Devices :
          \/ AddKey(d) \/ UpdateDid(d) \/ FinishRevocation(d) \/ Notice(d) \/ Listen(d) \/ Reload(d)
          \/ \E k \in Devices : Revoke(d, k)
          \/ UNCHANGED <<didKeys, log, phase, marked>> /\ call' = [call EXCEPT ![d] = NoCall]
    BY <1>4 DEF QuietStep
  <2>2. CASE AddKey(d)
    BY <2>2 DEF AddKey, TypeOK, CallersOK, Phases
  <2>3. CASE UpdateDid(d)
    <3>1. call[d] \in Snapshots
      BY <2>3, CallShape DEF UpdateDid
    <3>2. CASE call' = [call EXCEPT ![d].pc = "put"]
      <4>1. [call[d] EXCEPT !.pc = "put"] \in Snapshots
        BY <3>1 DEF Snapshots
      <4>2. call' = [call EXCEPT ![d] = [call[d] EXCEPT !.pc = "put"]]
        BY <3>2
      <4>3. call' \in [Devices -> {NoCall} \union Snapshots]
        BY <4>1, <4>2 DEF TypeOK
      <4>4. \A e \in Devices : call'[e].pc # "idle" => call[e].pc # "idle"
        BY <2>3, <4>2 DEF TypeOK, UpdateDid
      <4>5. QED
        BY <2>3, <4>3, <4>4 DEF UpdateDid, TypeOK, CallersOK
    <3>3. CASE call' = [call EXCEPT ![d] = NoCall]
      BY <2>3, <3>3 DEF UpdateDid, TypeOK, CallersOK, NoCall
    <3>4. QED
      BY <2>3, <3>2, <3>3 DEF UpdateDid
  <2>4. CASE FinishRevocation(d)
    BY <2>4 DEF FinishRevocation, TypeOK, CallersOK, Phases
  <2>5. CASE Notice(d)
    BY <2>5 DEF Notice, TypeOK, CallersOK, Phases
  <2>6. CASE Listen(d) \/ Reload(d)
    BY <2>6, Restores DEF Listen, Reload, TypeOK, CallersOK, Phases, NoCall
  <2>7. ASSUME NEW k \in Devices, Revoke(d, k) PROVE TypeOK' /\ CallersOK'
    <3>1. PICK e \in log[d] : call' = [call EXCEPT ![d] = [pc |-> "update", key |-> k,
                                                           sensitive |-> e.sensitive]]
      BY <2>7 DEF Revoke
    <3>2. e \in Entries
      BY DEF TypeOK
    <3>3. [pc |-> "update", key |-> k, sensitive |-> e.sensitive] \in Snapshots
      BY <3>2 DEF Entries, Snapshots
    <3>4. QED
      BY <2>7, <3>1, <3>3 DEF Revoke, Running, TypeOK, CallersOK
  <2>8. CASE UNCHANGED <<didKeys, log, phase, marked>> /\ call' = [call EXCEPT ![d] = NoCall]
    BY <2>8 DEF TypeOK, CallersOK, NoCall
  <2>9. QED
    BY <2>1, <2>2, <2>3, <2>4, <2>5, <2>6, <2>7, <2>8
<1>5. CASE UNCHANGED vars
  BY <1>5 DEF vars, TypeOK, CallersOK
<1>6. QED
  BY <1>1, <1>2, <1>3, <1>4, <1>5, Steps

\* The stores, the DID document, the phases of the wallets and the revoke() calls
\* keep their types, whatever is replicated, cut off or removed (devices.js).
THEOREM DevicesTypeCorrect == Spec => []TypeOK
<1>1. Spec => []IType
  BY TypeInit, TypeStep, PTL DEF Spec
<1>2. IType => TypeOK
  BY DEF IType
<1>3. QED
  BY <1>1, <1>2, PTL

-----------------------------------------------------------------------------
Joined(k) == phase[k] \notin {"absent", "joining"}

\* Nobody who joined is ever about to join again, and who is gone stays away.
LEMMA PhaseSteps ==
    ASSUME TypeOK, CallersOK, [Next]_vars, NEW k \in Devices
    PROVE  (Joined(k) => Joined(k)') /\ (phase[k] = "gone" => phase'[k] = "gone")
<1> USE DEF Joined
<1>1. CASE WriteStep
  <2>1. PICK d \in Devices, n \in Entries :
          \/ Created(d, n)
          \/ \E e \in log[d] : Updated(d, e, n)
          \/ WroteRevoked(d, n)
    BY <1>1 DEF WriteStep
  <2>2. CASE Created(d, n)
    BY <2>2 DEF Created, TypeOK
  <2>3. CASE phase' = [phase EXCEPT ![d] = Handled(d, log[d] \union {n})]
    BY <2>3, Handles DEF TypeOK, Running
  <2>4. QED
    BY <2>1, <2>2, <2>3 DEF Updated, WroteRevoked
<1>2. ASSUME NEW s \in Devices, NEW d \in Devices, Sync(s, d) PROVE (Joined(k) => Joined(k)') /\ (phase[k] = "gone" => phase'[k] = "gone")
  BY <1>2, Handles DEF Sync, Update, TypeOK, Running
<1>3. ASSUME NEW d \in Devices, Leave(d) PROVE (Joined(k) => Joined(k)') /\ (phase[k] = "gone" => phase'[k] = "gone")
  BY <1>3 DEF Leave, TypeOK
<1>4. CASE QuietStep
  <2>1. PICK d \in Devices :
          \/ AddKey(d) \/ UpdateDid(d) \/ FinishRevocation(d) \/ Notice(d) \/ Listen(d) \/ Reload(d)
          \/ \E j \in Devices : Revoke(d, j)
          \/ UNCHANGED <<didKeys, log, phase, marked>> /\ call' = [call EXCEPT ![d] = NoCall]
    BY <1>4 DEF QuietStep
  <2>2. CASE AddKey(d) \/ FinishRevocation(d) \/ Notice(d)
    BY <2>2 DEF AddKey, FinishRevocation, Notice, TypeOK
  <2>3. CASE Listen(d) \/ Reload(d)
    BY <2>3, Restores DEF Listen, Reload, TypeOK, Running
  <2>4. CASE UNCHANGED phase
    BY <2>4
  <2>5. QED
    BY <2>1, <2>2, <2>3, <2>4 DEF UpdateDid, Revoke
<1>5. CASE UNCHANGED vars
  BY <1>5 DEF vars
<1>6. QED
  BY <1>1, <1>2, <1>3, <1>4, <1>5, Steps

-----------------------------------------------------------------------------
\* Every entry is about a device that joined, and a revoked one about a device
\* without a key; the same holds of the calls that are to write one.
EntriesOK ==
    \A d \in Devices : \A e \in log[d] :
       Joined(e.key) /\ (e.revoked => e.key \notin didKeys)

CallKeysOK ==
    \A d \in Devices :
       call[d].pc # "idle" =>
          Joined(call[d].key) /\ (call[d].pc = "put" => call[d].key \notin didKeys)

IKeys == IType /\ EntriesOK /\ CallKeysOK

\* Keys enter the DID document before their devices are in any entry.
LEMMA KeySteps ==
    ASSUME TypeOK, CallersOK, [Next]_vars, NEW k \in Devices, Joined(k), k \notin didKeys
    PROVE  k \notin didKeys'
<1> USE DEF Joined
<1>1. CASE WriteStep
  BY <1>1 DEF WriteStep, Created, Updated, WroteRevoked
<1>2. CASE \E s, d \in Devices : Sync(s, d)
  BY <1>2 DEF Sync
<1>3. CASE \E d \in Devices : Leave(d)
  BY <1>3 DEF Leave
<1>4. CASE QuietStep
  BY <1>4 DEF QuietStep, AddKey, UpdateDid, FinishRevocation, Notice, Listen, Reload, Revoke
<1>5. CASE UNCHANGED vars
  BY <1>5 DEF vars
<1>6. QED
  BY <1>1, <1>2, <1>3, <1>4, <1>5, Steps

\* What an entry of the next state owes to this one.
LEMMA EntrySteps ==
    ASSUME TypeOK, CallersOK, EntriesOK, CallKeysOK, [Next]_vars,
           NEW d \in Devices, NEW e \in log'[d]
    PROVE  /\ e.key \in Devices /\ Joined(e.key)'
           /\ e.revoked => e.key \notin didKeys'
<1>1. ASSUME NEW f \in Devices, e \in log[f]
      PROVE  e.key \in Devices /\ Joined(e.key)' /\ (e.revoked => e.key \notin didKeys')
  <2>1. e.key \in Devices
    BY <1>1 DEF TypeOK, Entries
  <2>2. QED
    BY <1>1, <2>1, PhaseSteps, KeySteps DEF EntriesOK
<1>2. CASE WriteStep
  <2>1. PICK w \in Devices, n \in Entries :
          \/ Created(w, n)
          \/ \E f \in log[w] : Updated(w, f, n)
          \/ WroteRevoked(w, n)
    BY <1>2 DEF WriteStep
  <2>2. e \in log[d] \/ (d = w /\ e = n)
    BY <2>1 DEF Created, Updated, WroteRevoked, Wrote, TypeOK
  <2>3. CASE e = n
    <3>1. e.key \in Devices
      BY <2>3 DEF Entries
    <3>2. CASE Created(w, n)
      BY <2>3, <3>1, <3>2 DEF Created, TypeOK, Joined
    <3>3. ASSUME NEW f \in log[w], Updated(w, f, n)
          PROVE  Joined(e.key)' /\ (e.revoked => e.key \notin didKeys')
      <4>1. Joined(e.key) /\ (e.revoked => e.key \notin didKeys)
        BY <2>3, <3>3 DEF Updated, EntriesOK
      <4>2. QED
        BY <3>1, <4>1, PhaseSteps, KeySteps
    <3>4. CASE WroteRevoked(w, n)
      <4>1. Joined(e.key) /\ e.key \notin didKeys
        BY <2>3, <3>4 DEF WroteRevoked, CallKeysOK
      <4>2. QED
        BY <3>1, <4>1, PhaseSteps, KeySteps
    <3>5. QED
      BY <2>1, <3>1, <3>2, <3>3, <3>4
  <2>4. QED
    BY <1>1, <2>2, <2>3
<1>3. CASE \E s, t \in Devices : Sync(s, t)
  <2>1. \E f \in Devices : e \in log[f]
    BY <1>3 DEF Sync, Update, TypeOK
  <2>2. QED
    BY <1>1, <2>1
<1>4. CASE e \in log[d]
  BY <1>1, <1>4
<1>5. CASE \E f \in Devices : Leave(f)
  <2>1. e \in log[d]
    BY <1>5 DEF Leave, TypeOK
  <2>2. QED
    BY <1>1, <2>1
<1>6. QuietStep \/ UNCHANGED vars => UNCHANGED log
  BY DEF QuietStep, vars, AddKey, UpdateDid, FinishRevocation, Notice, Listen, Reload, Revoke
<1>7. QED
  BY <1>2, <1>3, <1>4, <1>5, <1>6, Steps

\* What a call of the next state owes to this one.
LEMMA CallSteps ==
    ASSUME TypeOK, CallersOK, EntriesOK, CallKeysOK, [Next]_vars,
           NEW d \in Devices, call'[d].pc # "idle"
    PROVE  Joined(call[d].key)' /\ (call'[d].pc = "put" => call'[d].key \notin didKeys')
<1>1. CASE call'[d] = call[d]
  <2>1. PICK k \in Devices : k = call[d].key
    BY <1>1, CallShape DEF Snapshots
  <2>2. Joined(k) /\ (call[d].pc = "put" => k \notin didKeys)
    BY <1>1, <2>1 DEF CallKeysOK
  <2>3. Joined(k)' /\ (call[d].pc = "put" => k \notin didKeys')
    BY <2>2, PhaseSteps, KeySteps
  <2>4. QED
    BY <1>1, <2>1, <2>3 DEF Joined
<1>2. ASSUME NEW k \in Devices, Revoke(d, k)
      PROVE  Joined(call[d].key)' /\ (call'[d].pc = "put" => call'[d].key \notin didKeys')
  <2>1. Joined(k)
    BY <1>2 DEF Revoke, EntriesOK
  <2>2. call'[d].key = k /\ call'[d].pc = "update"
    BY <1>2 DEF Revoke, TypeOK
  <2>3. Joined(k)'
    BY <2>1, PhaseSteps
  <2>4. QED
    BY <2>2, <2>3 DEF Joined
<1>3. CASE UpdateDid(d)
  <2>1. call[d] \in Snapshots
    BY <1>3, CallShape DEF UpdateDid
  <2>2. CASE didKeys' = didKeys \ {call[d].key} /\ call' = [call EXCEPT ![d].pc = "put"]
    <3>1. PICK k \in Devices : k = call[d].key
      BY <2>1 DEF Snapshots
    <3>2. call'[d].key = k
      BY <2>1, <2>2, <3>1 DEF TypeOK, Snapshots
    <3>3. Joined(k)
      BY <1>3, <3>1 DEF UpdateDid, CallKeysOK
    <3>4. Joined(k)' /\ k \notin didKeys'
      BY <2>2, <3>1, <3>3, PhaseSteps
    <3>5. QED
      BY <3>2, <3>4 DEF Joined
  <2>3. CASE call' = [call EXCEPT ![d] = NoCall]
    BY <2>3 DEF TypeOK, NoCall
  <2>4. QED
    BY <1>3, <2>2, <2>3 DEF UpdateDid
<1>4. call'[d] = call[d] \/ UpdateDid(d) \/ \E k \in Devices : Revoke(d, k)
  <2>1. CASE WriteStep
    BY <2>1 DEF WriteStep, Created, Updated, WroteRevoked, TypeOK, NoCall
  <2>2. CASE \E s, t \in Devices : Sync(s, t)
    BY <2>2 DEF Sync
  <2>3. CASE \E t \in Devices : Leave(t)
    BY <2>3 DEF Leave
  <2>4. CASE QuietStep
    BY <2>4 DEF QuietStep, AddKey, UpdateDid, FinishRevocation, Notice, Listen, Reload, Revoke, TypeOK, NoCall
  <2>5. CASE UNCHANGED vars
    BY <2>5 DEF vars
  <2>6. QED
    BY <2>1, <2>2, <2>3, <2>4, <2>5, Steps
<1>5. QED
  BY <1>1, <1>2, <1>3, <1>4

LEMMA KeysInit == Init => IKeys
BY TypeInit DEF Init, IKeys, EntriesOK, CallKeysOK, NoCall

LEMMA KeysStep == IKeys /\ [Next]_vars => IKeys'
<1> SUFFICES ASSUME IKeys, [Next]_vars PROVE IKeys'
  OBVIOUS
<1>1. IType'
  BY TypeStep DEF IKeys
<1>2. EntriesOK'
  BY EntrySteps DEF IKeys, IType, EntriesOK
<1>3. CallKeysOK'
  BY CallSteps DEF IKeys, IType, CallKeysOK
<1>4. QED
  BY <1>1, <1>2, <1>3 DEF IKeys

\* Wherever a device is listed as revoked its key is out of the DID document:
\* revoke() updates the document first, and keys are added once (devices.js:66).
THEOREM RevokedKeyless == Spec => []RevokedHasNoKey
<1>1. Spec => []IKeys
  BY KeysInit, KeysStep, PTL DEF Spec
<1>2. IKeys => RevokedHasNoKey
  BY DEF IKeys, EntriesOK, RevokedHasNoKey
<1>3. QED
  BY <1>1, <1>2, PTL

-----------------------------------------------------------------------------
\* A wallet that runs has its own device in its store.
OwnEntry == \A d \in Devices : phase[d] \in Running \union {"entered"} => Has(log[d], d)

ITold == IKeys /\ OwnEntry /\ RevocationIsTold

\* handleOrbitdbStoreChange() lets no revocation of the own device pass.
LEMMA HandledTold ==
    ASSUME TypeOK, OwnEntry, RevocationIsTold, NEW d \in Devices, NEW l, log[d] \subseteq l,
           Handled(d, l) \in Running \union {"entered"}
    PROVE  /\ Has(l, d)
           /\ Handled(d, l) \in Running /\ OwnRevoked(l, d) =>
                 Handled(d, l) \in {"noticing", "revoked", "stopped"}
<1>1. phase[d] \in Running \union {"entered"}
  BY Handles DEF TypeOK
<1>2. Has(log[d], d) /\ Has(l, d)
  BY <1>1 DEF OwnEntry, Has
<1>3. ASSUME OwnRevoked(l, d), phase[d] = "listening" PROVE Handled(d, l) = "revoked"
  BY <1>1, <1>3 DEF RevocationIsTold, Handled, Running
<1>4. ASSUME phase[d] # "listening", Handled(d, l) \in Running
      PROVE  Handled(d, l) \in {"noticing", "revoked", "stopped"}
  BY <1>1, <1>4 DEF Handled, Running
<1>5. QED
  BY <1>2, <1>3, <1>4

\* The entry that a device creates is the last one about it.
LEMMA CreatedTold ==
    ASSUME NEW d \in Devices, NEW n \in Entries, log \in [Devices -> SUBSET Entries], Created(d, n)
    PROVE  Has(log'[d], d) /\ ~ OwnRevoked(log'[d], d)
<1>1. log'[d] = log[d] \union {n} /\ n.key = d /\ ~ n.revoked
  BY DEF Created, Wrote
<1>2. \A e \in log[d] : Earlier(e, n)
  BY DEF Created, Wrote, Earlier
<1>3. ASSUME NEW e \in log'[d], e.key = d, Shows(log'[d], e) PROVE e = n
  BY <1>1, <1>2, <1>3 DEF Shows
<1>4. QED
  BY <1>1, <1>3 DEF Has, OwnRevoked, Revoked

LEMMA ToldInit == Init => ITold
BY KeysInit DEF Init, ITold, OwnEntry, RevocationIsTold, Running

LEMMA ToldStep == ITold /\ [Next]_vars => ITold'
<1> SUFFICES ASSUME ITold, [Next]_vars PROVE ITold'
  OBVIOUS
<1> USE DEF ITold
<1>1. IKeys'
  BY KeysStep
<1>2. TypeOK /\ CallersOK
  BY DEF IKeys, IType
<1> DEFINE ToldIn(d) ==
             phase'[d] \in Running \union {"entered"} =>
                /\ Has(log'[d], d)
                /\ phase'[d] \in Running /\ OwnRevoked(log'[d], d) =>
                      phase'[d] \in {"noticing", "revoked", "stopped"}
<1>3. SUFFICES ASSUME NEW d \in Devices PROVE ToldIn(d)
  BY <1>1, <1>3 DEF OwnEntry, RevocationIsTold
<1>4. ASSUME log'[d] = log[d], phase'[d] = phase[d] PROVE ToldIn(d)
  BY <1>4 DEF OwnEntry, RevocationIsTold
<1>5. ASSUME NEW l, log[d] \subseteq l, log'[d] = l, phase'[d] = Handled(d, l) PROVE ToldIn(d)
  BY <1>2, <1>5, HandledTold
<1>6. CASE WriteStep
  <2>1. PICK w \in Devices, n \in Entries :
          \/ Created(w, n)
          \/ \E e \in log[w] : Updated(w, e, n)
          \/ WroteRevoked(w, n)
    BY <1>6 DEF WriteStep
  <2>2. CASE w # d
    BY <1>2, <1>4, <2>1, <2>2 DEF Created, Updated, WroteRevoked, Wrote, TypeOK
  <2>3. CASE w = d /\ Created(w, n)
    BY <1>2, <2>3, CreatedTold DEF TypeOK
  <2>4. CASE w = d /\ ~ Created(w, n)
    <3> DEFINE l == log[d] \union {n}
    <3>1. log'[d] = l
      BY <1>2, <2>1, <2>4 DEF Updated, WroteRevoked, Wrote, TypeOK
    <3>2. phase' = [phase EXCEPT ![d] = Handled(d, l)]
      BY <2>1, <2>4 DEF Updated, WroteRevoked
    <3>3. phase'[d] = Handled(d, l)
      BY <1>2, <3>2 DEF TypeOK
    <3>4. QED
      BY <1>5, <3>1, <3>3
  <2>5. QED
    BY <2>2, <2>3, <2>4
<1>7. ASSUME NEW s \in Devices, NEW t \in Devices, Sync(s, t) PROVE ToldIn(d)
  <2>1. CASE t # d
    BY <1>2, <1>4, <1>7, <2>1 DEF Sync, Update, TypeOK
  <2>2. CASE t = d
    <3> DEFINE l == log[d] \union log[s]
    <3>1. log'[d] = l /\ phase'[d] = Handled(d, l)
      BY <1>2, <1>7, <2>2 DEF Sync, Update, TypeOK
    <3>2. QED
      BY <1>5, <3>1
  <2>3. QED
    BY <2>1, <2>2
<1>8. ASSUME NEW t \in Devices, Leave(t) PROVE ToldIn(d)
  BY <1>2, <1>4, <1>8 DEF Leave, TypeOK, Running
<1>9. CASE QuietStep
  <2>1. PICK t \in Devices :
          \/ AddKey(t) \/ UpdateDid(t) \/ FinishRevocation(t) \/ Notice(t) \/ Listen(t) \/ Reload(t)
          \/ \E k \in Devices : Revoke(t, k)
          \/ UNCHANGED <<didKeys, log, phase, marked>> /\ call' = [call EXCEPT ![t] = NoCall]
    BY <1>9 DEF QuietStep
  <2>2. log' = log
    BY <2>1 DEF AddKey, UpdateDid, FinishRevocation, Notice, Listen, Reload, Revoke
  <2>3. CASE t = d /\ AddKey(t)
    BY <1>2, <2>3 DEF AddKey, TypeOK, Running
  <2>4. CASE t = d /\ (FinishRevocation(t) \/ Notice(t))
    BY <1>2, <2>2, <2>4 DEF FinishRevocation, Notice, TypeOK, Running, OwnEntry
  <2>5. CASE t = d /\ (Listen(t) \/ Reload(t))
    <3>1. Has(log'[d], d)
      BY <2>2, <2>5 DEF Listen, Reload, OwnEntry
    <3>2. phase'[d] = Restored(d)
      BY <1>2, <2>5 DEF Listen, Reload, TypeOK
    <3>3. QED
      BY <2>2, <3>1, <3>2 DEF Restored, OwnRevoked
  <2>6. CASE phase'[d] = phase[d]
    BY <1>4, <2>2, <2>6
  <2>7. QED
    BY <1>2, <2>1, <2>3, <2>4, <2>5, <2>6
       DEF AddKey, UpdateDid, FinishRevocation, Notice, Listen, Reload, Revoke, TypeOK
<1>10. CASE UNCHANGED vars
  BY <1>4, <1>10 DEF vars
<1>11. QED
  BY <1>2, <1>6, <1>7, <1>8, <1>9, <1>10, Steps

\* A wallet whose device is listed as revoked knows, or has a timer to get to
\* know, however updates and revocations overlapped and processes ended
\* (devices.js:125, identity/index.js:35).
THEOREM RevocationTold == Spec => []RevocationIsTold
<1>1. Spec => []ITold
  BY ToldInit, ToldStep, PTL DEF Spec
<1>2. ITold => RevocationIsTold
  BY DEF ITold
<1>3. QED
  BY <1>1, <1>2, PTL

-----------------------------------------------------------------------------
(* The causal past of the entries.                                         *)

\* Every log grows, but for that of a device that leaves.
LEMMA LogsGrow ==
    ASSUME TypeOK, CallersOK, [Next]_vars, NEW d \in Devices, ~ \E t \in Devices : Leave(t)
    PROVE  log[d] \subseteq log'[d]
<1>1. CASE WriteStep
  BY <1>1 DEF WriteStep, Created, Updated, WroteRevoked, Wrote, TypeOK
<1>2. CASE \E s, t \in Devices : Sync(s, t)
  BY <1>2 DEF Sync, Update, TypeOK
<1>3. QuietStep \/ UNCHANGED vars => UNCHANGED log
  BY DEF QuietStep, vars, AddKey, UpdateDid, FinishRevocation, Notice, Listen, Reload, Revoke
<1>4. QED
  BY <1>1, <1>2, <1>3, Steps

\* Until a device is gone it has all that it wrote.
KeptBy(e) == e.by \in Devices /\ (phase[e.by] # "gone" => e \in log[e.by])

WritesKept == \A d \in Devices : \A e \in log[d] : KeptBy(e)

PastOK ==
    \A p \in past : /\ p[1] \in Entries /\ p[2] \in Entries
                    /\ p[2].time < p[1].time
                    /\ KeptBy(p[1]) /\ KeptBy(p[2])

\* Copies exchange whole logs: the past of an entry comes with it.
PastClosed == \A d \in Devices : \A e \in log[d] : \A x : <<e, x>> \in past => x \in log[d]

OneStamp ==
    \A c, d \in Devices : \A e \in log[c], f \in log[d] : e.time = f.time /\ e.by = f.by => e = f

\* RevocationSticks for the revocations that the writer of an entry knew of.
Justifies(l, u, e, r) ==
    /\ u \in l /\ u.key = e.key /\ ~ u.revoked
    /\ <<e, u>> \in past /\ <<u, r>> \notin past /\ <<r, u>> \notin past

KnownSticks ==
    \A d \in Devices : \A r, e \in log[d] :
       r.revoked /\ ~ e.revoked /\ r.key = e.key /\ <<e, r>> \in past =>
          \E u \in log[d] : Justifies(log[d], u, e, r)

HistoryOK == WritesKept /\ PastOK /\ PastClosed /\ OneStamp /\ KnownSticks

ISticks == IKeys /\ HistoryOK

PastStep == past' = past \union UNION {Written(d) \X log[d] : d \in Devices}

\* A new entry is in no log and in no past.
LEMMA WrittenFresh ==
    ASSUME TypeOK, WritesKept, PastOK, NEW w \in Devices, NEW n \in Entries, Wrote(w, n)
    PROVE  /\ \A d \in Devices : n \notin log[d]
           /\ \A p \in past : p[1] # n /\ p[2] # n
<1>1. n \notin log[w] /\ n.by = w /\ phase[w] # "gone" /\ n.time \in Int
  BY DEF Wrote, Entries
<1>2. ~ KeptBy(n)
  BY <1>1 DEF KeptBy
<1>3. QED
  BY <1>2 DEF WritesKept, PastOK

LEMMA WrittenPast ==
    ASSUME TypeOK, WritesKept, PastOK, PastStep, NEW w \in Devices, NEW n \in Entries, Wrote(w, n)
    PROVE  past' = past \union ({n} \X log[w])
<1>1. Written(w) = {n}
  BY WrittenFresh DEF Wrote, Written, TypeOK
<1>2. \A d \in Devices \ {w} : Written(d) = {}
  BY DEF Wrote, Written, TypeOK
<1>3. UNION {Written(d) \X log[d] : d \in Devices} = {n} \X log[w]
  <2> DEFINE all == UNION {Written(d) \X log[d] : d \in Devices}
  <2>1. ASSUME NEW p \in all PROVE p \in {n} \X log[w]
    <3>1. PICK d \in Devices : p \in Written(d) \X log[d]
      OBVIOUS
    <3>2. d = w
      BY <1>2, <3>1
    <3>3. QED
      BY <1>1, <3>1, <3>2
  <2>2. ASSUME NEW p \in {n} \X log[w] PROVE p \in all
    BY <1>1, <2>2
  <2>3. QED
    BY <2>1, <2>2
<1>4. QED
  BY <1>3 DEF PastStep

\* Only writes add to the past.
LEMMA OtherPast ==
    ASSUME TypeOK, WritesKept, PastStep,
           \/ \E s, t \in Devices : Sync(s, t)
           \/ \E t \in Devices : Leave(t)
           \/ UNCHANGED log
    PROVE  past' = past
<1>1. ASSUME NEW d \in Devices PROVE Written(d) = {}
  <2>1. ASSUME NEW s \in Devices, NEW t \in Devices, Sync(s, t) PROVE Written(d) = {}
    <3>1. CASE t # d
      BY <2>1, <3>1 DEF Sync, Update, Written, TypeOK
    <3>2. CASE t = d
      <4>1. phase[d] # "gone" /\ log'[d] = log[d] \union log[s]
        BY <2>1, <3>2 DEF Sync, Update, Replicating, TypeOK
      <4>2. \A e \in log[s] : e.by = d => e \in log[d]
        BY <4>1 DEF WritesKept, KeptBy
      <4>3. QED
        BY <4>1, <4>2 DEF Written
    <3>3. QED
      BY <3>1, <3>2
  <2>2. ASSUME NEW t \in Devices, Leave(t) PROVE Written(d) = {}
    BY <2>2 DEF Leave, Written, TypeOK
  <2>3. CASE UNCHANGED log
    BY <2>3 DEF Written
  <2>4. QED
    BY <2>1, <2>2, <2>3
<1>2. UNION {Written(d) \X log[d] : d \in Devices} = {}
  BY <1>1
<1>3. QED
  BY <1>2 DEF PastStep

LEMMA KeptStep ==
    ASSUME TypeOK, CallersOK, [Next]_vars, NEW e, KeptBy(e)
    PROVE  KeptBy(e)'
<1>1. e.by \in Devices
  BY DEF KeptBy
<1>2. phase'[e.by] # "gone" => phase[e.by] # "gone"
  BY <1>1, PhaseSteps
<1>3. ASSUME phase'[e.by] # "gone" PROVE log[e.by] \subseteq log'[e.by]
  <2>1. ASSUME NEW t \in Devices, Leave(t) PROVE log[e.by] \subseteq log'[e.by]
    BY <1>1, <1>3, <2>1 DEF Leave, TypeOK
  <2>2. QED
    BY <1>1, <2>1, LogsGrow
<1>4. QED
  BY <1>1, <1>2, <1>3 DEF KeptBy

\* Every entry of a log was in one, or is written in this step.
LEMMA EntryOrigin ==
    ASSUME TypeOK, CallersOK, [Next]_vars, NEW d \in Devices, NEW e \in log'[d]
    PROVE  \/ \E c \in Devices : e \in log[c]
           \/ d \in Devices /\ e \in Entries /\ Wrote(d, e)
<1>1. CASE WriteStep
  <2>1. PICK w \in Devices, n \in Entries : Wrote(w, n)
    BY <1>1 DEF WriteStep, Created, Updated, WroteRevoked
  <2>2. e \in log[d] \/ (d = w /\ e = n)
    BY <2>1 DEF Wrote, TypeOK
  <2>3. QED
    BY <2>1, <2>2
<1>2. CASE \E s, t \in Devices : Sync(s, t)
  BY <1>2 DEF Sync, Update, TypeOK
<1>3. CASE \E t \in Devices : Leave(t)
  BY <1>3 DEF Leave, TypeOK
<1>4. QuietStep \/ UNCHANGED vars => UNCHANGED log
  BY DEF QuietStep, vars, AddKey, UpdateDid, FinishRevocation, Notice, Listen, Reload, Revoke
<1>5. QED
  BY <1>1, <1>2, <1>3, <1>4, Steps

LEMMA WritesKeptStep == TypeOK /\ CallersOK /\ WritesKept /\ [Next]_vars => WritesKept'
<1> SUFFICES ASSUME TypeOK, CallersOK, WritesKept, [Next]_vars, NEW d \in Devices, NEW e \in log'[d]
             PROVE  KeptBy(e)'
  BY DEF WritesKept
<1>1. CASE \E c \in Devices : e \in log[c]
  BY <1>1, KeptStep DEF WritesKept
<1>2. CASE Wrote(d, e)
  BY <1>2 DEF Wrote, KeptBy, TypeOK
<1>3. QED
  BY <1>1, <1>2, EntryOrigin

LEMMA OneStampStep == TypeOK /\ CallersOK /\ WritesKept /\ OneStamp /\ [Next]_vars => OneStamp'
<1> SUFFICES ASSUME TypeOK, CallersOK, WritesKept, OneStamp, [Next]_vars,
                    NEW c \in Devices, NEW d \in Devices, NEW e \in log'[c], NEW f \in log'[d],
                    e.time = f.time, e.by = f.by
             PROVE  e = f
  BY DEF OneStamp
<1>1. ASSUME NEW w \in Devices, NEW n \in Entries, Wrote(w, n),
             NEW b \in Devices, NEW x \in log[b], x.by = n.by
      PROVE  x.time # n.time
  <2>1. x \in log[w]
    BY <1>1 DEF Wrote, WritesKept, KeptBy
  <2>2. x \in Entries /\ x.time < n.time
    BY <1>1, <2>1 DEF Wrote, TypeOK
  <2>3. QED
    BY <2>2 DEF Entries
<1>2. CASE (\E b \in Devices : e \in log[b]) /\ (\E b \in Devices : f \in log[b])
  BY <1>2 DEF OneStamp
<1>3. CASE (\E b \in Devices : e \in log[b]) /\ f \in Entries /\ Wrote(d, f)
  BY <1>1, <1>3
<1>4. CASE (\E b \in Devices : f \in log[b]) /\ e \in Entries /\ Wrote(c, e)
  BY <1>1, <1>4
<1>5. CASE e \in Entries /\ f \in Entries /\ Wrote(c, e) /\ Wrote(d, f) /\ ~ \E b \in Devices : f \in log[b]
  <2>1. c = d
    BY <1>5 DEF Wrote
  <2>2. f \in log[c] \union {e}
    BY <1>5, <2>1 DEF Wrote, TypeOK
  <2>3. QED
    BY <1>5, <2>2
<1>6. QED
  BY <1>2, <1>3, <1>4, <1>5, EntryOrigin

\* A step that is no write leaves the past alone.
LEMMA NoWrite ==
    ASSUME TypeOK, CallersOK, WritesKept, [Next]_vars, PastStep, ~ WriteStep
    PROVE  past' = past
<1>1. QuietStep \/ UNCHANGED vars => UNCHANGED log
  BY DEF QuietStep, vars, AddKey, UpdateDid, FinishRevocation, Notice, Listen, Reload, Revoke
<1>2. QED
  BY <1>1, OtherPast, Steps

LEMMA WriteOf == WriteStep => \E w \in Devices, n \in Entries :
                                /\ Wrote(w, n)
                                /\ \/ Created(w, n)
                                   \/ \E e \in log[w] : Updated(w, e, n)
                                   \/ WroteRevoked(w, n)
BY DEF WriteStep, Created, Updated, WroteRevoked

LEMMA PastOKStep ==
    TypeOK /\ CallersOK /\ WritesKept /\ PastOK /\ [Next]_vars /\ PastStep => PastOK'
<1> SUFFICES ASSUME TypeOK, CallersOK, WritesKept, PastOK, [Next]_vars, PastStep, NEW p \in past'
             PROVE  /\ p[1] \in Entries /\ p[2] \in Entries /\ p[2].time < p[1].time
                    /\ KeptBy(p[1])' /\ KeptBy(p[2])'
  BY DEF PastOK
<1>1. CASE p \in past
  BY <1>1, KeptStep DEF PastOK
<1>2. CASE WriteStep /\ p \notin past
  <2>1. PICK w \in Devices, n \in Entries : Wrote(w, n)
    BY <1>2, WriteOf
  <2>2. PICK x \in log[w] : p = <<n, x>>
    BY <1>2, <2>1, WrittenPast
  <2>3. x \in Entries /\ x.time < n.time
    BY <2>1 DEF Wrote, TypeOK
  <2>4. KeptBy(x)'
    BY KeptStep DEF WritesKept
  <2>5. KeptBy(n)'
    <3>1. n \in log'[w]
      BY <2>1 DEF Wrote, TypeOK
    <3>2. WritesKept'
      BY WritesKeptStep
    <3>3. QED
      BY <3>1, <3>2 DEF WritesKept
  <2>6. QED
    BY <2>2, <2>3, <2>4, <2>5
<1>3. QED
  BY <1>1, <1>2, NoWrite

LEMMA PastClosedStep ==
    TypeOK /\ CallersOK /\ WritesKept /\ PastOK /\ PastClosed /\ [Next]_vars /\ PastStep => PastClosed'
<1> SUFFICES ASSUME TypeOK, CallersOK, WritesKept, PastOK, PastClosed, [Next]_vars, PastStep,
                    NEW d \in Devices, NEW e \in log'[d], NEW x, <<e, x>> \in past'
             PROVE  x \in log'[d]
  BY DEF PastClosed
<1>1. CASE WriteStep
  <2>1. PICK w \in Devices, n \in Entries : Wrote(w, n)
    BY <1>1, WriteOf
  <2>2. past' = past \union ({n} \X log[w])
    BY <2>1, WrittenPast
  <2>3. CASE e = n
    <3>1. d = w
      BY <2>1, <2>3, WrittenFresh DEF Wrote, TypeOK
    <3>2. <<e, x>> \notin past
      BY <2>1, <2>3, WrittenFresh
    <3>3. x \in log[w]
      BY <2>2, <3>2
    <3>4. QED
      BY <2>1, <3>1, <3>3 DEF Wrote, TypeOK
  <2>4. CASE e # n
    <3>1. e \in log[d] /\ <<e, x>> \in past
      BY <2>1, <2>2, <2>4 DEF Wrote, TypeOK
    <3>2. QED
      BY <2>1, <3>1 DEF PastClosed, Wrote, TypeOK
  <2>5. QED
    BY <2>3, <2>4
<1>2. CASE ~ WriteStep
  <2>1. <<e, x>> \in past
    BY <1>2, NoWrite
  <2>2. ASSUME NEW s \in Devices, NEW t \in Devices, Sync(s, t) PROVE x \in log'[d]
    BY <2>1, <2>2 DEF Sync, Update, TypeOK, PastClosed
  <2>3. ASSUME NEW t \in Devices, Leave(t) PROVE x \in log'[d]
    BY <2>1, <2>3 DEF Leave, TypeOK, PastClosed
  <2>4. QuietStep \/ UNCHANGED vars => UNCHANGED log
    BY DEF QuietStep, vars, AddKey, UpdateDid, FinishRevocation, Notice, Listen, Reload, Revoke
  <2>5. CASE UNCHANGED log
    BY <2>1, <2>5 DEF PastClosed
  <2>6. QED
    BY <1>2, <2>2, <2>3, <2>4, <2>5, Steps
<1>3. QED
  BY <1>1, <1>2

\* Of two entries with one key, the one the store shows is the later.
LEMMA ShownIsLater ==
    ASSUME TypeOK, OneStamp, NEW d \in Devices, NEW e \in log[d], NEW r \in log[d],
           Shows(log[d], e), r.key = e.key, r # e
    PROVE  Earlier(r, e)
<1>1. ~ Earlier(e, r)
  BY DEF Shows
<1>2. e.time # r.time \/ e.by # r.by
  BY DEF OneStamp
<1>3. e \in Entries /\ r \in Entries
  BY DEF TypeOK
<1>4. e.time \in Int /\ r.time \in Int /\ e.by \in Int /\ r.by \in Int
  BY <1>3, DevicesAssumption DEF Entries
<1>5. QED
  BY <1>1, <1>2, <1>4 DEF Earlier

LEMMA EarlierNotInPast ==
    ASSUME PastOK, NEW r, NEW e, Earlier(r, e) PROVE <<r, e>> \notin past
<1> SUFFICES ASSUME <<r, e>> \in past PROVE FALSE
  OBVIOUS
<1>1. r \in Entries /\ e \in Entries /\ e.time < r.time
  BY DEF PastOK
<1>2. r.time \in Int /\ e.time \in Int
  BY <1>1 DEF Entries
<1>3. QED
  BY <1>1, <1>2 DEF Earlier

\* An update of a shown, active device has what justifies it.
LEMMA UpdateJustified ==
    ASSUME IKeys, HistoryOK, PastStep, NEW w \in Devices, NEW n \in Entries, Wrote(w, n),
           NEW e \in log[w], Updated(w, e, n), NEW r \in log[w],
           r.revoked, ~ n.revoked, r.key = n.key
    PROVE  \E u \in log'[w] : Justifies(log[w], u, n, r)'
<1> USE DEF IKeys, IType, HistoryOK
<1>1. past' = past \union ({n} \X log[w])
  BY WrittenPast
<1>2. n \notin log[w] /\ \A p \in past : p[1] # n /\ p[2] # n
  BY WrittenFresh
<1>3. log'[w] = log[w] \union {n}
  BY DEF Wrote, TypeOK
<1>4. e.key = n.key /\ ~ e.revoked /\ Shows(log[w], e)
  BY DEF Updated
<1>5. ASSUME NEW u \in log[w], u.key = n.key, ~ u.revoked, <<u, r>> \notin past, <<r, u>> \notin past
      PROVE  Justifies(log[w], u, n, r)'
  BY <1>1, <1>2, <1>3, <1>5 DEF Justifies
<1>6. CASE <<e, r>> \in past
  <2>1. PICK u \in log[w] : Justifies(log[w], u, e, r)
    BY <1>4, <1>6 DEF KnownSticks
  <2>2. QED
    BY <1>3, <1>4, <1>5, <2>1 DEF Justifies
<1>7. CASE <<e, r>> \notin past
  <2>1. r # e /\ r.key = e.key
    BY <1>4
  <2>2. Earlier(r, e)
    BY <1>4, <2>1, ShownIsLater
  <2>3. <<r, e>> \notin past
    BY <2>2, EarlierNotInPast
  <2>4. QED
    BY <1>3, <1>4, <1>5, <1>7, <2>3
<1>8. QED
  BY <1>6, <1>7

LEMMA KnownSticksStep == IKeys /\ HistoryOK /\ [Next]_vars /\ PastStep => KnownSticks'
<1> SUFFICES ASSUME IKeys, HistoryOK, [Next]_vars, PastStep, NEW d \in Devices,
                    NEW r \in log'[d], NEW e \in log'[d],
                    r.revoked, ~ e.revoked, r.key = e.key, <<e, r>> \in past'
             PROVE  \E u \in log'[d] : Justifies(log[d], u, e, r)'
  BY DEF KnownSticks, Justifies
<1> USE DEF IKeys, IType, HistoryOK
<1>1. CASE WriteStep
  <2>1. PICK w \in Devices, n \in Entries :
          /\ Wrote(w, n)
          /\ \/ Created(w, n)
             \/ \E f \in log[w] : Updated(w, f, n)
             \/ WroteRevoked(w, n)
    BY <1>1, WriteOf
  <2>2. past' = past \union ({n} \X log[w])
    BY <2>1, WrittenPast
  <2>3. /\ \A c \in Devices : n \notin log[c]
        /\ \A p \in past : p[1] # n /\ p[2] # n
    BY <2>1, WrittenFresh
  <2>4. \A c \in Devices : log'[c] = IF c = w THEN log[c] \union {n} ELSE log[c]
    BY <2>1 DEF Wrote, TypeOK
  <2>5. CASE e = n
    <3>1. d = w
      BY <2>3, <2>4, <2>5
    <3>2. r \in log[w]
      BY <2>4, <2>5, <3>1
    <3>3. ~ WroteRevoked(w, n)
      BY <2>5 DEF WroteRevoked
    <3>4. ~ Created(w, n)
      BY <2>5, <3>2 DEF Created, EntriesOK, Joined
    <3>5. PICK f \in log[w] : Updated(w, f, n)
      BY <2>1, <3>3, <3>4
    <3>6. QED
      BY <2>1, <2>5, <3>1, <3>2, <3>5, UpdateJustified
  <2>6. CASE e # n
    <3>1. e \in log[d] /\ <<e, r>> \in past
      BY <2>2, <2>4, <2>6
    <3>2. r \in log[d]
      BY <3>1 DEF PastClosed
    <3>3. PICK u \in log[d] : Justifies(log[d], u, e, r)
      BY <3>1, <3>2 DEF KnownSticks
    <3>4. u # n /\ r # n
      BY <2>3, <3>2
    <3>5. u \in log'[d]
      BY <2>4
    <3>6. QED
      BY <2>2, <3>3, <3>4, <3>5 DEF Justifies
  <2>7. QED
    BY <2>5, <2>6
<1>2. CASE ~ WriteStep
  <2>1. past' = past
    BY <1>2, NoWrite
  <2>2. ASSUME NEW c \in Devices, e \in log[c], log[c] \subseteq log'[d]
        PROVE  \E u \in log'[d] : Justifies(log[d], u, e, r)'
    <3>1. r \in log[c]
      BY <2>1, <2>2 DEF PastClosed
    <3>2. PICK u \in log[c] : Justifies(log[c], u, e, r)
      BY <2>1, <2>2, <3>1 DEF KnownSticks
    <3>3. u \in log'[d]
      BY <2>2
    <3>4. QED
      BY <2>1, <3>2, <3>3 DEF Justifies
  <2>3. ASSUME NEW s \in Devices, NEW t \in Devices, Sync(s, t)
        PROVE  \E c \in Devices : e \in log[c] /\ log[c] \subseteq log'[d]
    BY <2>3 DEF Sync, Update, TypeOK
  <2>4. ASSUME NEW t \in Devices, Leave(t)
        PROVE  \E c \in Devices : e \in log[c] /\ log[c] \subseteq log'[d]
    BY <2>4 DEF Leave, TypeOK
  <2>5. QuietStep \/ UNCHANGED vars => UNCHANGED log
    BY DEF QuietStep, vars, AddKey, UpdateDid, FinishRevocation, Notice, Listen, Reload, Revoke
  <2>6. CASE UNCHANGED log
    BY <2>2, <2>6
  <2>7. QED
    BY <1>2, <2>2, <2>3, <2>4, <2>5, <2>6, Steps
<1>3. QED
  BY <1>1, <1>2

LEMMA SticksInit == InitH => ISticks
BY KeysInit DEF InitH, Init, ISticks, HistoryOK, WritesKept, PastOK, PastClosed, OneStamp, KnownSticks

LEMMA SticksStep == ISticks /\ [NextH]_historyVars => ISticks'
<1> SUFFICES ASSUME ISticks, [NextH]_historyVars PROVE ISticks'
  OBVIOUS
<1>1. [Next]_vars
  BY DEF NextH, historyVars, vars
<1>2. PastStep
  <2>1. CASE NextH
    BY <2>1 DEF NextH, PastStep
  <2>2. CASE UNCHANGED historyVars
    <3>1. \A d \in Devices : Written(d) = {}
      BY <2>2 DEF historyVars, vars, Written
    <3>2. UNION {Written(d) \X log[d] : d \in Devices} = {}
      BY <3>1
    <3>3. QED
      BY <2>2, <3>2 DEF historyVars, PastStep
  <2>3. QED
    BY <2>1, <2>2
<1>3. QED
  BY <1>1, <1>2, KeysStep, WritesKeptStep, PastOKStep, PastClosedStep, OneStampStep, KnownSticksStep
     DEF ISticks, IKeys, IType, HistoryOK

\* An active entry hides a revoked one only when it is, or goes back to, an
\* update made without knowledge of the revocation: no wallet undoes a
\* revocation it knows of (devices.js:72 and :91).
THEOREM RevocationsStick == SpecH => []RevocationSticks
<1>1. SpecH => []ISticks
  BY SticksInit, SticksStep, PTL DEF SpecH
<1>2. ISticks => RevocationSticks
  <2> SUFFICES ASSUME ISticks, NEW d \in Devices, NEW r \in log[d], NEW e \in log[d],
                      r.revoked, ~ e.revoked, r.key = e.key, Earlier(r, e)
               PROVE  \E u \in log[d] : /\ u.key = e.key /\ ~ u.revoked
                                        /\ u = e \/ <<e, u>> \in past
                                        /\ <<u, r>> \notin past /\ <<r, u>> \notin past
    BY DEF RevocationSticks
  <2>1. CASE <<e, r>> \in past
    BY <2>1 DEF ISticks, HistoryOK, KnownSticks, Justifies
  <2>2. CASE <<e, r>> \notin past
    BY <2>2, EarlierNotInPast DEF ISticks, HistoryOK
  <2>3. QED
    BY <2>1, <2>2
<1>3. QED
  BY <1>1, <1>2, PTL

-----------------------------------------------------------------------------
(* The devices as their owner sees them.                                   *)

\* A wallet about to be told has no key, and the mark is that of a wallet told.
NoticeOK ==
    /\ \A d \in Devices : phase[d] = "noticing" => d \notin didKeys
    /\ \A d \in marked : phase[d] \in {"revoked", "stopped"}

IRegister == IKeys /\ NoticeOK

\* An update of the own log tells the wallet only what is true.
LEMMA HandledTrue ==
    ASSUME IKeys, IKeys', NEW d \in Devices, NEW l, log'[d] = l, log[d] \subseteq l,
           Handled(d, l) # phase[d]
    PROVE  /\ phase[d] \in {"listening", "noticing"} /\ Handled(d, l) = "revoked"
           /\ d \notin didKeys'
<1>1. OwnRevoked(l, d) /\ ~OwnRevoked(log[d], d)
      /\ phase[d] \in {"listening", "noticing"} /\ Handled(d, l) = "revoked"
  BY DEF Handled
<1>2. CASE Revoked(l, d)
  BY <1>1, <1>2 DEF Revoked, IKeys, EntriesOK
<1>3. CASE ~Has(l, d)
  <2>1. PICK e \in log[d] : e.key = d
    BY <1>1 DEF OwnRevoked, Has
  <2>2. TypeOK /\ CallersOK
    BY DEF IKeys, IType
  <2>3. QED
    BY <1>1, <1>3, <2>1 DEF Has
<1>4. QED
  BY <1>1, <1>2, <1>3 DEF OwnRevoked

Standings == [d \in Devices |-> Standing(d)]

LEMMA StandingSet ==
    ASSUME phase \in [Devices -> Phases], NEW d \in Devices, NEW p,
           phase' = [phase EXCEPT ![d] = p], \A c \in Devices \ {d} : c \in marked <=> c \in marked'
    PROVE  Standings' = [Standings EXCEPT ![d] = Standing(d)']
BY DEF Standings, Standing, Told

\* What follows an update of the own log.
LEMMA HandlingTells ==
    ASSUME IRegister, IKeys', NEW d \in Devices, NEW l, log'[d] = l, log[d] \subseteq l,
           phase' = [phase EXCEPT ![d] = Handled(d, l)], UNCHANGED <<didKeys, marked>>
    PROVE  NoticeOK' /\ (Register!Next \/ UNCHANGED <<didKeys, Standings>>)
<1>1. phase \in [Devices -> Phases] /\ NoticeOK
  BY DEF IRegister, IKeys, IType, TypeOK
<1>2. CASE Handled(d, l) = phase[d]
  <2>1. phase' = phase
    BY <1>1, <1>2
  <2>2. QED
    BY <1>1, <2>1 DEF NoticeOK, Standings, Standing, Told
<1>3. CASE Handled(d, l) # phase[d]
  <2>1. /\ phase[d] \in {"listening", "noticing"} /\ phase' = [phase EXCEPT ![d] = "revoked"]
        /\ d \notin didKeys'
    BY <1>3, HandledTrue DEF IRegister
  <2>2. d \notin marked
    BY <1>1, <2>1 DEF NoticeOK
  <2>3. NoticeOK'
    BY <1>1, <2>1 DEF NoticeOK
  <2>4. Standing(d) = "joined" /\ Standing(d)' = "told"
    BY <1>1, <2>1, <2>2 DEF Standing, Told
  <2>5. Standings' = [Standings EXCEPT ![d] = "told"] /\ Standings[d] = "joined"
    BY <1>1, <2>1, <2>4, StandingSet DEF Standings
  <2>6. QED
    BY <2>1, <2>3, <2>5 DEF Standings, Register!Next, Register!Tell, Register!Becomes
<1>4. QED
  BY <1>2, <1>3

\* Each step of the wallets is a step of the register, or changes nothing in it.
LEMMA RegisterStep ==
    ASSUME IRegister, [Next]_vars
    PROVE  NoticeOK' /\ (Register!Next \/ UNCHANGED <<didKeys, Standings>>)
<1> DEFINE Goal == NoticeOK' /\ (Register!Next \/ UNCHANGED <<didKeys, Standings>>)
<1>1. IKeys' /\ TypeOK /\ CallersOK /\ NoticeOK
  BY KeysStep DEF IRegister, IKeys, IType
<1>2. CASE WriteStep
  <2>1. PICK d \in Devices, n \in Entries :
          /\ Wrote(d, n)
          /\ \/ Created(d, n)
             \/ \E e \in log[d] : Updated(d, e, n)
             \/ WroteRevoked(d, n)
    BY <1>2, WriteOf
  <2>2. CASE Created(d, n)
    BY <1>1, <2>2 DEF Created, NoticeOK, Standings, Standing, Told, TypeOK
  <2>3. CASE ~Created(d, n)
    <3> DEFINE l == log[d] \union {n}
    <3>1. log'[d] = l /\ log[d] \subseteq l
      BY <1>1, <2>1 DEF Wrote, TypeOK
    <3>2. phase' = [phase EXCEPT ![d] = Handled(d, l)] /\ UNCHANGED <<didKeys, marked>>
      BY <2>1, <2>3 DEF Updated, WroteRevoked
    <3> HIDE DEF l
    <3>3. QED
      BY <1>1, <3>1, <3>2, HandlingTells
  <2>4. QED
    BY <2>2, <2>3
<1>3. ASSUME NEW s \in Devices, NEW d \in Devices, Sync(s, d) PROVE Goal
  <2> DEFINE l == log[d] \union log[s]
  <2>1. /\ log'[d] = l /\ log[d] \subseteq l
        /\ phase' = [phase EXCEPT ![d] = Handled(d, l)] /\ UNCHANGED <<didKeys, marked>>
    BY <1>1, <1>3 DEF Sync, Update, TypeOK
  <2> HIDE DEF l
  <2>2. QED
    BY <1>1, <2>1, HandlingTells
<1>4. ASSUME NEW d \in Devices, Leave(d) PROVE Goal
  <2>1. NoticeOK'
    BY <1>1, <1>4 DEF Leave, NoticeOK, TypeOK
  <2>2. Standings' = [Standings EXCEPT ![d] = Standing(d)'] /\ Standing(d)' = "gone"
    <3>1. Standing(d)' = "gone"
      BY <1>1, <1>4 DEF Leave, Standing, Told, TypeOK
    <3>2. QED
      BY <1>1, <1>4, <3>1, StandingSet DEF Leave, TypeOK
  <2>3. Standings[d] \notin {"absent", "gone"}
    BY <1>4 DEF Leave, Standings, Standing, Told, Running
  <2>4. didKeys' \in {didKeys, didKeys \ {d}}
    BY <1>4 DEF Leave
  <2>5. QED
    BY <2>1, <2>2, <2>3, <2>4 DEF Standings, Register!Next, Register!Leave, Register!Becomes
<1>5. CASE QuietStep
  <2>1. PICK d \in Devices :
          \/ AddKey(d) \/ UpdateDid(d) \/ FinishRevocation(d) \/ Notice(d) \/ Listen(d) \/ Reload(d)
          \/ \E k \in Devices : Revoke(d, k)
          \/ UNCHANGED <<didKeys, log, phase, marked>> /\ call' = [call EXCEPT ![d] = NoCall]
    BY <1>5 DEF QuietStep
  <2>2. CASE AddKey(d)
    <3>1. d \notin marked /\ NoticeOK'
      BY <1>1, <2>2 DEF AddKey, NoticeOK, TypeOK
    <3>2. Standing(d)' = "joined" /\ Standings[d] = "absent"
      BY <1>1, <2>2 DEF AddKey, Standings, Standing, Told, TypeOK
    <3>3. Standings' = [Standings EXCEPT ![d] = "joined"]
      BY <1>1, <2>2, <3>2, StandingSet DEF AddKey, TypeOK
    <3>4. QED
      BY <2>2, <3>1, <3>2, <3>3
         DEF AddKey, Standings, Register!Next, Register!Join, Register!Becomes
  <2>3. CASE UpdateDid(d)
    <3>1. PICK k \in Devices : k = call[d].key
      BY <1>1, <2>3, CallShape DEF UpdateDid, Snapshots
    <3>2. (didKeys' = didKeys \/ didKeys' = didKeys \ {k}) /\ UNCHANGED <<phase, marked>>
      BY <2>3, <3>1 DEF UpdateDid
    <3>3. NoticeOK' /\ Standings' = Standings
      BY <1>1, <3>2 DEF NoticeOK, Standings, Standing, Told
    <3>4. QED
      BY <3>2, <3>3 DEF Standings, Register!Next, Register!Withdraw
  <2>4. CASE FinishRevocation(d)
    <3>1. /\ NoticeOK' /\ Told(d) /\ Told(d)' /\ marked' \in {marked, marked \union {d}}
          /\ UNCHANGED didKeys
      BY <1>1, <2>4 DEF FinishRevocation, NoticeOK, Told, TypeOK
    <3>2. Standings' = [Standings EXCEPT ![d] = Standing(d)']
      BY <1>1, <2>4, StandingSet DEF FinishRevocation, TypeOK
    <3>3. CASE Standing(d)' = Standing(d)
      BY <3>1, <3>2, <3>3 DEF Standings
    <3>4. CASE Standing(d)' # Standing(d)
      <4>1. Standing(d) = "told" /\ Standing(d)' = "noted"
        BY <3>1, <3>4 DEF Standing
      <4>2. QED
        BY <3>1, <3>2, <4>1 DEF Standings, Register!Next, Register!Note, Register!Becomes
    <3>5. QED
      BY <3>3, <3>4
  <2>5. CASE Notice(d)
    <3>1. NoticeOK' /\ d \notin didKeys /\ UNCHANGED didKeys
      BY <1>1, <2>5 DEF Notice, NoticeOK, TypeOK
    <3>2. Standing(d) = "joined" /\ Standing(d)' = "told"
      BY <1>1, <2>5 DEF Notice, NoticeOK, Standing, Told, TypeOK
    <3>3. Standings' = [Standings EXCEPT ![d] = "told"] /\ Standings[d] = "joined"
      BY <1>1, <2>5, <3>2, StandingSet DEF Notice, Standings, TypeOK
    <3>4. QED
      BY <3>1, <3>3 DEF Standings, Register!Next, Register!Tell, Register!Becomes
  <2>6. CASE Listen(d) \/ Reload(d)
    <3>1. phase' = [phase EXCEPT ![d] = Restored(d)] /\ UNCHANGED <<didKeys, marked>>
      BY <2>6 DEF Listen, Reload
    <3>2. Restored(d) = "noticing" => d \notin didKeys
      BY <1>1 DEF Restored, Revoked, IRegister, IKeys, EntriesOK
    <3>3. d \in marked <=> Restored(d) = "stopped"
      BY DEF Restored
    <3>4. NoticeOK'
      BY <1>1, <3>1, <3>2, <3>3 DEF NoticeOK, TypeOK
    <3>5. Standings' = [Standings EXCEPT ![d] = Standing(d)']
      BY <1>1, <3>1, StandingSet DEF TypeOK
    <3>6. Standing(d)' = IF d \in marked THEN "noted" ELSE "joined"
      BY <1>1, <3>1, <3>3, Restores DEF Standing, Told, TypeOK
    <3>7. Standing(d) \in {"joined", "told", "noted"} /\ (Standing(d) = "noted" <=> d \in marked)
      BY <1>1, <2>6 DEF Listen, Reload, NoticeOK, Standing, Told, Running, TypeOK
    <3>8. CASE Standing(d) = "told"
      BY <3>1, <3>4, <3>5, <3>6, <3>7, <3>8
         DEF Standings, Register!Next, Register!Forget, Register!Becomes
    <3>9. CASE Standing(d) # "told"
      BY <3>1, <3>4, <3>5, <3>6, <3>7, <3>9 DEF Standings
    <3>10. QED
      BY <3>8, <3>9
  <2>7. CASE UNCHANGED <<didKeys, phase, marked>>
    BY <1>1, <2>7 DEF NoticeOK, Standings, Standing, Told
  <2>8. QED
    BY <2>1, <2>2, <2>3, <2>4, <2>5, <2>6, <2>7 DEF Revoke
<1>6. CASE UNCHANGED vars
  BY <1>1, <1>6 DEF vars, NoticeOK, Standings, Standing, Told
<1>7. QED
  BY <1>1, <1>2, <1>3, <1>4, <1>5, <1>6, Steps

\* The wallets implement Membership: a device that takes itself for revoked has
\* lost its key in the DID document before and for good, however the entries of
\* devices are written, replicated and lost, and it stays so once the mark is
\* stored (devices.js:55-77, 125-139, identities/identity/index.js:37-39, 97-116).
THEOREM ImplementsMembership == Spec => MembershipSpec
<1>1. Init => IRegister /\ Register!Init
  BY KeysInit DEF Init, IRegister, NoticeOK, Standing, Told, Register!Init
<1>2. IRegister /\ [Next]_vars => IRegister' /\ [Register!Next]_(Register!vars)
  <2>1. UNCHANGED <<didKeys, Standings>> => UNCHANGED Register!vars
    BY DEF Standings, Register!vars
  <2>2. QED
    BY <2>1, RegisterStep, KeysStep DEF IRegister
<1>3. QED
  BY <1>1, <1>2, PTL DEF Spec, MembershipSpec, Register!Spec
=============================================================================
