-------------------------- MODULE ProfileStoresProofs --------------------------
(***************************************************************************)
(* Proofs about ProfileStores, for any instances, stores and calls, with   *)
(* every rejection and overlap: whatever peeks, imports, removals and      *)
(* timers do to each other, the caches hand out nothing that is gone.      *)
(***************************************************************************)
EXTENDS ProfileStores, TLAPS

\* A store in the cache of an instance is a store of that instance.
OwnerOK == \A i \in Instances : profile[i] # None => owner[profile[i]] = i

\* openStore() gives nobody a store whose drop has ended, and getOrbitDb() gives
\* nobody an instance whose disconnection has: the wrapped close() and
\* disconnect() empty the caches, whoever calls them and however they reject.
CacheIsFresh ==
    /\ \A i \in Instances : profile[i] # None => i \in connected /\ profile[i] \notin dropped
    /\ cached # None => cached \in connected

Places == {"idle", "forget", "start", "create", "describe", "open", "opening",
           "opened", "wait", "others", "apps", "disconnect"}

Tuple == [op : {"none", "peek", "import", "undo", "remove"}, pc : Places,
          instance : Instances \union {None}, store : Stores \union {None}]

\* What a call has got hold of by the place it is at.
Holds(k) ==
    /\ k.pc \in {"describe", "open", "opening", "opened", "wait", "others", "apps", "disconnect"}
          => k.instance \in Instances
    /\ k.pc \in {"opened", "wait", "others", "apps", "disconnect"} => k.store \in Stores

CallOK == \A c \in Calls : call[c] \in Tuple /\ Holds(call[c])

ICache == TypeOK /\ OwnerOK /\ CacheIsFresh /\ CallOK

-----------------------------------------------------------------------------
(* The calls.                                                              *)

LEMMA CallsOK ==
    ASSUME TypeOK, CallOK, NEW c \in Calls, NEW k \in Tuple, Holds(k),
           call' = [call EXCEPT ![c] = k]
    PROVE  call' \in [Calls -> Tuple] /\ CallOK'
<1>1. call' \in [Calls -> Tuple]
  BY DEF TypeOK, Tuple, Places
<1>2. \A d \in Calls : call'[d] = IF d = c THEN k ELSE call[d]
  BY DEF TypeOK
<1>. QED BY <1>1, <1>2 DEF CallOK

LEMMA EndsOK ==
    ASSUME TypeOK, CallOK, NEW c \in Calls, Ends(c) \/ Fails(c)
    PROVE  call' \in [Calls -> Tuple] /\ CallOK'
<1>. DEFINE undo == [NoCall EXCEPT !.op = "undo", !.pc = "forget"]
<1>1. NoCall \in Tuple /\ Holds(NoCall)
  BY DEF NoCall, Tuple, Places, Holds
<1>2. undo \in Tuple /\ Holds(undo)
  BY DEF NoCall, Tuple, Places, Holds
<1>3. call' = [call EXCEPT ![c] = NoCall] \/ call' = [call EXCEPT ![c] = undo]
  BY DEF Ends, Fails
<1>. HIDE DEF undo
<1>. QED BY <1>1, <1>2, <1>3, CallsOK

\* A call goes on to a place for which it holds on to enough.
LEMMA GotoOK ==
    ASSUME TypeOK, CallOK, NEW c \in Calls, NEW pc \in Places, Goto(c, pc),
           \/ pc \in {"start", "create"}
           \/ pc \in {"open", "opening"} /\ call[c].instance \in Instances
           \/ call[c].instance \in Instances /\ call[c].store \in Stores
    PROVE  call' \in [Calls -> Tuple] /\ CallOK'
<1>. DEFINE k == [call[c] EXCEPT !.pc = pc]
<1>1. call[c] \in Tuple
  BY DEF CallOK
<1>2. k \in Tuple /\ Holds(k)
  BY <1>1 DEF Tuple, Holds, Places
<1>3. call' = [call EXCEPT ![c] = k]
  BY DEF Goto
<1>. HIDE DEF k
<1>. QED BY <1>2, <1>3, CallsOK

LEMMA ObtainedOK ==
    ASSUME TypeOK, CallOK, NEW c \in Calls, NEW i \in Instances, Obtained(c, i)
    PROVE  call' \in [Calls -> Tuple] /\ CallOK'
<1>. DEFINE k == [call[c] EXCEPT !.pc = IF call[c].op = "import" THEN "describe" ELSE "open",
                                 !.instance = i]
<1>1. call[c] \in Tuple
  BY DEF CallOK
<1>2. k \in Tuple /\ Holds(k)
  BY <1>1 DEF Tuple, Holds, Places
<1>3. call' = [call EXCEPT ![c] = k]
  BY DEF Obtained
<1>. HIDE DEF k
<1>. QED BY <1>2, <1>3, CallsOK

LEMMA GotStoreOK ==
    ASSUME TypeOK, CallOK, NEW c \in Calls, NEW s \in Stores, call[c].instance \in Instances,
           call' = [call EXCEPT ![c].pc = "opened", ![c].store = s]
    PROVE  call' \in [Calls -> Tuple] /\ CallOK'
<1>. DEFINE k == [call[c] EXCEPT !.pc = "opened", !.store = s]
<1>1. call[c] \in Tuple
  BY DEF CallOK
<1>2. k \in Tuple /\ Holds(k)
  BY <1>1 DEF Tuple, Holds, Places
<1>3. call' = [call EXCEPT ![c] = k]
  OBVIOUS
<1>. HIDE DEF k
<1>. QED BY <1>2, <1>3, CallsOK

-----------------------------------------------------------------------------
(* The operations of OrbitDb.                                              *)

CacheOK == OrbitTypeOK /\ OwnerOK /\ CacheIsFresh

LEMMA CreatedOK ==
    ASSUME CacheOK, NEW i \in Instances, InstanceCreated(i)
    PROVE  CacheOK'
BY DEF CacheOK, InstanceCreated, OrbitTypeOK, OwnerOK, CacheIsFresh

LEMMA OpenedOK ==
    ASSUME CacheOK, NEW i \in Instances, NEW s \in Stores, Closed(s), StoreOpened(i, s)
    PROVE  CacheOK'
BY DEF CacheOK, Closed, StoreOpened, OrbitTypeOK, OwnerOK, CacheIsFresh

LEMMA ClosedOK ==
    ASSUME CacheOK, NEW s \in Stores \union {None}, StoreClosed(s), dropped' = dropped
    PROVE  CacheOK'
BY DEF CacheOK, StoreClosed, OrbitTypeOK, OwnerOK, CacheIsFresh

LEMMA DroppedOK ==
    ASSUME CacheOK, NEW s \in Stores, StoreDropped(s)
    PROVE  CacheOK'
<1>1. \A i \in Instances : profile'[i] # None => profile'[i] = profile[i] /\ profile[i] # s
  BY DEF CacheOK, StoreDropped, StoreClosed, OrbitTypeOK, OwnerOK
<1>. QED BY <1>1 DEF CacheOK, StoreDropped, StoreClosed, OrbitTypeOK, OwnerOK, CacheIsFresh

LEMMA NotDroppedOK ==
    ASSUME CacheOK, NEW s \in Stores, StoreNotDropped(s)
    PROVE  CacheOK'
<1>1. CASE StoreClosed(s)
  BY <1>1, ClosedOK DEF StoreNotDropped
<1>2. CASE UNCHANGED <<cached, connected, profile, others, owner>>
  BY <1>2 DEF StoreNotDropped, CacheOK, OrbitTypeOK, OwnerOK, CacheIsFresh
<1>. QED BY <1>1, <1>2 DEF StoreNotDropped

LEMMA DisconnectedOK ==
    ASSUME CacheOK, NEW i, Disconnected(i) \/ NotDisconnected(i)
    PROVE  CacheOK'
BY DEF CacheOK, Disconnected, NotDisconnected, StoresClosed, OrbitTypeOK, OwnerOK, CacheIsFresh

LEMMA SameOK ==
    ASSUME CacheOK, UNCHANGED <<cached, connected, profile, owner, dropped>>,
           others' \subseteq Instances
    PROVE  CacheOK'
BY DEF CacheOK, OrbitTypeOK, OwnerOK, CacheIsFresh

-----------------------------------------------------------------------------
LEMMA CacheInit == Init => ICache
<1>. SUFFICES ASSUME Init PROVE ICache
  OBVIOUS
<1>1. OrbitTypeOK
  BY DEF Init, OrbitInit, OrbitTypeOK
<1>2. NoIdentity \in [instance : Instances \union {None}, store : Stores \union {None}]
  BY DEF NoIdentity
<1>3. NoCall \in Tuple /\ Holds(NoCall)
  BY DEF NoCall, Tuple, Places, Holds
<1>4. CallOK /\ call \in [Calls -> Tuple]
  BY <1>3 DEF Init, CallOK
<1>5. TypeOK
  BY <1>1, <1>2, <1>4 DEF Init, TypeOK, Tuple, Places
<1>6. OwnerOK /\ CacheIsFresh
  BY DEF Init, OrbitInit, OwnerOK, CacheIsFresh
<1>. QED BY <1>4, <1>5, <1>6 DEF ICache

\* What else there is to a step that changes a call and not the caches, or not
\* the timers.
RestOK ==
    /\ registered \subseteq Stores /\ orphans \subseteq Stores
    /\ dropping \in [Stores -> {"none", "drop", "disconnect"}]
    /\ wallet \in [instance : Instances \union {None}, store : Stores \union {None}]
    /\ stored \in BOOLEAN

LEMMA Together ==
    ASSUME CacheOK', RestOK', call' \in [Calls -> Tuple], CallOK'
    PROVE  ICache'
BY DEF CacheOK, RestOK, ICache, TypeOK, Tuple, Places

LEMMA Apart == ICache => CacheOK /\ RestOK /\ TypeOK /\ CallOK
BY DEF CacheOK, RestOK, ICache, TypeOK

LEMMA SameCalls ==
    ASSUME TypeOK, CallOK, UNCHANGED call
    PROVE  call' \in [Calls -> Tuple] /\ CallOK'
BY DEF TypeOK, CallOK, Tuple, Places

LEMMA CacheNext == ICache /\ [Next]_vars => ICache'
<1>. SUFFICES ASSUME ICache, [Next]_vars PROVE ICache'
  OBVIOUS
<1>. USE Apart, Together
<1>1. ASSUME NEW c \in Calls, NEW op \in {"peek", "import", "remove"}, Start(c, op)
      PROVE  ICache'
  <2>. DEFINE k == [call[c] EXCEPT !.op = op, !.pc = IF op = "remove" THEN "forget" ELSE "start"]
  <2>1. k \in Tuple /\ Holds(k)
    BY <1>1 DEF Start, NoCall, Tuple, Places, Holds, CallOK
  <2>2. call' = [call EXCEPT ![c] = k]
    BY <1>1 DEF Start
  <2>3. call' \in [Calls -> Tuple] /\ CallOK'
    <3>. HIDE DEF k
    <3>. QED BY <2>1, <2>2, CallsOK
  <2>4. CacheOK' /\ RestOK'
    BY <1>1, SameOK DEF Start, orbitVars, timerVars, RestOK, CacheOK, OrbitTypeOK
  <2>. QED BY <2>3, <2>4
<1>2. ASSUME NEW c \in Calls, Forget(c)
      PROVE  ICache'
  <2>1. call' \in [Calls -> Tuple] /\ CallOK'
    BY <1>2, EndsOK, GotoOK DEF Forget, Removed, Places
  <2>2. CacheOK'
    BY <1>2, SameOK DEF Forget, orbitVars, CacheOK, OrbitTypeOK
  <2>3. wallet' \in {wallet, NoIdentity}
    BY <1>2 DEF Forget, Removed
  <2>4. stored' \in BOOLEAN
    BY <1>2, Zenon DEF Forget, RestOK
  <2>5. RestOK'
    BY <1>2, <2>3, <2>4 DEF Forget, NoIdentity, timerVars, RestOK
  <2>. QED BY <2>1, <2>2, <2>5
<1>3. ASSUME NEW c \in Calls, GetOrbitDb(c)
      PROVE  ICache'
  <2>1. call' \in [Calls -> Tuple] /\ CallOK'
    BY <1>3, EndsOK, GotoOK, ObtainedOK DEF GetOrbitDb, Places, CacheOK, OrbitTypeOK
  <2>2. CacheOK' /\ RestOK'
    BY <1>3, SameOK DEF GetOrbitDb, orbitVars, timerVars, RestOK, CacheOK, OrbitTypeOK
  <2>. QED BY <2>1, <2>2
<1>4. ASSUME NEW c \in Calls, CreateInstance(c)
      PROVE  ICache'
  <2>1. call' \in [Calls -> Tuple] /\ CallOK'
    BY <1>4, EndsOK, ObtainedOK DEF CreateInstance
  <2>2. CacheOK'
    BY <1>4, CreatedOK, SameOK DEF CreateInstance, orbitVars, CacheOK, OrbitTypeOK
  <2>3. RestOK'
    BY <1>4 DEF CreateInstance, timerVars, RestOK
  <2>. QED BY <2>1, <2>2, <2>3
<1>5. ASSUME NEW c \in Calls, Describe(c)
      PROVE  ICache'
  <2>1. call' \in [Calls -> Tuple] /\ CallOK'
    BY <1>5, EndsOK, GotoOK DEF Describe, At, Places, CallOK, Holds
  <2>2. CacheOK' /\ RestOK'
    BY <1>5, SameOK DEF Describe, orbitVars, timerVars, RestOK, CacheOK, OrbitTypeOK
  <2>. QED BY <2>1, <2>2
<1>6. ASSUME NEW c \in Calls, OpenStore(c)
      PROVE  ICache'
  <2>1. call[c].instance \in Instances
    BY <1>6 DEF OpenStore, At, CallOK, Holds
  <2>2. call' \in [Calls -> Tuple] /\ CallOK'
    BY <1>6, <2>1, EndsOK, GotoOK, GotStoreOK DEF OpenStore, Places, CacheOK, OrbitTypeOK
  <2>3. CacheOK' /\ RestOK'
    BY <1>6, SameOK DEF OpenStore, orbitVars, timerVars, RestOK, CacheOK, OrbitTypeOK
  <2>. QED BY <2>2, <2>3
<1>7. ASSUME NEW c \in Calls, OpenedStore(c)
      PROVE  ICache'
  <2>1. call[c].instance \in Instances
    BY <1>7 DEF OpenedStore, At, CallOK, Holds
  <2>2. call' \in [Calls -> Tuple] /\ CallOK'
    BY <1>7, <2>1, EndsOK, GotStoreOK DEF OpenedStore
  <2>3. CacheOK'
    BY <1>7, <2>1, OpenedOK, SameOK DEF OpenedStore, orbitVars, CacheOK, OrbitTypeOK
  <2>4. RestOK'
    BY <1>7 DEF OpenedStore, timerVars, RestOK
  <2>. QED BY <2>2, <2>3, <2>4
<1>8. ASSUME NEW c \in Calls, LoadStore(c) \/ NotReplicated(c) \/ Peeked(c) \/ Imported(c)
      PROVE  ICache'
  <2>1. call[c].instance \in Instances /\ call[c].store \in Stores
    BY <1>8 DEF LoadStore, NotReplicated, Peeked, Imported, At, CallOK, Holds
  <2>2. call' \in [Calls -> Tuple] /\ CallOK'
    BY <1>8, <2>1, EndsOK, GotoOK DEF LoadStore, NotReplicated, Peeked, Imported, Places
  <2>3. CacheOK'
    BY <1>8, SameOK
       DEF LoadStore, NotReplicated, Peeked, Imported, orbitVars, CacheOK, OrbitTypeOK
  <2>4. RestOK'
    BY <1>8, <2>1 DEF LoadStore, NotReplicated, Peeked, Imported, timerVars, RestOK
  <2>. QED BY <2>2, <2>3, <2>4
<1>9. ASSUME NEW c \in Calls, OpenOthers(c)
      PROVE  ICache'
  <2>1. call[c].instance \in Instances /\ call[c].store \in Stores
    BY <1>9 DEF OpenOthers, At, CallOK, Holds
  <2>2. call' \in [Calls -> Tuple] /\ CallOK'
    BY <1>9, EndsOK DEF OpenOthers
  <2>3. CacheOK'
    BY <1>9, <2>1, SameOK DEF OpenOthers, CacheOK, OrbitTypeOK
  <2>4. RestOK'
    BY <1>9, <2>1 DEF OpenOthers, timerVars, RestOK
  <2>. QED BY <2>2, <2>3, <2>4
<1>10. ASSUME NEW c \in Calls, DropRemoved(c)
       PROVE  ICache'
  <2>1. call[c].instance \in Instances /\ call[c].store \in Stores
    BY <1>10 DEF DropRemoved, At, CallOK, Holds
  <2>2. call' \in [Calls -> Tuple] /\ CallOK'
    BY <1>10, <2>1, EndsOK, GotoOK DEF DropRemoved, Places
  <2>3. CacheOK'
    BY <1>10, <2>1, DroppedOK, NotDroppedOK DEF DropRemoved
  <2>4. RestOK'
    BY <1>10 DEF DropRemoved, timerVars, RestOK
  <2>. QED BY <2>2, <2>3, <2>4
<1>11. ASSUME NEW c \in Calls, DropOthers(c)
       PROVE  ICache'
  <2>1. call[c].instance \in Instances /\ call[c].store \in Stores
    BY <1>11 DEF DropOthers, At, CallOK, Holds
  <2>2. call' \in [Calls -> Tuple] /\ CallOK'
    BY <1>11, <2>1, EndsOK, GotoOK DEF DropOthers, Places
  <2>3. CacheOK' /\ RestOK'
    BY <1>11, SameOK DEF DropOthers, timerVars, RestOK, CacheOK, OrbitTypeOK
  <2>. QED BY <2>2, <2>3
<1>12. ASSUME NEW c \in Calls, DisconnectRemoved(c)
       PROVE  ICache'
  <2>1. call' \in [Calls -> Tuple] /\ CallOK'
    BY <1>12, EndsOK DEF DisconnectRemoved, Removed
  <2>2. CacheOK'
    BY <1>12, DisconnectedOK DEF DisconnectRemoved
  <2>3. RestOK'
    BY <1>12 DEF DisconnectRemoved, Removed, NoIdentity, timerVars, RestOK
  <2>. QED BY <2>1, <2>2, <2>3
<1>13. ASSUME NEW s \in Stores, TimerFires(s) \/ DropPeeked(s) \/ DisconnectPeeked(s)
       PROVE  ICache'
  <2>1. call' \in [Calls -> Tuple] /\ CallOK'
    BY <1>13, SameCalls DEF TimerFires, DropPeeked, DisconnectPeeked
  <2>2. CASE TimerFires(s)
    BY <2>1, <2>2, SameOK DEF TimerFires, orbitVars, RestOK, CacheOK, OrbitTypeOK
  <2>3. CASE DropPeeked(s)
    <3>1. CacheOK'
      BY <2>3, DroppedOK, NotDroppedOK DEF DropPeeked
    <3>2. RestOK'
      BY <2>3 DEF DropPeeked, RestOK
    <3>. QED BY <2>1, <3>1, <3>2
  <2>4. CASE DisconnectPeeked(s)
    <3>1. CacheOK'
      BY <2>4, DisconnectedOK DEF DisconnectPeeked
    <3>2. RestOK'
      BY <2>4 DEF DisconnectPeeked, RestOK
    <3>. QED BY <2>1, <3>1, <3>2
  <2>. QED BY <1>13, <2>2, <2>3, <2>4
<1>14. ASSUME Reload
       PROVE  ICache'
  <2>1. NoCall \in Tuple /\ Holds(NoCall)
    BY DEF NoCall, Tuple, Places, Holds
  <2>2. call' \in [Calls -> Tuple] /\ CallOK'
    BY <1>14, <2>1 DEF Reload, CallOK
  <2>3. PICK i \in Instances \union {None}, s \in Stores \union {None} :
           /\ (i # None) = stored /\ (s # None) = stored
           /\ cached' = i
           /\ connected' = {i} \ {None} /\ others' = {i} \ {None}
           /\ profile' = [j \in Instances |-> IF j = i THEN s ELSE None]
           /\ owner' = [t \in Stores |-> IF t = s THEN i ELSE None]
           /\ dropped' = {}
           /\ wallet' = [instance |-> i, store |-> s]
    BY <1>14 DEF Reload
  <2>4. CacheOK'
    BY <2>3 DEF CacheOK, OrbitTypeOK, OwnerOK, CacheIsFresh
  <2>5. RestOK'
    BY <1>14, <2>3 DEF Reload, RestOK
  <2>. QED BY <2>2, <2>4, <2>5
<1>15. CASE UNCHANGED vars
  BY <1>15, SameCalls, SameOK DEF vars, orbitVars, timerVars, RestOK, CacheOK, OrbitTypeOK
<1>. QED
  BY <1>1, <1>2, <1>3, <1>4, <1>5, <1>6, <1>7, <1>8, <1>9, <1>10, <1>11, <1>12, <1>13, <1>14, <1>15
     DEF Next

LEMMA CacheAlways == Spec => []ICache
BY CacheInit, CacheNext, PTL DEF Spec

\* Every variable keeps its type, whatever overlaps and whatever rejects.
THEOREM StoresTypeCorrect == Spec => []TypeOK
<1>1. ICache => TypeOK
  BY DEF ICache
<1>. QED BY <1>1, CacheAlways, PTL

\* The caches of utils/orbitdb.js never hand out a store that was dropped nor
\* an instance that was disconnected.
THEOREM CacheFresh == Spec => []CacheIsFresh
<1>1. ICache => CacheIsFresh
  BY DEF ICache
<1>. QED BY <1>1, CacheAlways, PTL
=============================================================================
