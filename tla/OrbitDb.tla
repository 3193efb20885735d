-------------------------------- MODULE OrbitDb --------------------------------
(***************************************************************************)
(* The OrbitDB instances and stores of one identity, as                    *)
(* identities/identity/utils/orbitdb.js caches them: the instance under    *)
(* the identity's id, and under each instance its stores by name.          *)
(*                                                                         *)
(* Both caches are looked up before a wait and filled after it, so that    *)
(* two callers may each create an instance or open a store, and the second *)
(* takes the place of the first.  An instance that disconnects takes the   *)
(* identity's id out of the cache, whichever instance the cache has by     *)
(* then, and a store that closes its name.                                 *)
(***************************************************************************)
CONSTANTS Instances, \* bound: OrbitDB instances that anything refers to
          Stores,    \* bound: profile stores that anything refers to
          None

VARIABLES cached,    \* `instances`, for the one identity
          connected, \* the keys of `instancesStores`
          profile,   \* the profile store in `instancesStores` of each instance
          others,    \* instances whose other stores are open: devices and apps
          owner,     \* the instance of each profile store
          dropped    \* profile stores that were dropped

orbitVars == <<cached, connected, profile, others, owner, dropped>>

OrbitInit ==
    /\ cached = None
    /\ connected = {}
    /\ profile = [i \in Instances |-> None]
    /\ others = {}
    /\ owner = [s \in Stores |-> None]
    /\ dropped = {}

\* getOrbitDb after createInstance: cached, in place of whatever is there.
InstanceCreated(i) ==
    /\ cached' = i
    /\ connected' = connected \union {i}
    /\ UNCHANGED <<profile, others, owner, dropped>>

\* openStore after orbitdb.open: the cache of a disconnected instance is gone.
StoreOpened(i, s) ==
    /\ profile' = IF i \in connected THEN [profile EXCEPT ![i] = s] ELSE profile
    /\ owner' = [owner EXCEPT ![s] = i]
    /\ dropped' = dropped \ {s}
    /\ UNCHANGED <<cached, connected, others>>

\* The wrapped close() takes the name out of the cache.
StoreClosed(s) ==
    /\ profile' = [profile EXCEPT ![owner[s]] = None]
    /\ UNCHANGED <<cached, connected, others, owner>>

\* store.drop(), which closes the store first, and that it rejects on the way.
StoreDropped(s) == StoreClosed(s) /\ dropped' = dropped \union {s}

StoreNotDropped(s) ==
    /\ StoreClosed(s) \/ UNCHANGED <<cached, connected, profile, others, owner>>
    /\ UNCHANGED dropped

\* dropOrbitDbIfEmpty: an instance without stores, or without a cache of them.
IsEmpty(i) == i \in connected => profile[i] = None /\ i \notin others

StoresClosed(i) ==
    /\ profile' = [profile EXCEPT ![i] = None]
    /\ others' = others \ {i}
    /\ UNCHANGED <<owner, dropped>>

\* dropOrbitDb: the wrapped disconnect(), which closes the stores first, and
\* that it, or keystore.destroy() before it, rejects.
Disconnected(i) ==
    /\ cached' = None
    /\ connected' = connected \ {i}
    /\ StoresClosed(i)

NotDisconnected(i) ==
    /\ StoresClosed(i) \/ UNCHANGED <<profile, others, owner, dropped>>
    /\ UNCHANGED <<cached, connected>>

OrbitTypeOK ==
    /\ cached \in Instances \union {None}
    /\ connected \subseteq Instances
    /\ profile \in [Instances -> Stores \union {None}]
    /\ others \subseteq Instances
    /\ owner \in [Stores -> Instances \union {None}]
    /\ dropped \subseteq Stores
=============================================================================
