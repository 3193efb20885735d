----------------------------- MODULE ProfileStores -----------------------------
(***************************************************************************)
(* The profile store of an identity that is peeked at, imported and        *)
(* removed (identities/identity/profile.js from waitProfileReplication on, *)
(* and the calls of identities/identity/index.js around it).               *)
(*                                                                         *)
(* A peek leaves the store open for a fast import and sets a timer that    *)
(* drops it; whoever loads the same store object later cancels the timer   *)
(* that is registered for it.  The callback of the timer waits for the     *)
(* drop and for the disconnection.  Everything that is waited for may      *)
(* reject.                                                                 *)
(***************************************************************************)
EXTENDS OrbitDb

CONSTANTS Calls \* bound: concurrent peek(), import() and remove() calls

VARIABLES registered, \* stores with a pending timer in peekDropStoreTimers
          orphans,    \* stores with a pending timer that is no longer there
          dropping,   \* what the timer callback of each store waits for
          wallet,     \* the instance and profile store of the identity in use
          stored,     \* the identity's descriptor is in storage
          call        \* the calls in flight

timerVars == <<registered, orphans, dropping>>
vars == <<orbitVars, timerVars, wallet, stored, call>>

NoIdentity == [instance |-> None, store |-> None]
NoCall == [op |-> "none", pc |-> "idle", instance |-> None, store |-> None]

Init ==
    /\ OrbitInit
    /\ registered = {} /\ orphans = {}
    /\ dropping = [s \in Stores |-> "none"]
    /\ wallet = NoIdentity
    /\ stored = FALSE
    /\ call = [c \in Calls |-> NoCall]

-----------------------------------------------------------------------------
At(c, pc) == call[c].pc = pc
Goto(c, pc) == call' = [call EXCEPT ![c].pc = pc]
Ends(c) == call' = [call EXCEPT ![c] = NoCall]

\* A rejection: what createIdentity() catches starts removeIdentity().
Fails(c) ==
    call' = [call EXCEPT ![c] = IF call[c].op = "import"
                                THEN [NoCall EXCEPT !.op = "undo", !.pc = "forget"]
                                ELSE NoCall]

\* Store objects and instances that nothing refers to any more.
Closed(s) ==
    /\ \A i \in Instances : profile[i] # s
    /\ s # wallet.store
    /\ s \notin registered \union orphans /\ dropping[s] = "none"
    /\ \A c \in Calls : call[c].store # s

Unused(i) ==
    /\ i \notin {cached, wallet.instance} \union connected
    /\ \A c \in Calls : call[c].instance # i
    /\ \A s \in Stores : Closed(s) \/ owner[s] # i

-----------------------------------------------------------------------------
(* The calls start, and get hold of the instance.                          *)

\* Whether the wallet has the identity is asked here only.  Two imports at once
\* are a matter of Identities: here there is one at a time.
Start(c, op) ==
    /\ call[c] = NoCall
    /\ (op = "remove") = (wallet # NoIdentity)
    /\ op = "import" => \A d \in Calls : call[d].op \notin {"import", "undo"}
    /\ call' = [call EXCEPT ![c].op = op, ![c].pc = IF op = "remove" THEN "forget" ELSE "start"]
    /\ UNCHANGED <<orbitVars, timerVars, wallet, stored>>

\* The identity leaves the wallet when remove() ends well.
Removed(c) ==
    /\ Ends(c)
    /\ wallet' = IF call[c].op = "remove" THEN NoIdentity ELSE wallet

\* removeIdentity(): without a descriptor there is nothing to do.
Forget(c) ==
    /\ At(c, "forget")
    /\ \/ stored /\ stored' = FALSE /\ Goto(c, "start") /\ UNCHANGED wallet
       \/ ~ stored /\ Removed(c) /\ UNCHANGED stored
       \/ Ends(c) /\ UNCHANGED <<wallet, stored>> \* storage rejects
    /\ UNCHANGED <<orbitVars, timerVars>>

Obtained(c, i) ==
    call' = [call EXCEPT ![c].pc = IF call[c].op = "import" THEN "describe" ELSE "open",
                         ![c].instance = i]

\* getOrbitDb up to its wait.  createIdentity() passes the instance instead of
\* IPFS to removeIdentity(), so undoing rejects unless an instance is cached.
GetOrbitDb(c) ==
    /\ At(c, "start")
    /\ \/ cached # None /\ Obtained(c, cached)
       \/ cached = None /\ call[c].op # "undo" /\ Goto(c, "create")
       \/ cached = None /\ call[c].op = "undo" /\ Ends(c)
    /\ UNCHANGED <<orbitVars, timerVars, wallet, stored>>

\* A rejection is not caught: nothing is undone.
CreateInstance(c) ==
    /\ At(c, "create")
    /\ \/ \E i \in Instances : Unused(i) /\ InstanceCreated(i) /\ Obtained(c, i)
       \/ Ends(c) /\ UNCHANGED orbitVars
    /\ UNCHANGED <<timerVars, wallet, stored>>

\* createIdentity() stores the descriptor, encrypted: this may take its time.
Describe(c) ==
    /\ At(c, "describe")
    /\ \/ stored' = TRUE /\ Goto(c, "open")
       \/ stored' = stored /\ Fails(c)
    /\ UNCHANGED <<orbitVars, timerVars, wallet>>

-----------------------------------------------------------------------------
(* The profile store is opened, and loaded or dropped.                     *)

\* openStore up to its wait.  A removal drops the devices before.
OpenStore(c) ==
    /\ At(c, "open")
    /\ LET i == call[c].instance IN
       \/ /\ i \in connected /\ profile[i] # None
          /\ call' = [call EXCEPT ![c].pc = "opened", ![c].store = profile[i]]
       \/ /\ i \in connected /\ profile[i] = None
          /\ Goto(c, "opening")
       \/ /\ i \notin connected \/ call[c].op \in {"undo", "remove"}
          /\ Fails(c)
    /\ UNCHANGED <<orbitVars, timerVars, wallet, stored>>

OpenedStore(c) ==
    /\ At(c, "opening")
    /\ \/ \E s \in Stores :
             /\ Closed(s)
             /\ StoreOpened(call[c].instance, s)
             /\ call' = [call EXCEPT ![c].pc = "opened", ![c].store = s]
       \/ Fails(c) /\ UNCHANGED orbitVars
    /\ UNCHANGED <<timerVars, wallet, stored>>

\* store.load(), and cancelPeekDropStore once it is loaded.
LoadStore(c) ==
    /\ At(c, "opened") /\ call[c].op \in {"peek", "import"}
    /\ \/ registered' = registered \ {call[c].store} /\ Goto(c, "wait")
       \/ registered' = registered /\ Fails(c)
    /\ UNCHANGED <<orbitVars, orphans, dropping, wallet, stored>>

\* The profile does not replicate in time: the store stays open, untimed.
NotReplicated(c) ==
    /\ At(c, "wait")
    /\ Fails(c)
    /\ UNCHANGED <<orbitVars, timerVars, wallet, stored>>

-----------------------------------------------------------------------------
(* peek(): once the profile is replicated, it leaves a timer.              *)

Peeked(c) ==
    /\ At(c, "wait") /\ call[c].op = "peek"
    /\ orphans' = orphans \union ({call[c].store} \intersect registered)
    /\ registered' = registered \union {call[c].store}
    /\ Ends(c)
    /\ UNCHANGED <<orbitVars, dropping, wallet, stored>>

\* The callback of the timer: drop the store, then the instance if it has no
\* other.  A rejection ends it, and nobody tries again.
TimerFires(s) ==
    /\ dropping[s] = "none"
    /\ \/ s \in registered /\ registered' = registered \ {s} /\ UNCHANGED orphans
       \/ s \in orphans /\ orphans' = orphans \ {s} /\ UNCHANGED registered
    /\ dropping' = [dropping EXCEPT ![s] = "drop"]
    /\ UNCHANGED <<orbitVars, wallet, stored, call>>

DropPeeked(s) ==
    /\ dropping[s] = "drop"
    /\ \/ /\ StoreDropped(s)
          /\ dropping' = [dropping EXCEPT ![s] = IF IsEmpty(owner[s])' THEN "disconnect" ELSE "none"]
       \/ /\ StoreNotDropped(s)
          /\ dropping' = [dropping EXCEPT ![s] = "none"]
    /\ UNCHANGED <<registered, orphans, wallet, stored, call>>

DisconnectPeeked(s) ==
    /\ dropping[s] = "disconnect"
    /\ Disconnected(owner[s]) \/ NotDisconnected(owner[s])
    /\ dropping' = [dropping EXCEPT ![s] = "none"]
    /\ UNCHANGED <<registered, orphans, wallet, stored, call>>

-----------------------------------------------------------------------------
(* import() and remove().                                                  *)

\* createProfile() is followed by the other stores, in one instance.
Imported(c) ==
    /\ At(c, "wait") /\ call[c].op = "import"
    /\ Goto(c, "others")
    /\ UNCHANGED <<orbitVars, timerVars, wallet, stored>>

OpenOthers(c) ==
    /\ At(c, "others")
    /\ \/ /\ call[c].instance \in connected
          /\ others' = others \union {call[c].instance}
          /\ wallet' = [instance |-> call[c].instance, store |-> call[c].store]
          /\ Ends(c)
       \/ /\ others' \in {others, others \union ({call[c].instance} \intersect connected)}
          /\ Fails(c)
          /\ UNCHANGED wallet
    /\ UNCHANGED <<cached, connected, profile, owner, dropped, timerVars, stored>>

\* removeIdentity(): its dropStore() does not care for timers.  When a step of
\* it rejects, remove() does too, and the identity stays in the wallet.
DropRemoved(c) ==
    /\ At(c, "opened") /\ call[c].op \in {"undo", "remove"}
    /\ \/ StoreDropped(call[c].store) /\ Goto(c, "apps")
       \/ StoreNotDropped(call[c].store) /\ Fails(c)
    /\ UNCHANGED <<timerVars, wallet, stored>>

DropOthers(c) ==
    /\ At(c, "apps")
    /\ \/ others' = others \ {call[c].instance} /\ Goto(c, "disconnect")
       \/ others' \in {others, others \ {call[c].instance}} /\ Fails(c)
    /\ UNCHANGED <<cached, connected, profile, owner, dropped, timerVars, wallet, stored>>

DisconnectRemoved(c) ==
    /\ At(c, "disconnect")
    /\ \/ Disconnected(call[c].instance) /\ Removed(c)
       \/ NotDisconnected(call[c].instance) /\ Fails(c) /\ UNCHANGED wallet
    /\ UNCHANGED <<timerVars, stored>>

\* A new process opens the stores of the identity and no others.  It does not
\* load at all when an import was cut off (Identities).
Reload ==
    /\ stored => wallet # NoIdentity
    /\ registered' = {} /\ orphans' = {}
    /\ dropping' = [s \in Stores |-> "none"]
    /\ call' = [c \in Calls |-> NoCall]
    /\ \E i \in Instances \union {None}, s \in Stores \union {None} :
          /\ (i # None) = stored /\ (s # None) = stored
          /\ cached' = i
          /\ connected' = {i} \ {None} /\ others' = {i} \ {None}
          /\ profile' = [j \in Instances |-> IF j = i THEN s ELSE None]
          /\ owner' = [t \in Stores |-> IF t = s THEN i ELSE None]
          /\ dropped' = {}
          /\ wallet' = [instance |-> i, store |-> s]
    /\ UNCHANGED stored

Next ==
    \/ \E c \in Calls :
          \/ \E op \in {"peek", "import", "remove"} : Start(c, op)
          \/ Forget(c) \/ GetOrbitDb(c) \/ CreateInstance(c) \/ Describe(c)
          \/ OpenStore(c) \/ OpenedStore(c) \/ LoadStore(c)
          \/ Peeked(c) \/ NotReplicated(c)
          \/ Imported(c) \/ OpenOthers(c)
          \/ DropRemoved(c) \/ DropOthers(c) \/ DisconnectRemoved(c)
    \/ \E s \in Stores : TimerFires(s) \/ DropPeeked(s) \/ DisconnectPeeked(s)
    \/ Reload

Spec == Init /\ [][Next]_vars

-----------------------------------------------------------------------------
TypeOK ==
    /\ OrbitTypeOK
    /\ registered \subseteq Stores
    /\ orphans \subseteq Stores
    /\ dropping \in [Stores -> {"none", "drop", "disconnect"}]
    /\ wallet \in [instance : Instances \union {None}, store : Stores \union {None}]
    /\ stored \in BOOLEAN
    /\ call \in [Calls -> [op : {"none", "peek", "import", "undo", "remove"},
                           pc : {"idle", "forget", "start", "create", "describe", "open",
                                 "opening", "opened", "wait", "others", "apps", "disconnect"},
                           instance : Instances \union {None}, store : Stores \union {None}]]

\* The profile store of an identity that is in the wallet, and that no removal
\* has begun to take away, is not dropped.  profile.js:183 delays the drop of a
\* peeked store so that the identity can be imported in the meantime, and the
\* import cancels the timer, but only the one in peekDropStoreTimers and only
\* then: not the callback that has begun, nor the timer of a later peek.
UsedIsKept == stored /\ wallet # NoIdentity => wallet.store \notin dropped
=============================================================================
