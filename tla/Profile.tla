-------------------------------- MODULE Profile --------------------------------
(***************************************************************************)
(* The profile of an identity (identities/identity/profile.js): its        *)
(* picture in the replicated store, the blob store that follows the store, *)
(* and the details that the wallet shows.                                  *)
(*                                                                         *)
(* setProperty() first puts the picture into the blob store and then into  *)
(* the replicated store; other devices write to the latter as well.        *)
(* Properties that are no blobs are values of the store and left out.      *)
(***************************************************************************)
EXTENDS BlobStore

CONSTANT Calls \* identities of concurrent setProperty() and unsetProperty() calls

\* What the details show instead of a picture is none.
ASSUME ProfileAssumption == Pictures \intersect {"absent", "pending"} = {}

VARIABLES stored,  \* the picture property in the replicated store
          details, \* the picture in #details
          call     \* the calls in flight

vars == <<blobVars, stored, details, call>>

NoCall == [pc |-> "idle", picture |-> None]

\* maybeUpdateDetails: a stored picture that has no URL yet is "pending".
Details(p) == IF p = None THEN "absent" ELSE Url

\* The constructor: the blobs start to sync to the store.
Init ==
    /\ \E p \in Pictures \union {None} : \E b \in Fresh(p) :
          /\ stored = p
          /\ ref = b.ref /\ task = b.task
    /\ details = Details(stored)
    /\ pinned = {} /\ infura = {} /\ uploads = {}
    /\ call = [c \in Calls |-> NoCall]

-----------------------------------------------------------------------------
\* Mutant of StoreChanges: the details are computed before the blobs are synced.
StoreChangesDetailsFirst(p) ==
    /\ stored' = p
    /\ details' = Details(p)
    /\ Sync(p)
    /\ UNCHANGED <<pinned, infura, uploads>>

\* A write or a replication, and handleOrbitdbStoreChange in the same turn.
StoreChanges(p) ==
    /\ stored' = p
    /\ Sync(p)
    /\ details' = Details(stored)'
    /\ UNCHANGED <<pinned, infura, uploads>>

\* Other devices change the picture, or other properties only.
Replicated ==
    /\ \E p \in Pictures \union {None} : StoreChanges(p)
    /\ UNCHANGED call

\* A sync ends; its change is told asynchronously and the details follow.
Pinned(t) ==
    /\ PinAnswer(t)
    /\ UNCHANGED <<stored, call>>
    /\ details' = IF ref' # ref THEN Details(stored)' ELSE details

Uploaded(p) == UploadEnds(p) /\ UNCHANGED <<stored, details, call>>

-----------------------------------------------------------------------------
(* setProperty() and unsetProperty().                                      *)

At(c, pc) == call[c].pc = pc
Goto(c, pc) == call' = [call EXCEPT ![c].pc = pc]
Ends(c) == call' = [call EXCEPT ![c] = NoCall]

\* setProperties() is such calls, one after the other.
SetProperty(c, p) ==
    /\ call[c] = NoCall
    /\ call' = [call EXCEPT ![c] = [pc |-> "add", picture |-> p]]
    /\ UNCHANGED <<blobVars, stored, details>>

\* IPFS takes the picture or rejects, and so does the call.
Add(c) ==
    /\ At(c, "add")
    /\ \/ AddToIpfs(call[c].picture) /\ Goto(c, "infura")
       \/ Ends(c) /\ UNCHANGED blobVars
    /\ UNCHANGED <<stored, details>>

\* The reference is set, which updates no details; the store is written, with a
\* wait, unless it has the value.
SetBlob(c) ==
    /\ At(c, "infura")
    /\ SetRef(call[c].picture)
    /\ IF stored = call[c].picture THEN Ends(c) ELSE Goto(c, "store")
    /\ UNCHANGED <<stored, details>>

\* Storage for the log rejects, or the write is in the store.
PutValue(c) ==
    /\ At(c, "store")
    /\ \/ StoreChanges(call[c].picture)
       \/ UNCHANGED <<blobVars, stored, details>>
    /\ Ends(c)

\* unsetProperty(): nothing is deleted unless it is there.
UnsetProperty(c) ==
    /\ call[c] = NoCall
    /\ stored # None
    /\ call' = [call EXCEPT ![c] = [pc |-> "delete", picture |-> None]]
    /\ UNCHANGED <<blobVars, stored, details>>

DeleteValue(c) ==
    /\ At(c, "delete")
    /\ \/ StoreChanges(None)
       \/ UNCHANGED <<blobVars, stored, details>>
    /\ Ends(c)

\* The process ends and a new one restores the profile.
Reload ==
    /\ \E b \in Fresh(stored) : ref' = b.ref /\ task' = b.task
    /\ UNCHANGED <<pinned, infura, stored>>
    /\ details' = Details(stored)'
    /\ uploads' = {}
    /\ call' = [c \in Calls |-> NoCall]

Next ==
    \/ Replicated
    \/ \E t \in Tasks : Pinned(t)
    \/ \E p \in Pictures : Uploaded(p)
    \/ \E c \in Calls :
          \/ \E p \in Pictures : SetProperty(c, p)
          \/ Add(c)
          \/ SetBlob(c)
          \/ PutValue(c)
          \/ UnsetProperty(c)
          \/ DeleteValue(c)
    \/ Reload

Spec == Init /\ [][Next]_vars

-----------------------------------------------------------------------------
TypeOK ==
    /\ BlobTypeOK
    /\ stored \in Pictures \union {None}
    /\ details \in Pictures \union {"absent", "pending"}
    /\ call \in [Calls -> [pc : {"idle", "add", "infura", "store", "delete"},
                           picture : Pictures \union {None}]]

\* The picture shown is the one in the replicated store and the node has it,
\* whatever syncs of earlier pictures still wait for, and while the blob store
\* is ahead of the store because of a setProperty() under way or failed.
ShowsStored ==
    /\ details = "absent" <=> stored = None
    /\ details \in Pictures => details = stored /\ details \in pinned

\* A reference that is being synced is of the stored picture and some sync in
\* flight will settle it: no answer is dropped for a reference that needs it.
SyncingIsInFlight ==
    ref.status = "syncing" => /\ ref.picture = stored
                              /\ ref.task # None
                              /\ task[ref.task] = ref.picture
=============================================================================
