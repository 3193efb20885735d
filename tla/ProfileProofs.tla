----------------------------- MODULE ProfileProofs -----------------------------
(***************************************************************************)
(* Proofs about Profile and ProfileHistory, for any pictures and any       *)
(* number of concurrent syncs and calls.                                   *)
(***************************************************************************)
EXTENDS ProfileHistory, TLAPS

\* A reference is of a picture, except for the one that says there is none.
RefOK ==
    /\ ref.status = "none" <=> ref.picture = None
    /\ ref.status = "syncing" <=> ref.task # None

\* The node has every picture with a URL, and every picture about to get one.
PinnedOK == ref.status = "synced" => ref.picture \in pinned
CallsPinned == \A c \in Calls : At(c, "infura") => call[c].picture \in pinned

\* setProperty() holds on to a picture.
CallsOK ==
    \A c \in Calls : call[c].pc \in {"add", "infura", "store"} => call[c].picture \in Pictures

IType == TypeOK /\ RefOK /\ CallsOK
IShows == PinnedOK /\ CallsPinned /\ SyncingIsInFlight /\ ShowsStored

-----------------------------------------------------------------------------
(* The operations of the blob store.                                       *)

\* What a reference looks like.
Refs == [picture : Pictures \union {None}, status : {"none", "syncing", "synced", "error"},
         task : Tasks \union {None}]

LEMMA RefRecords ==
    /\ NoRef \in Refs
    /\ \A p \in Pictures : Synced(p) \in Refs
    /\ \A p \in Pictures : \A t \in Tasks :
          [picture |-> p, status |-> "syncing", task |-> t] \in Refs
    /\ \A p \in Pictures : [picture |-> p, status |-> "error", task |-> None] \in Refs
BY DEF NoRef, Synced, Refs

\* sync(): afterwards the reference is of the stored picture, and of a sync in
\* flight if it is new.
LEMMA SyncFollows ==
    ASSUME NEW p \in Pictures \union {None}, BlobTypeOK, RefOK, Sync(p)
    PROVE  /\ ref' \in Refs /\ task' \in [Tasks -> Pictures \union {None}]
           /\ ref'.picture = p
           /\ RefOK'
           /\ \/ ref' = ref /\ task' = task
              \/ ref' = NoRef
              \/ ref'.status = "syncing" /\ ref'.task \in Tasks /\ task'[ref'.task] = p
<1>1. CASE p = None /\ ref' = NoRef /\ UNCHANGED task
  BY <1>1, RefRecords DEF BlobTypeOK, NoRef, RefOK
<1>2. CASE p # None /\ ref.picture = p /\ UNCHANGED <<ref, task>>
  BY <1>2 DEF BlobTypeOK, Refs, RefOK
<1>3. ASSUME p # None, NEW t \in Free,
             ref' = [picture |-> p, status |-> "syncing", task |-> t],
             task' = [task EXCEPT ![t] = p]
      PROVE  /\ ref' \in Refs /\ task' \in [Tasks -> Pictures \union {None}]
             /\ ref'.picture = p
             /\ RefOK'
             /\ ref'.status = "syncing" /\ ref'.task \in Tasks /\ task'[ref'.task] = p
  <2>1. t \in Tasks /\ t # None /\ p \in Pictures
    BY <1>3, BlobAssumption DEF Free
  <2>. QED BY <2>1, <1>3, RefRecords DEF BlobTypeOK, RefOK
<1>. QED BY <1>1, <1>2, <1>3 DEF Sync

\* A new blob store.
LEMMA FreshFollows ==
    ASSUME NEW p \in Pictures \union {None}, NEW b \in Fresh(p)
    PROVE  /\ b.ref \in Refs /\ b.task \in [Tasks -> Pictures \union {None}]
           /\ b.ref.picture = p
           /\ \/ b.ref = NoRef /\ p = None
              \/ /\ p \in Pictures /\ b.ref.status = "syncing"
                 /\ b.ref.task \in Tasks /\ b.task[b.ref.task] = p
<1>1. CASE p = None
  BY <1>1, RefRecords DEF Fresh, NoRef, NoTasks
<1>2. CASE p # None
  <2>1. PICK t \in Tasks : b = [ref |-> [picture |-> p, status |-> "syncing", task |-> t],
                                task |-> [NoTasks EXCEPT ![t] = p]]
    BY <1>2 DEF Fresh
  <2>2. NoTasks \in [Tasks -> Pictures \union {None}]
    BY DEF NoTasks
  <2>. QED BY <1>2, <2>1, <2>2, RefRecords
<1>. QED BY <1>1, <1>2

\* The answer of IPFS: the reference stays, or was the one that waits for it.
LEMMA AnswerFollows ==
    ASSUME NEW t \in Tasks, BlobTypeOK, RefOK, PinAnswer(t)
    PROVE  /\ task[t] \in Pictures
           /\ ref' \in Refs /\ task' = [task EXCEPT ![t] = None]
           /\ task' \in [Tasks -> Pictures \union {None}]
           /\ RefOK'
           /\ \/ ref' = ref /\ ref.task # t
              \/ /\ ref.task = t /\ ref.status = "syncing"
                 /\ ref' = Synced(task[t]) /\ pinned' = pinned \union {task[t]}
                 /\ task[t] \in uploads'
              \/ /\ ref.task = t /\ ref.status = "syncing"
                 /\ ref' = [picture |-> task[t], status |-> "error", task |-> None]
           /\ pinned \subseteq pinned' /\ pinned' \subseteq Pictures
           /\ uploads \subseteq uploads' /\ uploads' \subseteq Pictures
           /\ infura' = infura
<1>1. task[t] \in Pictures /\ t # None
  BY BlobAssumption DEF BlobTypeOK, PinAnswer
<1>2. task' = [task EXCEPT ![t] = None] /\ task' \in [Tasks -> Pictures \union {None}]
  BY DEF BlobTypeOK, PinAnswer
<1>3. ref.task = t => ref.status = "syncing"
  BY <1>1 DEF RefOK
<1>4. CASE ref.task # t
  <2>1. ref' = ref
    BY <1>4 DEF PinAnswer
  <2>2. ref' \in Refs /\ RefOK'
    BY <2>1 DEF BlobTypeOK, Refs, RefOK
  <2>. QED BY <1>1, <1>2, <1>4, <2>1, <2>2 DEF PinAnswer, BlobTypeOK
<1>5. CASE ref.task = t /\ ref' = Synced(task[t]) /\ pinned' = pinned \union {task[t]}
           /\ uploads' = uploads \union {task[t]} /\ UNCHANGED infura
  <2>1. ref' \in Refs /\ RefOK'
    BY <1>1, <1>5, RefRecords, BlobAssumption DEF Synced, RefOK
  <2>. QED BY <1>1, <1>2, <1>3, <1>5, <2>1 DEF BlobTypeOK
<1>6. CASE ref.task = t /\ ref' = [picture |-> task[t], status |-> "error", task |-> None]
           /\ UNCHANGED <<pinned, uploads, infura>>
  <2>1. ref' \in Refs /\ RefOK'
    BY <1>1, <1>6, RefRecords, BlobAssumption DEF RefOK
  <2>. QED BY <1>1, <1>2, <1>3, <1>6, <2>1 DEF BlobTypeOK
<1>. QED BY <1>4, <1>5, <1>6 DEF PinAnswer

LEMMA SetFollows ==
    ASSUME NEW p \in Pictures, BlobTypeOK, SetRef(p)
    PROVE  /\ ref' = Synced(p) /\ ref' \in Refs /\ RefOK'
           /\ infura \subseteq infura' /\ infura' \subseteq Pictures
           /\ task' = task /\ pinned' = pinned /\ uploads' = uploads
BY RefRecords, BlobAssumption DEF SetRef, Synced, RefOK, BlobTypeOK

-----------------------------------------------------------------------------
(* Types.                                                                  *)

LEMMA DetailsType ==
    ASSUME ref \in Refs, RefOK, NEW p \in Pictures \union {None}
    PROVE  Details(p) \in Pictures \union {"absent", "pending"}
BY DEF Details, Url, Refs, RefOK

\* A change of the replicated store keeps the types.
LEMMA StoreType ==
    ASSUME IType, NEW p \in Pictures \union {None}, StoreChanges(p)
    PROVE  BlobTypeOK' /\ RefOK' /\ stored' = p /\ details' \in Pictures \union {"absent", "pending"}
<1>1. ref' \in Refs /\ task' \in [Tasks -> Pictures \union {None}] /\ RefOK'
  BY SyncFollows DEF IType, TypeOK, StoreChanges
<1>2. BlobTypeOK'
  BY <1>1 DEF BlobTypeOK, Refs, IType, TypeOK, StoreChanges
<1>3. Details(stored)' \in Pictures \union {"absent", "pending"}
  BY <1>1 DEF Details, Url, Refs, RefOK, StoreChanges
<1>. QED BY <1>1, <1>2, <1>3 DEF StoreChanges

LEMMA TypeInit == Init => IType
<1>. SUFFICES ASSUME Init PROVE IType
  OBVIOUS
<1>1. PICK p \in Pictures \union {None} : \E b \in Fresh(p) :
         stored = p /\ ref = b.ref /\ task = b.task
  BY DEF Init
<1>2. PICK b \in Fresh(p) : ref = b.ref /\ task = b.task
  BY <1>1
<1>3. BlobTypeOK /\ ref \in Refs
  BY <1>2, FreshFollows DEF Init, BlobTypeOK, Refs
<1>4. RefOK
  BY <1>2, FreshFollows, BlobAssumption DEF RefOK, NoRef
<1>5. details \in Pictures \union {"absent", "pending"}
  BY <1>1, <1>3, <1>4, DetailsType DEF Init
<1>6. call \in [Calls -> [pc : {"idle", "add", "infura", "store", "delete"},
                          picture : Pictures \union {None}]]
  BY DEF Init, NoCall
<1>. QED BY <1>1, <1>3, <1>4, <1>5, <1>6 DEF IType, TypeOK, CallsOK, Init, NoCall

LEMMA TypeNext == IType /\ [Next]_vars => IType'
<1>. SUFFICES ASSUME IType, [Next]_vars PROVE IType'
  OBVIOUS
<1>. DEFINE CallType == [Calls -> [pc : {"idle", "add", "infura", "store", "delete"},
                                   picture : Pictures \union {None}]]
<1>0. call \in CallType
  BY DEF IType, TypeOK
<1>1. CASE UNCHANGED vars
  BY <1>1 DEF vars, blobVars, IType, TypeOK, BlobTypeOK, RefOK, CallsOK
<1>2. CASE Replicated
  <2>1. PICK p \in Pictures \union {None} : StoreChanges(p)
    BY <1>2 DEF Replicated
  <2>. QED BY <2>1, <1>2, StoreType DEF Replicated, IType, TypeOK, CallsOK
<1>3. ASSUME NEW t \in Tasks, Pinned(t) PROVE IType'
  <2>1. /\ ref' \in Refs /\ RefOK' /\ task' \in [Tasks -> Pictures \union {None}]
        /\ pinned' \subseteq Pictures /\ uploads' \subseteq Pictures /\ infura' = infura
    BY <1>3, AnswerFollows DEF Pinned, IType, TypeOK
  <2>2. BlobTypeOK'
    BY <2>1 DEF BlobTypeOK, Refs, IType, TypeOK
  <2>3. details' \in Pictures \union {"absent", "pending"}
    BY <2>1, <1>3 DEF Pinned, Details, Url, Refs, RefOK, IType, TypeOK
  <2>. QED BY <1>3, <2>1, <2>2, <2>3 DEF Pinned, IType, TypeOK, CallsOK
<1>4. ASSUME NEW p \in Pictures, Uploaded(p) PROVE IType'
  <2>1. BlobTypeOK' /\ RefOK'
    BY <1>4 DEF Uploaded, UploadEnds, IType, TypeOK, BlobTypeOK, RefOK
  <2>. QED BY <1>4, <2>1 DEF Uploaded, IType, TypeOK, CallsOK
<1>5. ASSUME NEW c \in Calls, NEW p \in Pictures, SetProperty(c, p) PROVE IType'
  <2>1. call' \in CallType /\ CallsOK'
    BY <1>0, <1>5 DEF SetProperty, CallsOK, IType
  <2>. QED BY <1>5, <2>1 DEF SetProperty, blobVars, IType, TypeOK, BlobTypeOK, RefOK
<1>6. ASSUME NEW c \in Calls, Add(c) PROVE IType'
  <2>1. call' \in CallType /\ CallsOK'
    BY <1>0, <1>6 DEF Add, At, Goto, Ends, NoCall, CallsOK, IType
  <2>2. BlobTypeOK' /\ RefOK'
    <3>1. CASE AddToIpfs(call[c].picture)
      BY <1>6, <3>1 DEF Add, At, AddToIpfs, IType, TypeOK, BlobTypeOK, RefOK, CallsOK
    <3>2. CASE UNCHANGED blobVars
      BY <3>2 DEF blobVars, IType, TypeOK, BlobTypeOK, RefOK
    <3>. QED BY <1>6, <3>1, <3>2 DEF Add
  <2>. QED BY <1>6, <2>1, <2>2 DEF Add, IType, TypeOK
<1>7. ASSUME NEW c \in Calls, SetBlob(c) PROVE IType'
  <2>1. call' \in CallType /\ CallsOK'
    BY <1>0, <1>7 DEF SetBlob, At, Goto, Ends, NoCall, CallsOK, IType
  <2>2. PICK p \in Pictures : SetRef(p)
    BY <1>7 DEF SetBlob, At, CallsOK, IType
  <2>3. BlobTypeOK' /\ RefOK'
    BY <2>2, SetFollows DEF IType, TypeOK, BlobTypeOK, Refs
  <2>. QED BY <1>7, <2>1, <2>3 DEF SetBlob, IType, TypeOK
<1>8. ASSUME NEW c \in Calls, PutValue(c) PROVE IType'
  <2>1. call' \in CallType /\ CallsOK'
    BY <1>0, <1>8 DEF PutValue, Ends, NoCall, CallsOK, IType
  <2>2. CASE StoreChanges(call[c].picture)
    <3>1. PICK p \in Pictures \union {None} : p = call[c].picture
      BY <1>0
    <3>. QED BY <2>1, <2>2, <3>1, StoreType DEF IType, TypeOK
  <2>3. CASE UNCHANGED <<blobVars, stored, details>>
    BY <2>1, <2>3 DEF blobVars, IType, TypeOK, BlobTypeOK, RefOK
  <2>. QED BY <1>8, <2>2, <2>3 DEF PutValue
<1>9. ASSUME NEW c \in Calls, UnsetProperty(c) PROVE IType'
  <2>1. call' \in CallType /\ CallsOK'
    BY <1>0, <1>9 DEF UnsetProperty, CallsOK, IType
  <2>. QED BY <1>9, <2>1 DEF UnsetProperty, blobVars, IType, TypeOK, BlobTypeOK, RefOK
<1>10. ASSUME NEW c \in Calls, DeleteValue(c) PROVE IType'
  <2>1. call' \in CallType /\ CallsOK'
    BY <1>0, <1>10 DEF DeleteValue, Ends, NoCall, CallsOK, IType
  <2>2. CASE StoreChanges(None)
    BY <2>1, <2>2, StoreType DEF IType, TypeOK
  <2>3. CASE UNCHANGED <<blobVars, stored, details>>
    BY <2>1, <2>3 DEF blobVars, IType, TypeOK, BlobTypeOK, RefOK
  <2>. QED BY <1>10, <2>2, <2>3 DEF DeleteValue
<1>11. CASE Reload
  <2>1. stored \in Pictures \union {None}
    BY DEF IType, TypeOK
  <2>2. PICK b \in Fresh(stored) : ref' = b.ref /\ task' = b.task
    BY <1>11 DEF Reload
  <2>3. /\ ref' \in Refs /\ task' \in [Tasks -> Pictures \union {None}]
        /\ RefOK'
    BY <2>1, <2>2, FreshFollows, BlobAssumption DEF RefOK, NoRef
  <2>4. BlobTypeOK'
    BY <1>11, <2>3 DEF Reload, BlobTypeOK, Refs, IType, TypeOK
  <2>5. details' \in Pictures \union {"absent", "pending"}
    BY <1>11, <2>3 DEF Reload, Details, Url, Refs, RefOK
  <2>6. call' \in CallType /\ CallsOK'
    BY <1>11 DEF Reload, NoCall, CallsOK
  <2>. QED BY <1>11, <2>1, <2>3, <2>4, <2>5, <2>6 DEF Reload, IType, TypeOK
<1>. QED BY <1>1, <1>2, <1>3, <1>4, <1>5, <1>6, <1>7, <1>8, <1>9, <1>10, <1>11 DEF Next

\* Type correctness of the profile and its blob store: no call or sync loses
\* the picture it works on, and the details are a picture or say why not.
THEOREM ProfileTypeCorrect == Spec => []TypeOK
<1>1. IType => TypeOK
  BY DEF IType
<1>. QED BY TypeInit, TypeNext, <1>1, PTL DEF Spec

LEMMA TypeHolds == Spec => []IType
BY TypeInit, TypeNext, PTL DEF Spec
-----------------------------------------------------------------------------
(* What the details show.                                                  *)

\* The node keeps what it has pinned, and has what setProperty() has added.
LEMMA PinnedNext == IType /\ CallsPinned /\ [Next]_vars => CallsPinned' /\ pinned \subseteq pinned'
<1>. SUFFICES ASSUME IType, CallsPinned, [Next]_vars PROVE CallsPinned' /\ pinned \subseteq pinned'
  OBVIOUS
<1>0. call \in [Calls -> [pc : {"idle", "add", "infura", "store", "delete"},
                          picture : Pictures \union {None}]]
  BY DEF IType, TypeOK
<1>1. CASE UNCHANGED vars
  BY <1>1 DEF vars, blobVars, CallsPinned, At
<1>2. CASE Replicated
  BY <1>2 DEF Replicated, StoreChanges, CallsPinned, At
<1>3. ASSUME NEW t \in Tasks, Pinned(t) PROVE CallsPinned' /\ pinned \subseteq pinned'
  <2>1. pinned \subseteq pinned'
    BY <1>3, AnswerFollows DEF Pinned, IType, TypeOK
  <2>. QED BY <1>3, <2>1 DEF Pinned, CallsPinned, At
<1>4. ASSUME NEW p \in Pictures, Uploaded(p) PROVE CallsPinned' /\ pinned \subseteq pinned'
  BY <1>4 DEF Uploaded, UploadEnds, CallsPinned, At
<1>5. ASSUME NEW c \in Calls, NEW p \in Pictures, SetProperty(c, p)
      PROVE  CallsPinned' /\ pinned \subseteq pinned'
  BY <1>0, <1>5 DEF SetProperty, blobVars, CallsPinned, At
<1>6. ASSUME NEW c \in Calls, Add(c) PROVE CallsPinned' /\ pinned \subseteq pinned'
  <2>1. CASE AddToIpfs(call[c].picture) /\ Goto(c, "infura")
    BY <1>0, <2>1 DEF AddToIpfs, Goto, CallsPinned, At
  <2>2. CASE Ends(c) /\ UNCHANGED blobVars
    BY <1>0, <2>2 DEF blobVars, Ends, NoCall, CallsPinned, At
  <2>. QED BY <1>6, <2>1, <2>2 DEF Add
<1>7. ASSUME NEW c \in Calls, SetBlob(c) PROVE CallsPinned' /\ pinned \subseteq pinned'
  BY <1>0, <1>7 DEF SetBlob, SetRef, Ends, Goto, NoCall, CallsPinned, At
<1>8. ASSUME NEW c \in Calls, PutValue(c) PROVE CallsPinned' /\ pinned \subseteq pinned'
  BY <1>0, <1>8 DEF PutValue, StoreChanges, blobVars, Ends, NoCall, CallsPinned, At
<1>9. ASSUME NEW c \in Calls, UnsetProperty(c) PROVE CallsPinned' /\ pinned \subseteq pinned'
  BY <1>0, <1>9 DEF UnsetProperty, blobVars, CallsPinned, At
<1>10. ASSUME NEW c \in Calls, DeleteValue(c) PROVE CallsPinned' /\ pinned \subseteq pinned'
  BY <1>0, <1>10 DEF DeleteValue, StoreChanges, blobVars, Ends, NoCall, CallsPinned, At
<1>11. CASE Reload
  BY <1>11 DEF Reload, NoCall, CallsPinned, At
<1>. QED BY <1>1, <1>2, <1>3, <1>4, <1>5, <1>6, <1>7, <1>8, <1>9, <1>10, <1>11 DEF Next

\* Details computed when the reference is of the stored picture show that one.
LEMMA DetailsShow ==
    ASSUME IType, PinnedOK, ref.picture = stored, details = Details(stored)
    PROVE  ShowsStored
<1>1. CASE stored = None
  BY <1>1, ProfileAssumption DEF Details, ShowsStored
<1>2. CASE stored # None
  <2>1. details = Url /\ stored \in Pictures /\ stored # "absent"
    BY <1>2, ProfileAssumption DEF Details, IType, TypeOK
  <2>. QED BY <1>2, <2>1, ProfileAssumption DEF Url, ShowsStored, PinnedOK
<1>. QED BY <1>1, <1>2

\* A change of the store leaves the blob store with what it has, a new sync or
\* nothing, and the details computed.
LEMMA StoreKeeps ==
    ASSUME IType, PinnedOK, SyncingIsInFlight, NEW p \in Pictures \union {None}, StoreChanges(p)
    PROVE  PinnedOK' /\ SyncingIsInFlight' /\ (ref.picture = stored)' /\ (details = Details(stored))'
<1>1. stored' = p /\ pinned' = pinned /\ details' = Details(stored)'
  BY DEF StoreChanges
<1>2. /\ ref'.picture = p
      /\ \/ ref' = ref /\ task' = task
         \/ ref' = NoRef
         \/ ref'.status = "syncing" /\ ref'.task \in Tasks /\ task'[ref'.task] = p
  BY SyncFollows DEF IType, TypeOK, StoreChanges
<1>. QED BY <1>1, <1>2, BlobAssumption DEF PinnedOK, SyncingIsInFlight, NoRef

LEMMA ShowsInit == Init => IShows
<1>. SUFFICES ASSUME Init PROVE IShows
  OBVIOUS
<1>1. IType
  BY TypeInit
<1>2. PICK b \in Fresh(stored) : ref = b.ref /\ task = b.task
  BY DEF Init
<1>3. stored \in Pictures \union {None}
  BY <1>1 DEF IType, TypeOK
<1>4. PinnedOK /\ SyncingIsInFlight /\ ref.picture = stored
  BY <1>2, <1>3, FreshFollows, BlobAssumption DEF NoRef, PinnedOK, SyncingIsInFlight
<1>. QED BY <1>1, <1>4, DetailsShow DEF IShows, CallsPinned, At, NoCall, Init

LEMMA ShowsNext == IType /\ IType' /\ IShows /\ [Next]_vars => IShows'
<1>. SUFFICES ASSUME IType, IType', IShows, [Next]_vars PROVE IShows'
  OBVIOUS
<1>0. CallsPinned' /\ pinned \subseteq pinned'
  BY PinnedNext DEF IShows
<1>. SUFFICES PinnedOK' /\ SyncingIsInFlight' /\ ShowsStored'
  BY <1>0 DEF IShows
<1>. DEFINE Computed == (ref.picture = stored)' /\ (details = Details(stored))'
<1>a. ASSUME PinnedOK', Computed PROVE ShowsStored'
  <2>1. CASE stored' = None
    BY <1>a, <2>1, ProfileAssumption DEF Details, ShowsStored
  <2>2. CASE stored' # None
    <3>1. details' = Url' /\ stored' \in Pictures /\ stored' # "absent"
      BY <1>a, <2>2, ProfileAssumption DEF Details, IType, TypeOK
    <3>. QED BY <1>a, <2>2, <3>1, ProfileAssumption DEF Url, ShowsStored, PinnedOK
  <2>. QED BY <2>1, <2>2
<1>b. ASSUME NEW p \in Pictures \union {None}, StoreChanges(p)
      PROVE  PinnedOK' /\ SyncingIsInFlight' /\ ShowsStored'
  BY <1>a, <1>b, StoreKeeps DEF IShows
<1>c. ASSUME UNCHANGED <<ref, task, stored, details>>
      PROVE  PinnedOK' /\ SyncingIsInFlight' /\ ShowsStored'
  BY <1>c, <1>0 DEF IShows, PinnedOK, SyncingIsInFlight, ShowsStored
<1>1. CASE UNCHANGED vars
  BY <1>1, <1>c DEF vars, blobVars
<1>2. CASE Replicated
  BY <1>2, <1>b DEF Replicated
<1>3. ASSUME NEW t \in Tasks, Pinned(t) PROVE PinnedOK' /\ SyncingIsInFlight' /\ ShowsStored'
  <2>1. task[t] \in Pictures /\ task' = [task EXCEPT ![t] = None] /\ stored' = stored
    BY <1>3, AnswerFollows DEF Pinned, IType, TypeOK
  <2>2. CASE ref' = ref /\ ref.task # t
    <3>1. details' = details
      BY <1>3, <2>2 DEF Pinned
    <3>2. SyncingIsInFlight'
      BY <2>1, <2>2 DEF IShows, SyncingIsInFlight, RefOK, IType, TypeOK, BlobTypeOK
    <3>. QED BY <1>0, <2>1, <2>2, <3>1, <3>2 DEF IShows, PinnedOK, ShowsStored
  <2>3. ASSUME ref.task = t, ref.status = "syncing",
               \/ ref' = Synced(task[t]) /\ pinned' = pinned \union {task[t]}
               \/ ref' = [picture |-> task[t], status |-> "error", task |-> None]
        PROVE  PinnedOK' /\ SyncingIsInFlight' /\ ShowsStored'
    <3>1. ref'.picture = stored' /\ ref'.status # "syncing"
      BY <2>1, <2>3 DEF IShows, SyncingIsInFlight, Synced
    <3>2. PinnedOK' /\ SyncingIsInFlight'
      BY <2>3, <3>1 DEF PinnedOK, SyncingIsInFlight, Synced
    <3>3. details' = Details(stored)'
      BY <1>3, <2>3, <3>1 DEF Pinned
    <3>. QED BY <1>a, <3>1, <3>2, <3>3
  <2>. QED BY <1>3, <2>2, <2>3, AnswerFollows DEF Pinned, IType, TypeOK
<1>4. ASSUME NEW p \in Pictures, Uploaded(p) PROVE PinnedOK' /\ SyncingIsInFlight' /\ ShowsStored'
  BY <1>4, <1>c DEF Uploaded, UploadEnds
<1>5. ASSUME NEW c \in Calls, NEW p \in Pictures, SetProperty(c, p)
      PROVE  PinnedOK' /\ SyncingIsInFlight' /\ ShowsStored'
  BY <1>5, <1>c DEF SetProperty, blobVars
<1>6. ASSUME NEW c \in Calls, Add(c) PROVE PinnedOK' /\ SyncingIsInFlight' /\ ShowsStored'
  BY <1>6, <1>c DEF Add, AddToIpfs, blobVars
<1>7. ASSUME NEW c \in Calls, SetBlob(c) PROVE PinnedOK' /\ SyncingIsInFlight' /\ ShowsStored'
  BY <1>0, <1>7 DEF SetBlob, SetRef, Synced, At, CallsPinned, IShows, PinnedOK,
                    SyncingIsInFlight, ShowsStored
<1>8. ASSUME NEW c \in Calls, PutValue(c) PROVE PinnedOK' /\ SyncingIsInFlight' /\ ShowsStored'
  <2>1. PICK p \in Pictures \union {None} : p = call[c].picture
    BY DEF IType, TypeOK
  <2>. QED BY <1>8, <1>b, <1>c, <2>1 DEF PutValue, blobVars
<1>9. ASSUME NEW c \in Calls, UnsetProperty(c) PROVE PinnedOK' /\ SyncingIsInFlight' /\ ShowsStored'
  BY <1>9, <1>c DEF UnsetProperty, blobVars
<1>10. ASSUME NEW c \in Calls, DeleteValue(c) PROVE PinnedOK' /\ SyncingIsInFlight' /\ ShowsStored'
  BY <1>10, <1>b, <1>c DEF DeleteValue, blobVars
<1>11. CASE Reload
  <2>1. stored' = stored /\ stored \in Pictures \union {None} /\ pinned' = pinned
    BY <1>11 DEF Reload, IType, TypeOK
  <2>2. PICK b \in Fresh(stored) : ref' = b.ref /\ task' = b.task
    BY <1>11 DEF Reload
  <2>3. PinnedOK' /\ SyncingIsInFlight' /\ ref'.picture = stored'
    BY <2>1, <2>2, FreshFollows, BlobAssumption DEF NoRef, PinnedOK, SyncingIsInFlight
  <2>. QED BY <1>11, <1>a, <2>3 DEF Reload
<1>. QED BY <1>1, <1>2, <1>3, <1>4, <1>5, <1>6, <1>7, <1>8, <1>9, <1>10, <1>11 DEF Next

LEMMA ShowsHolds == Spec => []IShows
BY TypeHolds, ShowsInit, ShowsNext, PTL DEF Spec

\* The details never show another picture than the stored one, nor one that the
\* node has not got, however many syncs are in flight.
THEOREM StoredShown == Spec => []ShowsStored
<1>1. IShows => ShowsStored
  BY DEF IShows
<1>. QED BY ShowsHolds, <1>1, PTL

\* Every reference that is being synced is of the stored picture and is settled
\* by a sync in flight.
THEOREM SyncingInFlight == Spec => []SyncingIsInFlight
<1>1. IShows => SyncingIsInFlight
  BY DEF IShows
<1>. QED BY ShowsHolds, <1>1, PTL

-----------------------------------------------------------------------------
(* With the history.                                                       *)

LEMMA HistorySteps == SpecH => Spec
<1>1. InitH => Init
  BY DEF InitH
<1>2. [NextH]_historyVars => [Next]_vars
  BY DEF NextH, historyVars
<1>. QED BY <1>1, <1>2, PTL DEF SpecH, Spec

\* put() of a picture sets the reference to it and ends its wait for Infura.
LEMMA PuttingSets ==
    ASSUME IType, NEW c \in Calls, SetBlob(c)
    PROVE  c \in Putting /\ ref' = Synced(call[c].picture)
<1>1. call \in [Calls -> [pc : {"idle", "add", "infura", "store", "delete"},
                          picture : Pictures \union {None}]]
  BY DEF IType, TypeOK
<1>2. call'[c].pc # "infura"
  BY <1>1 DEF SetBlob, Ends, Goto, NoCall
<1>. QED BY <1>2 DEF SetBlob, SetRef, At, Putting

\* A step computes the details, puts a picture or leaves alone what they say.
LEMMA ComputesOrKeeps ==
    ASSUME IType, [Next]_vars
    PROVE  \/ details' = Details(stored)'
           \/ UNCHANGED <<ref, stored, details>>
           \/ stored' = stored /\ \E c \in Putting : SetBlob(c)
<1>. DEFINE Goal == \/ details' = Details(stored)'
                    \/ UNCHANGED <<ref, stored, details>>
                    \/ stored' = stored /\ \E c \in Putting : SetBlob(c)
<1>1. CASE UNCHANGED vars
  BY <1>1 DEF vars, blobVars
<1>2. CASE Replicated
  BY <1>2 DEF Replicated, StoreChanges
<1>3. ASSUME NEW t \in Tasks, Pinned(t) PROVE Goal
  BY <1>3 DEF Pinned
<1>4. ASSUME NEW p \in Pictures, Uploaded(p) PROVE Goal
  BY <1>4 DEF Uploaded, UploadEnds
<1>5. ASSUME NEW c \in Calls, NEW p \in Pictures, SetProperty(c, p) PROVE Goal
  BY <1>5 DEF SetProperty, blobVars
<1>6. ASSUME NEW c \in Calls, Add(c) PROVE Goal
  BY <1>6 DEF Add, AddToIpfs, blobVars
<1>7. ASSUME NEW c \in Calls, SetBlob(c) PROVE Goal
  BY <1>7, PuttingSets DEF SetBlob
<1>8. ASSUME NEW c \in Calls, PutValue(c) PROVE Goal
  BY <1>8 DEF PutValue, StoreChanges, blobVars
<1>9. ASSUME NEW c \in Calls, UnsetProperty(c) PROVE Goal
  BY <1>9 DEF UnsetProperty, blobVars
<1>10. ASSUME NEW c \in Calls, DeleteValue(c) PROVE Goal
  BY <1>10 DEF DeleteValue, StoreChanges, blobVars
<1>11. CASE Reload
  BY <1>11 DEF Reload
<1>. QED BY <1>1, <1>2, <1>3, <1>4, <1>5, <1>6, <1>7, <1>8, <1>9, <1>10, <1>11 DEF Next

LEMMA DetailsNext == IType /\ DetailsFollow /\ [NextH]_historyVars => DetailsFollow'
<1>. SUFFICES ASSUME IType, DetailsFollow, [NextH]_historyVars PROVE DetailsFollow'
  OBVIOUS
<1>1. CASE UNCHANGED historyVars
  BY <1>1 DEF historyVars, vars, blobVars, DetailsFollow, Details, Url
<1>2. CASE NextH
  <2>1. CASE details' = Details(stored)'
    BY <2>1 DEF DetailsFollow
  <2>2. CASE UNCHANGED <<ref, stored, details>>
    BY <1>2, <2>2 DEF NextH, DetailsFollow, Details, Url
  <2>3. ASSUME stored' = stored, NEW c \in Putting, SetBlob(c) PROVE DetailsFollow'
    <3>1. ref'.picture = call[c].picture
      BY <2>3 DEF Putting, Synced
    <3>. QED BY <1>2, <2>3, <3>1 DEF NextH, DetailsFollow
  <2>. QED BY <1>2, <2>1, <2>2, <2>3, ComputesOrKeeps DEF NextH
<1>. QED BY <1>1, <1>2

\* The details follow every change of the store and of its blobs, but for a
\* picture that is set again although the store has it.
THEOREM DetailsFollowing == SpecH => []DetailsFollow
<1>1. InitH => DetailsFollow
  BY DEF InitH, Init, DetailsFollow
<1>. QED BY HistorySteps, TypeHolds, <1>1, DetailsNext, PTL DEF SpecH

\* What gets a URL is uploaded or was, and what is in the hands of an upload
\* stays there until it is served or refused.
LEMMA ServedNext == IType /\ UrlIsServed /\ [NextH]_historyVars => UrlIsServed'
<1>. SUFFICES ASSUME IType, UrlIsServed, [NextH]_historyVars PROVE UrlIsServed'
  OBVIOUS
<1>1. CASE UNCHANGED historyVars
  BY <1>1 DEF historyVars, vars, blobVars, UrlIsServed, Url
<1>2. CASE NextH
  <2>. DEFINE Goal == Url' \in {Url, "pending"} \union infura' \union uploads' \union Ended
  <2>1. refused' = (refused \union Ended) \ infura'
    BY <1>2 DEF NextH
  <2>2. infura \subseteq infura' /\ Goal
    <3>1. CASE UNCHANGED vars
      BY <3>1 DEF vars, blobVars, Url
    <3>a. ASSUME NEW p \in Pictures \union {None}, StoreChanges(p)
          PROVE  infura \subseteq infura' /\ Goal
      BY <3>a, SyncFollows DEF StoreChanges, Url, NoRef, IType, TypeOK
    <3>2. CASE Replicated
      BY <3>2, <3>a DEF Replicated
    <3>3. ASSUME NEW t \in Tasks, Pinned(t) PROVE infura \subseteq infura' /\ Goal
      BY <3>3, AnswerFollows DEF Pinned, Url, Synced, IType, TypeOK
    <3>4. ASSUME NEW p \in Pictures, Uploaded(p) PROVE infura \subseteq infura' /\ Goal
      BY <3>4 DEF Uploaded, UploadEnds, Url
    <3>5. ASSUME NEW c \in Calls, NEW p \in Pictures, SetProperty(c, p)
          PROVE  infura \subseteq infura' /\ Goal
      BY <3>5 DEF SetProperty, blobVars, Url
    <3>6. ASSUME NEW c \in Calls, Add(c) PROVE infura \subseteq infura' /\ Goal
      BY <3>6 DEF Add, AddToIpfs, blobVars, Url
    <3>7. ASSUME NEW c \in Calls, SetBlob(c) PROVE infura \subseteq infura' /\ Goal
      <4>1. c \in Putting /\ Url' = call[c].picture
        BY <3>7, PuttingSets DEF Url, Synced
      <4>2. call[c].picture \in Ended
        BY <4>1 DEF Ended
      <4>. QED BY <3>7, <4>1, <4>2 DEF SetBlob, SetRef
    <3>8. ASSUME NEW c \in Calls, PutValue(c) PROVE infura \subseteq infura' /\ Goal
      <4>1. PICK p \in Pictures \union {None} : p = call[c].picture
        BY DEF IType, TypeOK
      <4>. QED BY <3>8, <3>a, <4>1 DEF PutValue, blobVars, Url
    <3>9. ASSUME NEW c \in Calls, UnsetProperty(c) PROVE infura \subseteq infura' /\ Goal
      BY <3>9 DEF UnsetProperty, blobVars, Url
    <3>10. ASSUME NEW c \in Calls, DeleteValue(c) PROVE infura \subseteq infura' /\ Goal
      BY <3>10, <3>a DEF DeleteValue, blobVars, Url
    <3>11. CASE Reload
      <4>1. stored \in Pictures \union {None}
        BY DEF IType, TypeOK
      <4>2. PICK b \in Fresh(stored) : ref' = b.ref
        BY <3>11 DEF Reload
      <4>. QED BY <3>11, <4>1, <4>2, FreshFollows DEF Reload, Url, NoRef
    <3>. QED BY <1>2, <3>2, <3>3, <3>4, <3>5, <3>6, <3>7, <3>8, <3>9, <3>10, <3>11 DEF NextH, Next
  <2>3. uploads \subseteq uploads' \union Ended
    BY DEF Ended
  <2>. QED BY <2>1, <2>2, <2>3 DEF UrlIsServed
<1>. QED BY <1>1, <1>2

\* A picture with a URL is served by Infura or being uploaded, unless an upload
\* of it failed or was cut off.
THEOREM UrlServed == SpecH => []UrlIsServed
<1>1. InitH => UrlIsServed
  <2>. SUFFICES ASSUME InitH PROVE UrlIsServed
    OBVIOUS
  <2>1. PICK p \in Pictures \union {None} : \E b \in Fresh(p) : ref = b.ref
    BY DEF InitH, Init
  <2>2. PICK b \in Fresh(p) : ref = b.ref
    BY <2>1
  <2>. QED BY <2>2, FreshFollows DEF Url, NoRef, UrlIsServed
<1>. QED BY HistorySteps, TypeHolds, <1>1, ServedNext, PTL DEF SpecH
=============================================================================
