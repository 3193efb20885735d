------------------------------- MODULE BlobStore -------------------------------
(***************************************************************************)
(* The blob store of a profile (identities/identity/utils/blob-store.js):  *)
(* the reference to its picture, the picture properties being one, and the *)
(* work on IPFS and Infura that references wait for.                       *)
(*                                                                         *)
(* A picture stands for its type and hash.  References are JavaScript      *)
(* objects that a sync compares by identity: `task` is that identity.      *)
(***************************************************************************)
CONSTANTS Pictures, \* types and hashes of blobs
          Tasks,    \* bound: identities of concurrent syncs
          None

ASSUME BlobAssumption == None \notin Pictures \union Tasks

VARIABLES ref,     \* #refs of the picture property
          task,    \* the picture that each sync in flight waits for
          pinned,  \* pictures the IPFS node of the wallet has pinned
          infura,  \* pictures that Infura serves
          uploads  \* pictures in the hands of maybeAddToInfura, unawaited

blobVars == <<ref, task, pinned, infura, uploads>>

NoRef == [picture |-> None, status |-> "none", task |-> None]
Synced(p) == [picture |-> p, status |-> "synced", task |-> None]

NoTasks == [t \in Tasks |-> None]

\* References and syncs of a new blob store once it was told to sync to p.
Fresh(p) ==
    IF p = None
      THEN {[ref |-> NoRef, task |-> NoTasks]}
      ELSE {[ref |-> [picture |-> p, status |-> "syncing", task |-> t],
             task |-> [NoTasks EXCEPT ![t] = p]] : t \in Tasks}

\* Identities of references that nothing holds.
Free == {t \in Tasks : task[t] = None /\ ref.task # t}

\* getUrl: only what is synced has one.
Url == IF ref.status = "synced" THEN ref.picture ELSE "pending"

\* Mutant of Sync: a reference that is not synced is synced again under its
\* old identity.
SyncInPlace(p) ==
    \/ /\ p = None
       /\ ref' = NoRef
       /\ UNCHANGED task
    \/ /\ p # None /\ ref.picture = p
       /\ UNCHANGED <<ref, task>>
    \/ /\ p # None /\ ref.picture # p
       /\ ref' = [picture |-> p, status |-> "syncing", task |-> ref.task]
       /\ UNCHANGED task

\* sync() up to its first wait: a reference that is gone is removed, one that
\* is new or differs starts to be pinned, whatever is in flight for it.
Sync(p) ==
    \/ /\ p = None
       /\ ref' = NoRef
       /\ UNCHANGED task
    \/ /\ p # None /\ ref.picture = p
       /\ UNCHANGED <<ref, task>>
    \/ /\ p # None /\ ref.picture # p
       /\ \E t \in Free :
             /\ ref' = [picture |-> p, status |-> "syncing", task |-> t]
             /\ task' = [task EXCEPT ![t] = p]

\* Mutant of PinAnswer: the identity of the reference is not compared.
PinAnswerToAny(t) ==
    /\ task[t] # None
    /\ task' = [task EXCEPT ![t] = None]
    /\ \/ /\ pinned' = pinned \union {task[t]}
          /\ uploads' = uploads \union {task[t]}
          /\ ref' = Synced(task[t])
       \/ /\ ref' = [picture |-> task[t], status |-> "error", task |-> None]
          /\ UNCHANGED <<pinned, uploads>>
    /\ UNCHANGED infura

\* Mutant of PinAnswer: Infura is not made sure to have the picture.
PinAnswerWithoutUpload(t) ==
    /\ task[t] # None
    /\ task' = [task EXCEPT ![t] = None]
    /\ \/ /\ pinned' = pinned \union {task[t]}
          /\ ref' = IF ref.task = t THEN Synced(task[t]) ELSE ref
       \/ /\ ref' = IF ref.task = t
                      THEN [picture |-> task[t], status |-> "error", task |-> None]
                      ELSE ref
          /\ UNCHANGED pinned
    /\ UNCHANGED <<infura, uploads>>

\* syncAdded once IPFS pinned the picture or rejected: the reference is replaced
\* only if it is still the very object that this sync has set.
PinAnswer(t) ==
    /\ task[t] # None
    /\ task' = [task EXCEPT ![t] = None]
    /\ \/ /\ pinned' = pinned \union {task[t]}
          /\ uploads' = uploads \union {task[t]}
          /\ ref' = IF ref.task = t THEN Synced(task[t]) ELSE ref
       \/ /\ ref' = IF ref.task = t
                      THEN [picture |-> task[t], status |-> "error", task |-> None]
                      ELSE ref
          /\ UNCHANGED <<pinned, uploads>>
    /\ UNCHANGED infura

\* maybeAddToInfura ends: Infura has the picture, or takes it, or it fails and
\* only a warning is printed.
UploadEnds(p) ==
    /\ p \in uploads
    /\ uploads' = uploads \ {p}
    /\ infura' \in {infura, infura \union {p}}
    /\ UNCHANGED <<ref, task, pinned>>

\* The picture of a put() is on IPFS; pinned there by the same request.
AddToIpfs(p) ==
    /\ pinned' = pinned \union {p}
    /\ UNCHANGED <<ref, task, infura, uploads>>

\* The rest of put(): a failure to add to Infura is only warned about.
SetRef(p) ==
    /\ infura' \in {infura, infura \union {p}}
    /\ ref' = Synced(p)
    /\ UNCHANGED <<task, pinned, uploads>>

BlobTypeOK ==
    /\ ref \in [picture : Pictures \union {None}, status : {"none", "syncing", "synced", "error"},
                task : Tasks \union {None}]
    /\ task \in [Tasks -> Pictures \union {None}]
    /\ pinned \subseteq Pictures
    /\ infura \subseteq Pictures
    /\ uploads \subseteq Pictures
=============================================================================
