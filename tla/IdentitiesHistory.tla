--------------------------- MODULE IdentitiesHistory ---------------------------
(***************************************************************************)
(* Identities with auxiliary variables for the failures that the code      *)
(* admits, so that everything else is held to the properties below.        *)
(***************************************************************************)
EXTENDS Identities

VARIABLES halfMade,    \* stored, though the create() or import() did not succeed
          halfRemoved, \* with things left behind by a removal that was cut off
          remarked,    \* marked as revoked on behalf of a device that was removed
          orphans      \* devices of create() and import() calls that did not succeed

historyVars == <<vars, halfMade, halfRemoved, remarked, orphans>>

InitH ==
    /\ Init
    /\ halfMade = {} /\ halfRemoved = {} /\ remarked = {} /\ orphans = {}

\* Calls of create() or import() that end in this step without an identity.
Failed == {c \in Callers : /\ calls[c].op \in {"create", "import"}
                           /\ calls'[c] = NoCall
                           /\ identities'[calls[c].id].device # calls[c].device}

\* Removals that end in this step though the identity is only partly removed
\* (the stores of apps, the last, hold nothing modelled here).
CutOff == {c \in Callers : /\ calls'[c] = NoCall
                           /\ \/ At(c, "removeDevice") \/ At(c, "dropDevices")
                              \/ At(c, "dropProfile")
                              \/ At(c, "dropApps") /\ identities'[calls[c].id] # NoIdentity}

\* Removals of a backup that fail, or are lost with the process.
BackupKept == {i \in removingBackup \ removingBackup' : i \in backup'}

\* A mark written once its identity was removed, or its descriptor at least.
Late(i, d) ==
    /\ descriptor'[i] # descriptor[i]
    /\ i \notin Stored \/ identities[i].device # d

NextH ==
    /\ Next
    /\ halfMade' = {i \in halfMade \union {calls[c].id : c \in Failed} : descriptor'[i] # "none"}
    /\ halfRemoved' = halfRemoved \union {calls[c].id : c \in CutOff} \union BackupKept
    /\ remarked' = remarked \union
          {m[1] : m \in {p \in marking \ marking' : Late(p[1], p[2])}}
    /\ orphans' = orphans \union {calls[c].device : c \in Failed}

SpecH == InitH /\ [][NextH]_historyVars

-----------------------------------------------------------------------------
\* Calls overlap, but not on one identity: an import or removal of an identity
\* waits for the last one to end.  The theorems about the properties assume it.
Apart ==
    \A b, c \in Callers :
       b # c /\ calls[b] # NoCall /\ calls[c] # NoCall => calls[b].id # calls[c].id

InFlight(i) == {c \in Callers : calls[c].id = i}

\* load() restores every identity or none.  Whenever the process ends, each
\* stored descriptor can be restored, unless its creation was cut off or it was
\* written back by a late mark: a removal cut off anywhere never stops the
\* other identities from loading.
EveryDescriptorLoads ==
    \A i \in Stored :
       i \in halfMade \union remarked \/ CanRestore(i) \/ \E c \in InFlight(i) : calls[c].op # "remove"

\* An identity of the wallet survives a reload, as the same device, unless its
\* removal is under way or was cut off.
IdentityIsStored ==
    \A i \in Ids :
       \/ identities[i] = NoIdentity
       \/ i \in Stored /\ deviceKey[i] = identities[i].device
       \/ i \in halfRemoved
       \/ \E c \in InFlight(i) : calls[c].pc \in Removing

\* What is not in the wallet, once nothing is in flight, has left neither the
\* private keys of the device nor the backup of the master key in storage,
\* unless a failure cut its creation or its removal off.
NothingLeftBehind ==
    loaded =>
       \A i \in Ids :
          \/ identities[i] # NoIdentity
          \/ i \in halfMade \union halfRemoved \union remarked \union removingBackup
          \/ InFlight(i) # {}
          \/ i \notin Stored \union backup /\ deviceKey[i] = None /\ entries[i] = {}

\* The DID document holds the key of the device of an identity in the wallet
\* and of no device that was removed or revoked, except for devices of create()
\* and import() calls that failed.
OnlyOwnKeys ==
    loaded =>
       \A i \in Ids :
          \/ didKeys[i] \subseteq {identities[i].device} \union orphans
                                     \union {calls[c].device : c \in InFlight(i)}
          \/ i \in remarked

-----------------------------------------------------------------------------
(* The identities as their owner sees them.                                *)

\* The device as which load() restores an identity, if it does.
HeldAs(i) == IF i \in Stored /\ CanRestore(i) THEN deviceKey[i] ELSE None

Owned == INSTANCE Holdings WITH
             held <- [i \in Ids |-> HeldAs(i)],
             shown <- [i \in Ids |-> identities[i].device],
             torn <- halfMade \union halfRemoved \union remarked

\* Although createIdentity and removeIdentity write one thing after the other,
\* may be cut off at each, and revocations are marked beside them, create(),
\* import() and remove() take effect in one step, the writes of the entry and
\* of the descriptor, or not at all; and load() shows just what they left.
HoldingsSpec == Owned!Spec
=============================================================================
