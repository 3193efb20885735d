------------------------------- MODULE Sessions -------------------------------
(***************************************************************************)
(* The sessions of the wallet (sessions/index.js, sessions/session) and    *)
(* what reaches them from the identities: loads, removals, revocations and *)
(* link changes of apps, local or replicated.                              *)
(*                                                                         *)
(* create() and destroy() wait for the database and for OrbitDB several    *)
(* times; at each wait any other call, handler or replicated write may     *)
(* run, either service may reject during an outage, and the process may    *)
(* end.  Handlers start destroy() calls of their own, so the calls of      *)
(* destroy(s) in flight are counted by the wait they stand at.             *)
(***************************************************************************)
EXTENDS Apps, Naturals

CONSTANTS SessionIds,  \* ids nanoid can return; an id nothing refers to is new
          CreateCalls, \* identities of concurrent create() calls
          MaxDestroys, \* bound: destroy(s) calls told apart at each wait
          Events,      \* bound: the kinds of outside events that happen
          None

ASSUME SessionsAssumption ==
    /\ MaxDestroys \in Nat \ {0}
    /\ Events \subseteq {"outage", "expiry", "revokeApp", "replication",
                         "revokeDevice", "removeIdentity", "reload"}
    /\ None \notin SessionIds \union Ids \union AppIds

VARIABLES live,          \* the keys of #sessions
          disk,          \* the session descriptors in storage
          of,            \* identity and app of each session, any until it is stored
          expired,       \* stored sessions whose expiresAt has passed
          create,        \* the create() calls in flight
          destroying,    \* for each session, the destroy() calls at each wait
          loaded,        \* identities.isLoaded(); our listeners exist then
          loadUnlinks,   \* unlinks started by handleIdentitiesLoad
          present,       \* identities of the wallet
          deviceRevoked, \* identities whose device entry carries revokedAt
          marked,        \* identities whose stored descriptor says revoked
          revoked,       \* identities for which isRevoked() holds
          marking,       \* identities inside handleDevicesCurrentRevoke
          outage         \* whether storage and OrbitDB may reject now

sessionVars == <<live, disk, of, expired>>
taskVars == <<create, destroying, loadUnlinks>>
identityVars == <<present, deviceRevoked, marked, revoked, marking>>
vars == <<sessionVars, taskVars, identityVars, appsVars, loaded, outage>>

CreatePcs == {"remove", "unlink", "store", "add", "link", "linking", "cleanup"}

DestroyCounts == [remove : 0..MaxDestroys, unlink : 0..MaxDestroys]

NoCall == [pc |-> "idle", id |-> None, app |-> None, session |-> None]

CreateRecords ==
    {NoCall} \union [pc : CreatePcs, id : Ids, app : AppIds, session : SessionIds \union {None}]

\* destroy() waits for removeSession, then for unlinkCurrentDevice.
NoDestroys == [remove |-> 0, unlink |-> 0]

Init ==
    /\ AppsInit
    /\ live = {} /\ disk = {} /\ expired = {}
    /\ of \in [SessionIds -> [id : Ids, app : AppIds]]
    /\ create = [c \in CreateCalls |-> NoCall]
    /\ destroying = [s \in SessionIds |-> NoDestroys]
    /\ loaded = FALSE
    /\ loadUnlinks = {}
    /\ present = Ids
    /\ deviceRevoked = {} /\ marked = {} /\ revoked = {} /\ marking = {}
    /\ outage = FALSE

-----------------------------------------------------------------------------
SessionsOf(i) == {s \in live : of[s].id = i}
SessionsFor(i, a) == {s \in live : of[s] = [id |-> i, app |-> a]}

Referred(s) ==
    \/ s \in live \union disk
    \/ destroying[s] # NoDestroys
    \/ \E c \in CreateCalls : create[c].session = s

\* Handlers may start destroy() on a session again and again, so calls at the
\* same wait beyond MaxDestroys are merged.
OneMore(n) == IF n < MaxDestroys THEN n + 1 ELSE n

\* Starts destroy() for each session of S on top of the calls of d.
Destroy(d, S) ==
    destroying' = [s \in SessionIds |->
                     IF s \in S THEN [d[s] EXCEPT !.remove = OneMore(@)] ELSE d[s]]

Destroyed(s, from) == [destroying EXCEPT ![s][from] = @ - 1]

\* Mutant of HandleUnlink: link changes are not listened to.
UnlinkUnheard(d, i, a) == Destroy(d, {})

\* handleLinkCurrentChange after an unlink: find() yields one session.
HandleUnlink(d, i, a) ==
    IF SessionsFor(i, a) = {}
      THEN Destroy(d, {})
      ELSE \E s \in SessionsFor(i, a) : Destroy(d, {s})

\* destroy() goes on to unlink the device only for a loaded identity that is
\* there and linked.
NeedsUnlink(s) == loaded /\ of[s].id \in present /\ of[s].app \in links[of[s].id]

\* removeSession, then delete: when storage rejects, nothing has changed.
\* Storage is read only by the next process, so its write is moved to the turn
\* that goes on after it: the end of the process between the two is the end
\* right after both.  The same holds for createSession in StoreSession.
Forget(s) ==
    /\ disk' = disk \ {s}
    /\ live' = live \ {s}
    /\ expired' = expired \ {s}

-----------------------------------------------------------------------------
(* create().                                                               *)

Goto(c, pc) == create' = [create EXCEPT ![c].pc = pc]
Continue(c, pc, s) == create' = [create EXCEPT ![c].pc = pc, ![c].session = s]
Settle(c) == create' = [create EXCEPT ![c] = NoCall]

\* What a call holds on to across its waits.
NewCall(pc, i, a, s) == [pc |-> pc, id |-> i, app |-> a, session |-> s]

\* Mutant of Create: an expired session does not count as one.
CreateBesidesExpired(c, i, a) ==
    /\ create[c] = NoCall
    /\ loaded
    /\ i \in present
    /\ i \notin revoked
    /\ SessionsFor(i, a) \subseteq expired
    /\ create' = [create EXCEPT ![c] = NewCall("store", i, a, None)]
    /\ UNCHANGED <<sessionVars, destroying, loadUnlinks, identityVars, appsVars, loaded, outage>>

\* A valid session is returned at once; an expired one is destroyed first.
Create(c, i, a) ==
    /\ create[c] = NoCall
    /\ loaded
    /\ i \in present
    /\ i \notin revoked
    /\ \/ /\ SessionsFor(i, a) = {}
          /\ create' = [create EXCEPT ![c] = NewCall("store", i, a, None)]
       \/ \E s \in SessionsFor(i, a) \intersect expired :
             create' = [create EXCEPT ![c] = NewCall("remove", i, a, s)]
    /\ UNCHANGED <<sessionVars, destroying, loadUnlinks, identityVars, appsVars, loaded, outage>>

CreateRemovesOld(c) ==
    /\ create[c].pc = "remove"
    /\ LET s == create[c].session
       IN  \/ /\ Forget(s)
              /\ IF NeedsUnlink(s)
                   THEN Goto(c, "unlink")
                   ELSE Continue(c, "store", None)
           \/ /\ outage
              /\ Settle(c)
              /\ UNCHANGED <<live, disk, expired>>
    /\ UNCHANGED <<of, destroying, loadUnlinks, identityVars, appsVars, loaded, outage>>

CreateUnlinksOld(c) ==
    /\ create[c].pc = "unlink"
    /\ Continue(c, "store", None)
    /\ \/ /\ DelLink(create[c].id, create[c].app)
          /\ HandleUnlink(destroying, create[c].id, create[c].app)
       \/ /\ outage \/ create[c].id \notin present
          /\ UNCHANGED <<links, destroying>>
    /\ UNCHANGED <<sessionVars, loadUnlinks, identityVars, apps, revoking, loaded, outage>>

\* Mutant of StoreSession: the session does not wait for storage.
StoreUnawaited(c) ==
    /\ create[c].pc = "store"
    /\ \E s \in SessionIds :
          /\ ~Referred(s)
          /\ disk' \in {disk \union {s}} \union (IF outage THEN {disk} ELSE {})
          /\ live' = live \union {s}
          /\ expired' = expired \ {s}
          /\ of' = [of EXCEPT ![s] = [id |-> create[c].id, app |-> create[c].app]]
          /\ Continue(c, "add", s)
    /\ UNCHANGED <<destroying, loadUnlinks, identityVars, appsVars, loaded, outage>>

\* createSession stores the descriptor; the session is entered in #sessions
\* before the app is added and linked.
StoreSession(c) ==
    /\ create[c].pc = "store"
    /\ \/ \E s \in SessionIds :
             /\ ~Referred(s)
             /\ disk' = disk \union {s}
             /\ live' = live \union {s}
             /\ expired' = expired \ {s}
             /\ of' = [of EXCEPT ![s] = [id |-> create[c].id, app |-> create[c].app]]
             /\ Continue(c, "add", s)
       \/ /\ outage
          /\ Settle(c)
          /\ UNCHANGED sessionVars
    /\ UNCHANGED <<destroying, loadUnlinks, identityVars, appsVars, loaded, outage>>

\* The catch block: the session leaves #sessions, then storage.
Abandon(c) ==
    /\ live' = live \ {create[c].session}
    /\ Goto(c, "cleanup")

\* The stores of an identity removed meanwhile may or may not accept writes,
\* which are lost in either case.
AddApp(c) ==
    /\ create[c].pc = "add"
    /\ \/ /\ IF create[c].id \in present THEN PutApp(create[c].id, create[c].app) ELSE UNCHANGED apps
          /\ Goto(c, "link")
          /\ UNCHANGED live
       \/ /\ outage \/ create[c].id \notin present
          /\ Abandon(c)
          /\ UNCHANGED apps
    /\ UNCHANGED <<disk, of, expired, destroying, loadUnlinks, identityVars, links, revoking, loaded, outage>>

\* linkCurrentDevice throws for an unknown app and returns when linked.
LinkApp(c) ==
    /\ create[c].pc = "link"
    /\ LET gone == create[c].id \notin present
           known == create[c].app \in apps[create[c].id]
           linked == create[c].app \in links[create[c].id]
       IN  \/ (gone \/ ~known) /\ Abandon(c)
           \/ (gone \/ (known /\ linked)) /\ Settle(c) /\ UNCHANGED live
           \/ (~gone /\ known /\ ~linked) /\ Goto(c, "linking") /\ UNCHANGED live
    /\ UNCHANGED <<disk, of, expired, destroying, loadUnlinks, identityVars, appsVars, loaded, outage>>

PutLinkOfSession(c) ==
    /\ create[c].pc = "linking"
    /\ \/ /\ IF create[c].id \in present THEN PutLink(create[c].id, create[c].app) ELSE UNCHANGED links
          /\ Settle(c)
          /\ UNCHANGED live
       \/ /\ outage \/ create[c].id \notin present
          /\ Abandon(c)
          /\ UNCHANGED links
    /\ UNCHANGED <<disk, of, expired, destroying, loadUnlinks, identityVars, apps, revoking, loaded, outage>>

\* A rejection of storage is swallowed.
CleanupSession(c) ==
    /\ create[c].pc = "cleanup"
    /\ \/ disk' = disk \ {create[c].session}
       \/ outage /\ UNCHANGED disk
    /\ expired' = expired \intersect disk'
    /\ Settle(c)
    /\ UNCHANGED <<live, of, destroying, loadUnlinks, identityVars, appsVars, loaded, outage>>

-----------------------------------------------------------------------------
(* destroy().                                                              *)

OwnerDestroys(s) ==
    /\ s \in live
    /\ Destroy(destroying, {s})
    /\ UNCHANGED <<sessionVars, create, loadUnlinks, identityVars, appsVars, loaded, outage>>

\* Mutant of RemoveStored: the session is forgotten before storage answers.
RemoveStoredEagerly(s) ==
    /\ destroying[s].remove > 0
    /\ live' = live \ {s}
    /\ \/ disk' = disk \ {s} /\ expired' = expired \ {s}
       \/ outage /\ UNCHANGED <<disk, expired>>
    /\ destroying' = Destroyed(s, "remove")
    /\ UNCHANGED <<of, create, loadUnlinks, identityVars, appsVars, loaded, outage>>

RemoveStored(s) ==
    /\ destroying[s].remove > 0
    /\ \/ /\ Forget(s)
          /\ destroying' = IF NeedsUnlink(s)
                             THEN [Destroyed(s, "remove") EXCEPT ![s].unlink = OneMore(@)]
                             ELSE Destroyed(s, "remove")
       \/ /\ outage
          /\ destroying' = Destroyed(s, "remove")
          /\ UNCHANGED <<live, disk, expired>>
    /\ UNCHANGED <<of, create, loadUnlinks, identityVars, appsVars, loaded, outage>>

\* A rejection of OrbitDB is logged; destroy() succeeds all the same.
UnlinkDestroyed(s) ==
    /\ destroying[s].unlink > 0
    /\ \/ /\ DelLink(of[s].id, of[s].app)
          /\ HandleUnlink(Destroyed(s, "unlink"), of[s].id, of[s].app)
       \/ /\ outage \/ of[s].id \notin present
          /\ destroying' = Destroyed(s, "unlink")
          /\ UNCHANGED links
    /\ UNCHANGED <<sessionVars, create, loadUnlinks, identityVars, apps, revoking, loaded, outage>>

-----------------------------------------------------------------------------
(* Apps of an identity: the owner revokes one, other devices write.        *)

\* apps.revoke(): first the links, as they are at the call, then the app.
RevokeApp(i, a) ==
    /\ "revokeApp" \in Events
    /\ loaded
    /\ i \in present
    /\ revoking[i][a] = "idle"
    /\ Revoking(i, a, IF a \in links[i] THEN "unlink" ELSE "delete")
    /\ UNCHANGED <<sessionVars, taskVars, identityVars, apps, links, loaded, outage>>

RevokeUnlinks(i, a) ==
    /\ revoking[i][a] = "unlink"
    /\ \/ /\ DelLink(i, a)
          /\ HandleUnlink(destroying, i, a)
          /\ Revoking(i, a, "delete")
       \/ /\ outage \/ i \notin present
          /\ Revoking(i, a, "idle")
          /\ UNCHANGED <<links, destroying>>
    /\ UNCHANGED <<sessionVars, create, loadUnlinks, identityVars, apps, loaded, outage>>

\* The write event of the apps store dispatches no link change.
RevokeDeletes(i, a) ==
    /\ revoking[i][a] = "delete"
    /\ Revoking(i, a, "idle")
    /\ \/ DelApp(i, a)
       \/ (outage \/ i \notin present) /\ UNCHANGED apps
    /\ UNCHANGED <<sessionVars, taskVars, identityVars, links, loaded, outage>>

\* Replication stops once the revocation of this device has been handled.
Replicates(i) == "replication" \in Events /\ loaded /\ i \in present /\ (i \in revoked => i \in marking)

\* Another device revokes an app: its link and its entry arrive separately,
\* and what disappears from list() is dispatched as an unlink.
RemoteUnlink(i, a) ==
    /\ Replicates(i)
    /\ a \in links[i]
    /\ DelLink(i, a)
    /\ IF a \in apps[i] THEN HandleUnlink(destroying, i, a) ELSE UNCHANGED destroying
    /\ UNCHANGED <<sessionVars, create, loadUnlinks, identityVars, apps, revoking, loaded, outage>>

RemoteDelApp(i, a) ==
    /\ Replicates(i)
    /\ a \in apps[i]
    /\ DelApp(i, a)
    /\ IF a \in links[i] THEN HandleUnlink(destroying, i, a) ELSE UNCHANGED destroying
    /\ UNCHANGED <<sessionVars, create, loadUnlinks, identityVars, links, revoking, loaded, outage>>

RemotePutApp(i, a) ==
    /\ Replicates(i)
    /\ a \notin apps[i]
    /\ PutApp(i, a)
    /\ UNCHANGED <<sessionVars, taskVars, identityVars, links, revoking, loaded, outage>>

-----------------------------------------------------------------------------
(* Identities.                                                             *)

\* The entry of this device replicates with revokedAt: the identity is
\* revoked in memory at once, then waits to be marked in storage.
DeviceRevoked(i) ==
    /\ "revokeDevice" \in Events
    /\ loaded
    /\ i \in present
    /\ i \notin deviceRevoked
    /\ deviceRevoked' = deviceRevoked \union {i}
    /\ revoked' = revoked \union {i}
    /\ marking' = marking \union {i}
    /\ UNCHANGED <<sessionVars, taskVars, present, marked, appsVars, loaded, outage>>

\* Mutant of RevocationHandled: the sessions are not told.
RevocationUnheard(i) ==
    /\ i \in marking
    /\ marking' = marking \ {i}
    /\ marked' = marked \union {i}
    /\ UNCHANGED <<sessionVars, taskVars, present, deviceRevoked, revoked, appsVars, loaded, outage>>

\* handleDevicesCurrentRevoke ends, whether or not storage took the mark, and
\* handleIdentityRevoke destroys the sessions there are.  The mark is encrypted:
\* storage.set waits for the secret (storage/index.js:57-58) for as long as the
\* wallet stays locked, so nothing here says that this step is ever taken.
RevocationHandled(i) ==
    /\ i \in marking
    /\ marking' = marking \ {i}
    /\ revoked' = revoked \union {i}
    /\ \/ marked' = IF i \in present THEN marked \union {i} ELSE marked
       \/ outage /\ UNCHANGED marked
    /\ Destroy(destroying, SessionsOf(i))
    /\ UNCHANGED <<sessionVars, create, loadUnlinks, present, deviceRevoked, appsVars, loaded, outage>>

\* identities.remove() ends and handleIdentitiesChange destroys the sessions.
RemoveIdentity(i) ==
    /\ "removeIdentity" \in Events
    /\ loaded
    /\ i \in present
    /\ present' = present \ {i}
    /\ marked' = marked \ {i}
    /\ DropApps(i)
    /\ Destroy(destroying, SessionsOf(i))
    /\ UNCHANGED <<sessionVars, create, loadUnlinks, deviceRevoked, revoked, marking, revoking, loaded, outage>>

\* Mutant of HandleLoad: links left over by a previous process are kept.
HandleLoadKeepsLinks ==
    /\ UNCHANGED loadUnlinks
    /\ Destroy(destroying, {s \in live : of[s].id \notin present \ revoked})

\* handleIdentitiesLoad: unlink the apps listed without a session, destroy
\* the sessions whose identity is gone or revoked.
HandleLoad ==
    /\ loadUnlinks' = {p \in Ids \X AppIds :
                         /\ p[1] \in present
                         /\ p[2] \in Listed(p[1])
                         /\ SessionsFor(p[1], p[2]) = {}}
    /\ Destroy(destroying, {s \in live : of[s].id \notin present \ revoked})

\* The first load() of the process ends.  An identity whose device was
\* revoked but that was not marked so sets itself a timer to be revoked.
Load ==
    /\ ~loaded
    /\ loaded' = TRUE
    /\ marking' = (deviceRevoked \intersect present) \ revoked
    /\ HandleLoad
    /\ UNCHANGED <<sessionVars, create, present, deviceRevoked, marked, revoked, appsVars, outage>>

UnlinkAfterLoad(i, a) ==
    /\ <<i, a>> \in loadUnlinks
    /\ loadUnlinks' = loadUnlinks \ {<<i, a>>}
    /\ \/ /\ DelLink(i, a)
          /\ HandleUnlink(destroying, i, a)
       \/ /\ outage \/ i \notin present
          /\ UNCHANGED <<links, destroying>>
    /\ UNCHANGED <<sessionVars, create, identityVars, apps, revoking, loaded, outage>>

-----------------------------------------------------------------------------
(* The environment.                                                        *)

Expire(s) ==
    /\ "expiry" \in Events
    /\ s \in disk \ expired
    /\ expired' = expired \union {s}
    /\ UNCHANGED <<live, disk, of, taskVars, identityVars, appsVars, loaded, outage>>

OutageChanges ==
    /\ "outage" \in Events
    /\ outage' = ~outage
    /\ UNCHANGED <<sessionVars, taskVars, identityVars, appsVars, loaded>>

\* The process ends and createSessions runs in a new one: loadSessions drops
\* the expired sessions and removes them from storage if it can.
Reload ==
    /\ "reload" \in Events
    /\ live' = disk \ expired
    /\ disk' \in {disk, disk \ expired}
    /\ expired' = expired \intersect disk'
    /\ create' = [c \in CreateCalls |-> NoCall]
    /\ destroying' = [s \in SessionIds |-> NoDestroys]
    /\ loadUnlinks' = {}
    /\ loaded' = FALSE
    /\ revoked' = marked
    /\ marking' = {}
    /\ revoking' = [i \in Ids |-> [a \in AppIds |-> "idle"]]
    /\ UNCHANGED <<of, present, deviceRevoked, marked, apps, links, outage>>

-----------------------------------------------------------------------------
CreateContinues(c) ==
    \/ CreateRemovesOld(c)
    \/ CreateUnlinksOld(c)
    \/ StoreSession(c)
    \/ AddApp(c)
    \/ LinkApp(c)
    \/ PutLinkOfSession(c)
    \/ CleanupSession(c)

Step ==
    \/ \E c \in CreateCalls :
          \/ \E i \in Ids, a \in AppIds : Create(c, i, a)
          \/ CreateContinues(c)
    \/ \E s \in SessionIds :
          \/ OwnerDestroys(s)
          \/ RemoveStored(s)
          \/ UnlinkDestroyed(s)
          \/ Expire(s)
    \/ \E i \in Ids, a \in AppIds :
          \/ RevokeApp(i, a)
          \/ RevokeUnlinks(i, a)
          \/ RevokeDeletes(i, a)
          \/ RemoteUnlink(i, a)
          \/ RemoteDelApp(i, a)
          \/ RemotePutApp(i, a)
          \/ UnlinkAfterLoad(i, a)
    \/ \E i \in Ids : DeviceRevoked(i) \/ RevocationHandled(i) \/ RemoveIdentity(i)
    \/ Load
    \/ Reload

Next == Step \/ OutageChanges

Spec == Init /\ [][Next]_vars

-----------------------------------------------------------------------------
TypeOK ==
    /\ AppsTypeOK
    /\ live \subseteq SessionIds
    /\ disk \subseteq SessionIds
    /\ expired \subseteq SessionIds
    /\ of \in [SessionIds -> [id : Ids, app : AppIds]]
    /\ create \in [CreateCalls -> CreateRecords]
    /\ destroying \in [SessionIds -> DestroyCounts]
    /\ loaded \in BOOLEAN
    /\ loadUnlinks \subseteq Ids \X AppIds
    /\ present \subseteq Ids
    /\ deviceRevoked \subseteq Ids
    /\ marked \subseteq Ids
    /\ revoked \subseteq Ids
    /\ marking \subseteq Ids
    /\ outage \in BOOLEAN

Quiet ==
    /\ \A c \in CreateCalls : create[c] = NoCall
    /\ \A s \in SessionIds : destroying[s] = NoDestroys
    /\ loadUnlinks = {}
    /\ marking = {}
    /\ \A i \in Ids, a \in AppIds : revoking[i][a] = "idle"

\* Whatever fails or interleaves, a session the owner can use is in storage:
\* a reload does not lose it before it expires.
LiveIsStored == live \subseteq disk

\* create() refuses revoked identities ("Unable to create session for revoked
\* identity", sessions/index.js:46): when everything has settled, no usable
\* session belongs to a revoked identity.
NoSessionOfRevoked == loaded /\ Quiet => \A s \in live : of[s].id \notin revoked

-----------------------------------------------------------------------------
(* The sessions as the owner sees them.                                    *)

\* Stored and not live: what only the next process would show.
Leftover == disk \ (live \union expired)

\* The sessions of create() calls that have not returned.
Held == {create[c].session : c \in {d \in CreateCalls : create[d].pc \in {"add", "link", "linking"}}}

Book == INSTANCE SessionBook WITH
            Sessions <- SessionIds,
            valid <- live \ expired,
            starting <- (live \ expired) \intersect Held,
            failed <- Leftover

\* Through the waits of create() and destroy(), outages, expiry, replicated
\* changes and reloads, the sessions behave as SessionBook says: each call
\* takes effect in one step or is undone, a reload loses no session, and none
\* that create() has returned is restored after it was destroyed or expired.
SessionBookSpec == Book!Spec
=============================================================================
