---------------------------- MODULE SessionsHistory ----------------------------
(***************************************************************************)
(* Sessions with auxiliary variables that remember what the properties on  *)
(* failures and reloads refer to.                                          *)
(***************************************************************************)
EXTENDS Sessions

VARIABLES leaked,    \* sessions whose cleanup after a failed create() failed
          doubtful,  \* sessions of an earlier process, or that saw an outage,
                     \* the deletion of their app or a twin
          repairing, \* load() ran; no outage, create() or new app entry since
          doomed,    \* sessions that a revocation met and that storage did not
                     \* refuse to remove since
          spoiled    \* identities and apps of a cleanup that failed or of
                     \* create() calls that overlapped, until nothing is left

historyVars == <<vars, leaked, doubtful, repairing, doomed, spoiled>>

\* The app of s is gone although create() has added it.
AppDeleted(s) ==
    /\ of[s].app \notin apps[of[s].id]
    /\ \A c \in CreateCalls : create[c].session = s => create[c].pc # "add"

\* Two sessions of one identity and app: create() and link changes see only
\* the first that find() returns.  Only a failed cleanup leads there.
HasTwin(s) == \E t \in live : t # s /\ of[t] = of[s]

\* A destroy(s) ended and s is still there: storage rejected removeSession.
Refused(s) == s \in live' /\ destroying'[s].remove < destroying[s].remove

\* The identities whose revocation is on its way: the device entry says so,
\* or load() finds it in there or in the stored descriptor.
BeingRevoked == IF loaded THEN marking' ELSE deviceRevoked' \union revoked'

Pairs == [id : Ids, app : AppIds]

\* The create() calls in flight for an identity and app.
CallsFor(p) == {c \in CreateCalls : create[c].pc # "idle" /\ create[c].id = p.id /\ create[c].app = p.app}

Overlap(p) == \E b, c \in CallsFor(p) : b # c

\* A failed create() for p ended without the removal of its session.
CleanupFails(p) == \E c \in CallsFor(p) : create[c].pc = "cleanup" /\ create[c].session \in leaked'

InUse(p) == CallsFor(p) # {} \/ \E s \in disk : of[s] = p

InitH ==
    /\ Init
    /\ leaked = {} /\ doubtful = {} /\ doomed = {} /\ spoiled = {}
    /\ repairing = FALSE

NextH ==
    /\ Next
    /\ leaked' = disk' \intersect
          (leaked \union {s \in SessionIds :
             \E c \in CreateCalls :
                create[c].pc = "cleanup" /\ create[c].session = s /\ create'[c].pc = "idle"})
    /\ doubtful' = IF ~loaded' \/ outage'
                     THEN live'
                     ELSE {s \in live' : s \in doubtful \/ AppDeleted(s)' \/ HasTwin(s)'}
    /\ repairing' = /\ loaded'
                    /\ ~outage'
                    /\ repairing \/ ~loaded
                    /\ \A c \in CreateCalls : create'[c] = NoCall
                    /\ \A i \in Ids : apps'[i] \subseteq apps[i]
    /\ doomed' = IF ~loaded'
                   THEN {}
                   ELSE {s \in live' : of'[s].id \in BeingRevoked \/ (s \in doomed /\ ~Refused(s))}
    /\ spoiled' = {p \in Pairs : InUse(p)' /\ (p \in spoiled \/ Overlap(p)' \/ CleanupFails(p))}

SpecH == InitH /\ [][NextH]_historyVars

-----------------------------------------------------------------------------
\* A session that left #sessions through destroy() or a failed create() is not
\* in storage either, so no reload brings it back: whatever is stored and not
\* live is being cleaned up, or storage refused to remove it (index.js:71).
DestroyedStaysDestroyed ==
    disk \ (live \union expired) \subseteq
       leaked \union {create[c].session : c \in {d \in CreateCalls : create[d].pc = "cleanup"}}

\* When everything has settled, a session that this process created without
\* an outage has its app linked to this device, so that revoking the app from
\* any device ends it; a session whose link was deleted under it is destroyed.
LiveSessionIsLinked ==
    loaded /\ Quiet =>
       \A s \in live \ doubtful :
          of[s].id \in present \ revoked => of[s].app \in links[of[s].id]

\* What the warnings "Will retry on reload" and "Will fix on reload" promise
\* for links without a session and for sessions of removed or revoked
\* identities: a load that no outage disturbs settles without any of them.
ReloadRepairs ==
    repairing /\ Quiet =>
       /\ \A i \in present : \A a \in Listed(i) : SessionsFor(i, a) # {}
       /\ \A s \in live : of[s].id \in present \ revoked

\* create() returns the session there is or destroys it first
\* (sessions/index.js:49-57), so an identity never has two sessions for one
\* app: destroy() calls, revocations, outages and reloads in between never make
\* create() miss the session that is there.  Two things lead to a second one,
\* and to more as long as one of them is left: create() calls that overlap for
\* one identity and app, which nothing in the code excludes, and the cleanup of
\* a failed create() that storage refused or the end of the process cut off.
OneSessionPerApp ==
    \A s, t \in live : of[s] = of[t] => s = t \/ of[s] \in spoiled

\* A revocation reaches every session that is there while it waits to be
\* marked in storage, or when a load() finds it (identity/index.js:35-39,
\* 97-116; sessions/index.js:171-174, 196-202): when everything has settled,
\* all of them are gone, however other destroy(), create() and unlink steps
\* interleave and wherever the process ends, unless storage refused to remove
\* one.  While the wallet stays locked the mark waits, nothing has settled and
\* the sessions stay usable: that the wait ends is not promised.
RevocationEndsSessions == Quiet => doomed = {}
=============================================================================
