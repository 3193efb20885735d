---------------------------- MODULE SessionsProofs ----------------------------
(***************************************************************************)
(* Theorems about Sessions, for every set of identities, apps, session ids *)
(* and concurrent calls, whatever fails and wherever the process ends.     *)
(***************************************************************************)
EXTENDS SessionsHistory, TLAPS

-----------------------------------------------------------------------------
\* Starting destroy() calls keeps their counts within the bound.
LEMMA DestroyCounted ==
    ASSUME NEW d \in [SessionIds -> DestroyCounts], NEW S, Destroy(d, S)
    PROVE  destroying' \in [SessionIds -> DestroyCounts]
<1>1. ASSUME NEW n \in 0..MaxDestroys PROVE OneMore(n) \in 0..MaxDestroys
  BY <1>1, SessionsAssumption DEF OneMore
<1>2. ASSUME NEW s \in SessionIds
      PROVE  [d[s] EXCEPT !.remove = OneMore(@)] \in DestroyCounts
  <2>1. d[s] \in DestroyCounts /\ OneMore(d[s].remove) \in 0..MaxDestroys
    BY <1>1 DEF DestroyCounts
  <2>2. QED
    BY <2>1 DEF DestroyCounts
<1>3. QED
  BY <1>2 DEF Destroy

\* So does hearing of an unlinked app.
LEMMA UnlinkCounted ==
    ASSUME NEW d \in [SessionIds -> DestroyCounts], NEW i, NEW a, HandleUnlink(d, i, a)
    PROVE  destroying' \in [SessionIds -> DestroyCounts]
BY DestroyCounted DEF HandleUnlink

\* A call that is there can end.
LEMMA DestroyedCounted ==
    ASSUME destroying \in [SessionIds -> DestroyCounts], NEW s \in SessionIds
    PROVE  /\ destroying[s].remove > 0 =>
                Destroyed(s, "remove") \in [SessionIds -> DestroyCounts]
           /\ destroying[s].unlink > 0 =>
                Destroyed(s, "unlink") \in [SessionIds -> DestroyCounts]
<1> USE SessionsAssumption DEF DestroyCounts, Destroyed
<1>1. destroying[s] \in DestroyCounts
  OBVIOUS
<1>2. ASSUME destroying[s].remove > 0
      PROVE  [destroying[s] EXCEPT !["remove"] = @ - 1] \in DestroyCounts
  BY <1>1, <1>2
<1>3. ASSUME destroying[s].unlink > 0
      PROVE  [destroying[s] EXCEPT !["unlink"] = @ - 1] \in DestroyCounts
  BY <1>1, <1>3
<1>4. QED
  BY <1>2, <1>3

\* A destroy() call that goes on to unlink is counted there.
LEMMA RemovedCounted ==
    ASSUME destroying \in [SessionIds -> DestroyCounts], NEW s \in SessionIds,
           RemoveStored(s)
    PROVE  destroying' \in [SessionIds -> DestroyCounts]
<1>1. Destroyed(s, "remove") \in [SessionIds -> DestroyCounts]
  BY DestroyedCounted DEF RemoveStored
<1>2. ASSUME NEW d \in [SessionIds -> DestroyCounts]
      PROVE  [d EXCEPT ![s].unlink = OneMore(@)] \in [SessionIds -> DestroyCounts]
  <2>1. d[s] \in DestroyCounts /\ OneMore(d[s].unlink) \in 0..MaxDestroys
    BY SessionsAssumption DEF DestroyCounts, OneMore
  <2>2. [d[s] EXCEPT !.unlink = OneMore(@)] \in DestroyCounts
    BY <2>1 DEF DestroyCounts
  <2>3. QED
    BY <2>2
<1>3. QED
  BY <1>1, <1>2 DEF RemoveStored

\* A create() call that goes on or settles stays a call.
LEMMA CallTyped ==
    ASSUME create \in [CreateCalls -> CreateRecords], NEW c \in CreateCalls,
           create[c].pc # "idle"
    PROVE  /\ create[c].id \in Ids /\ create[c].app \in AppIds
           /\ \A pc \in CreatePcs : Goto(c, pc) => create' \in [CreateCalls -> CreateRecords]
           /\ \A pc \in CreatePcs, s \in SessionIds \union {None} :
                 Continue(c, pc, s) => create' \in [CreateCalls -> CreateRecords]
           /\ Settle(c) => create' \in [CreateCalls -> CreateRecords]
           /\ Abandon(c) => create' \in [CreateCalls -> CreateRecords]
<1> DEFINE InFlight == [pc : CreatePcs, id : Ids, app : AppIds, session : SessionIds \union {None}]
<1>1. create[c] \in InFlight
  BY DEF CreateRecords, NoCall
<1>2. ASSUME NEW pc \in CreatePcs PROVE [create[c] EXCEPT !.pc = pc] \in CreateRecords
  BY <1>1 DEF CreateRecords
<1>3. ASSUME NEW pc \in CreatePcs, NEW s \in SessionIds \union {None}
      PROVE  [create[c] EXCEPT !.pc = pc, !.session = s] \in CreateRecords
  BY <1>1 DEF CreateRecords
<1>4. ASSUME NEW pc \in CreatePcs, Goto(c, pc) PROVE create' \in [CreateCalls -> CreateRecords]
  BY <1>2, <1>4 DEF Goto
<1>5. ASSUME NEW pc \in CreatePcs, NEW s \in SessionIds \union {None}, Continue(c, pc, s)
      PROVE  create' \in [CreateCalls -> CreateRecords]
  BY <1>3, <1>5 DEF Continue
<1>6. NoCall \in CreateRecords
  BY DEF CreateRecords
<1>7. QED
  BY <1>1, <1>4, <1>5, <1>6 DEF Settle, Abandon, CreatePcs

\* What create() begins with.
LEMMA NewCallTyped ==
    ASSUME NEW pc \in CreatePcs, NEW i \in Ids, NEW a \in AppIds,
           NEW s \in SessionIds \union {None}
    PROVE  NewCall(pc, i, a, s) \in CreateRecords
BY DEF NewCall, CreateRecords

-----------------------------------------------------------------------------
\* Where nothing is in flight.
LEMMA NothingTyped == NoCall \in CreateRecords /\ NoDestroys \in DestroyCounts
BY SessionsAssumption DEF CreateRecords, NoDestroys, DestroyCounts

\* Writes to the stores of an identity's apps keep their types.
LEMMA AppsWritten ==
    ASSUME TypeOK, NEW i \in Ids, NEW a \in AppIds
    PROVE  /\ PutApp(i, a) \/ DelApp(i, a) => apps' \in [Ids -> SUBSET AppIds]
           /\ PutLink(i, a) \/ DelLink(i, a) => links' \in [Ids -> SUBSET AppIds]
           /\ \A pc \in {"idle", "unlink", "delete"} :
                 Revoking(i, a, pc) =>
                    revoking' \in [Ids -> [AppIds -> {"idle", "unlink", "delete"}]]
<1> DEFINE Pcs == {"idle", "unlink", "delete"}
<1>1. /\ apps \in [Ids -> SUBSET AppIds] /\ links \in [Ids -> SUBSET AppIds]
      /\ revoking \in [Ids -> [AppIds -> Pcs]]
  BY DEF TypeOK, AppsTypeOK
<1>2. PutApp(i, a) \/ DelApp(i, a) => apps' \in [Ids -> SUBSET AppIds]
  BY <1>1 DEF PutApp, DelApp
<1>3. PutLink(i, a) \/ DelLink(i, a) => links' \in [Ids -> SUBSET AppIds]
  BY <1>1 DEF PutLink, DelLink
<1>4. ASSUME NEW pc \in Pcs, Revoking(i, a, pc) PROVE revoking' \in [Ids -> [AppIds -> Pcs]]
  <2>1. [revoking[i] EXCEPT ![a] = pc] \in [AppIds -> Pcs]
    BY <1>1
  <2>2. QED
    BY <1>1, <1>4, <2>1 DEF Revoking
<1>5. QED
  BY <1>2, <1>3, <1>4

\* No step breaks the types.
LEMMA SessionsTypeKept ==
    ASSUME TypeOK, [Next]_vars
    PROVE  TypeOK'
<1> USE DEF sessionVars, taskVars, identityVars, appsVars
<1>a. /\ create \in [CreateCalls -> CreateRecords]
      /\ destroying \in [SessionIds -> DestroyCounts]
  BY DEF TypeOK
<1>1. ASSUME NEW c \in CreateCalls, NEW i \in Ids, NEW a \in AppIds, Create(c, i, a)
      PROVE  TypeOK'
  <2>1. create' \in [CreateCalls -> CreateRecords]
    <3>1. CASE create' = [create EXCEPT ![c] = NewCall("store", i, a, None)]
      BY <1>a, <3>1, NewCallTyped DEF CreatePcs
    <3>2. ASSUME NEW s \in SessionIds,
                 create' = [create EXCEPT ![c] = NewCall("remove", i, a, s)]
          PROVE  create' \in [CreateCalls -> CreateRecords]
      BY <1>a, <3>2, NewCallTyped DEF CreatePcs
    <3>3. SessionsFor(i, a) \subseteq SessionIds
      BY DEF SessionsFor, TypeOK
    <3>4. QED
      BY <1>1, <3>1, <3>2, <3>3 DEF Create
  <2>2. QED
    BY <1>1, <2>1 DEF Create, TypeOK, AppsTypeOK
<1>2. ASSUME NEW c \in CreateCalls, CreateRemovesOld(c) PROVE TypeOK'
  <2>1. create[c].id \in Ids /\ create[c].app \in AppIds
    BY <1>2, <1>a, CallTyped DEF CreateRemovesOld
  <2>2. create' \in [CreateCalls -> CreateRecords]
    BY <1>2, <1>a, CallTyped DEF CreateRemovesOld, CreatePcs
  <2>3. QED
    BY <1>2, <2>1, <2>2 DEF CreateRemovesOld, Forget, TypeOK, AppsTypeOK
<1>3. ASSUME NEW c \in CreateCalls, CreateUnlinksOld(c) PROVE TypeOK'
  <2>1. create[c].id \in Ids /\ create[c].app \in AppIds
    BY <1>3, <1>a, CallTyped DEF CreateUnlinksOld
  <2>2. create' \in [CreateCalls -> CreateRecords]
    BY <1>3, <1>a, CallTyped DEF CreateUnlinksOld, CreatePcs
  <2>3. destroying' \in [SessionIds -> DestroyCounts]
    BY <1>3, <1>a, UnlinkCounted DEF CreateUnlinksOld
  <2>4. QED
    BY <1>3, <2>1, <2>2, <2>3, AppsWritten DEF CreateUnlinksOld, TypeOK, AppsTypeOK
<1>4. ASSUME NEW c \in CreateCalls, StoreSession(c) PROVE TypeOK'
  <2>1. create[c].id \in Ids /\ create[c].app \in AppIds
    BY <1>4, <1>a, CallTyped DEF StoreSession
  <2>2. create' \in [CreateCalls -> CreateRecords]
    BY <1>4, <1>a, CallTyped DEF StoreSession, CreatePcs
  <2>3. QED
    <3>1. CASE UNCHANGED sessionVars
      BY <1>4, <2>1, <2>2, <3>1 DEF StoreSession, TypeOK, AppsTypeOK
    <3>2. ASSUME NEW s \in SessionIds,
                 of' = [of EXCEPT ![s] = [id |-> create[c].id, app |-> create[c].app]]
          PROVE  of' \in [SessionIds -> [id : Ids, app : AppIds]]
      BY <2>1, <3>2 DEF TypeOK
    <3>3. ASSUME NEW s \in SessionIds,
                 disk' = disk \union {s} /\ live' = live \union {s} /\ expired' = expired \ {s},
                 of' \in [SessionIds -> [id : Ids, app : AppIds]]
          PROVE  TypeOK'
      BY <1>4, <2>2, <3>3 DEF StoreSession, TypeOK, AppsTypeOK
    <3>4. QED
      BY <1>4, <3>1, <3>2, <3>3 DEF StoreSession
<1>5. ASSUME NEW c \in CreateCalls, AddApp(c) PROVE TypeOK'
  <2>1. create[c].id \in Ids /\ create[c].app \in AppIds
    BY <1>5, <1>a, CallTyped DEF AddApp
  <2>2. create' \in [CreateCalls -> CreateRecords]
    BY <1>5, <1>a, CallTyped DEF AddApp, CreatePcs
  <2>3. QED
    <3>1. apps' \in [Ids -> SUBSET AppIds] /\ live' \subseteq SessionIds
      BY <1>5, <2>1, AppsWritten DEF AddApp, Abandon, TypeOK, AppsTypeOK
    <3>2. QED
      BY <1>5, <2>2, <3>1 DEF AddApp, TypeOK, AppsTypeOK
<1>6. ASSUME NEW c \in CreateCalls, LinkApp(c) PROVE TypeOK'
  <2>1. create[c].id \in Ids /\ create[c].app \in AppIds
    BY <1>6, <1>a, CallTyped DEF LinkApp
  <2>2. create' \in [CreateCalls -> CreateRecords]
    BY <1>6, <1>a, CallTyped DEF LinkApp, CreatePcs
  <2>3. QED
    BY <1>6, <2>1, <2>2 DEF LinkApp, Abandon, TypeOK, AppsTypeOK
<1>7. ASSUME NEW c \in CreateCalls, PutLinkOfSession(c) PROVE TypeOK'
  <2>1. create[c].id \in Ids /\ create[c].app \in AppIds
    BY <1>7, <1>a, CallTyped DEF PutLinkOfSession
  <2>2. create' \in [CreateCalls -> CreateRecords]
    BY <1>7, <1>a, CallTyped DEF PutLinkOfSession, CreatePcs
  <2>3. QED
    BY <1>7, <2>1, <2>2, AppsWritten DEF PutLinkOfSession, Abandon, TypeOK, AppsTypeOK
<1>8. ASSUME NEW c \in CreateCalls, CleanupSession(c) PROVE TypeOK'
  <2>1. create[c].id \in Ids /\ create[c].app \in AppIds
    BY <1>8, <1>a, CallTyped DEF CleanupSession
  <2>2. create' \in [CreateCalls -> CreateRecords]
    BY <1>8, <1>a, CallTyped DEF CleanupSession, CreatePcs
  <2>3. QED
    BY <1>8, <2>1, <2>2 DEF CleanupSession, TypeOK, AppsTypeOK
<1>9. ASSUME NEW s \in SessionIds, OwnerDestroys(s) PROVE TypeOK'
  <2>1. destroying' \in [SessionIds -> DestroyCounts]
    BY <1>9, <1>a, DestroyCounted DEF OwnerDestroys
  <2>2. QED
    BY <1>9, <2>1 DEF OwnerDestroys, TypeOK, AppsTypeOK
<1>10. ASSUME NEW s \in SessionIds, RemoveStored(s) PROVE TypeOK'
  <2>1. destroying' \in [SessionIds -> DestroyCounts]
    BY <1>10, <1>a, RemovedCounted DEF RemoveStored
  <2>2. QED
    BY <1>10, <2>1 DEF RemoveStored, Forget, TypeOK, AppsTypeOK
<1>11. ASSUME NEW s \in SessionIds, UnlinkDestroyed(s) PROVE TypeOK'
  <2>1. destroying' \in [SessionIds -> DestroyCounts]
    BY <1>11, <1>a, UnlinkCounted, DestroyedCounted DEF UnlinkDestroyed
  <2>2. of[s].id \in Ids /\ of[s].app \in AppIds
    BY DEF TypeOK
  <2>3. QED
    BY <1>11, <2>1, <2>2, AppsWritten DEF UnlinkDestroyed, TypeOK, AppsTypeOK
<1>12. ASSUME NEW s \in SessionIds, Expire(s) PROVE TypeOK'
  BY <1>12 DEF Expire, TypeOK, AppsTypeOK
<1>13. ASSUME NEW i \in Ids, NEW a \in AppIds, RevokeApp(i, a) PROVE TypeOK'
  BY <1>13, AppsWritten DEF RevokeApp, TypeOK, AppsTypeOK
<1>14. ASSUME NEW i \in Ids, NEW a \in AppIds, RevokeUnlinks(i, a) PROVE TypeOK'
  <2>1. destroying' \in [SessionIds -> DestroyCounts]
    BY <1>14, <1>a, UnlinkCounted DEF RevokeUnlinks
  <2>2. QED
    BY <1>14, <2>1, AppsWritten DEF RevokeUnlinks, TypeOK, AppsTypeOK
<1>15. ASSUME NEW i \in Ids, NEW a \in AppIds, RevokeDeletes(i, a) PROVE TypeOK'
  BY <1>15, AppsWritten DEF RevokeDeletes, TypeOK, AppsTypeOK
<1>16. ASSUME NEW i \in Ids, NEW a \in AppIds, RemoteUnlink(i, a) PROVE TypeOK'
  <2>1. destroying' \in [SessionIds -> DestroyCounts]
    BY <1>16, <1>a, UnlinkCounted DEF RemoteUnlink
  <2>2. QED
    BY <1>16, <2>1, AppsWritten DEF RemoteUnlink, TypeOK, AppsTypeOK
<1>17. ASSUME NEW i \in Ids, NEW a \in AppIds, RemoteDelApp(i, a) PROVE TypeOK'
  <2>1. destroying' \in [SessionIds -> DestroyCounts]
    BY <1>17, <1>a, UnlinkCounted DEF RemoteDelApp
  <2>2. QED
    BY <1>17, <2>1, AppsWritten DEF RemoteDelApp, TypeOK, AppsTypeOK
<1>18. ASSUME NEW i \in Ids, NEW a \in AppIds, RemotePutApp(i, a) PROVE TypeOK'
  BY <1>18, AppsWritten DEF RemotePutApp, TypeOK, AppsTypeOK
<1>19. ASSUME NEW i \in Ids, NEW a \in AppIds, UnlinkAfterLoad(i, a) PROVE TypeOK'
  <2>1. destroying' \in [SessionIds -> DestroyCounts]
    BY <1>19, <1>a, UnlinkCounted DEF UnlinkAfterLoad
  <2>2. QED
    BY <1>19, <2>1, AppsWritten DEF UnlinkAfterLoad, TypeOK, AppsTypeOK
<1>20. ASSUME NEW i \in Ids, DeviceRevoked(i) PROVE TypeOK'
  BY <1>20 DEF DeviceRevoked, TypeOK, AppsTypeOK
<1>21. ASSUME NEW i \in Ids, RevocationHandled(i) PROVE TypeOK'
  <2>1. destroying' \in [SessionIds -> DestroyCounts]
    BY <1>21, <1>a, DestroyCounted DEF RevocationHandled
  <2>2. QED
    BY <1>21, <2>1 DEF RevocationHandled, TypeOK, AppsTypeOK
<1>22. ASSUME NEW i \in Ids, RemoveIdentity(i) PROVE TypeOK'
  <2>1. destroying' \in [SessionIds -> DestroyCounts]
    BY <1>22, <1>a, DestroyCounted DEF RemoveIdentity
  <2>2. QED
    BY <1>22, <2>1 DEF RemoveIdentity, DropApps, TypeOK, AppsTypeOK
<1>23. CASE Load
  <2>1. destroying' \in [SessionIds -> DestroyCounts]
    BY <1>23, <1>a, DestroyCounted DEF Load, HandleLoad
  <2>2. loadUnlinks' \subseteq Ids \X AppIds
    BY <1>23 DEF Load, HandleLoad
  <2>3. QED
    BY <1>23, <2>1, <2>2 DEF Load, TypeOK, AppsTypeOK
<1>24. CASE OutageChanges
  BY <1>24 DEF OutageChanges, TypeOK, AppsTypeOK
<1>25. CASE Reload
  BY NothingTyped, <1>25 DEF Reload, TypeOK, AppsTypeOK
<1>26. CASE UNCHANGED vars
  BY <1>26 DEF vars, TypeOK, AppsTypeOK
<1>27. QED
  BY <1>1, <1>2, <1>3, <1>4, <1>5, <1>6, <1>7, <1>8, <1>9, <1>10, <1>11, <1>12, <1>13, <1>14, <1>15, <1>16, <1>17, <1>18, <1>19,
     <1>20, <1>21, <1>22, <1>23, <1>24, <1>25, <1>26 DEF Next, Step, CreateContinues

\* The sessions and everything that reaches them keep their types: no call
\* loses what it holds on to, and no destroy() ends that has not begun.
THEOREM SessionsTypeCorrect == Spec => []TypeOK
<1>1. Init => TypeOK
  <2>1. ASSUME Init PROVE AppsTypeOK
    BY <2>1 DEF Init, AppsInit, AppsTypeOK
  <2>2. QED
    BY NothingTyped, <2>1 DEF Init, TypeOK
<1>2. TypeOK /\ [Next]_vars => TypeOK'
  BY SessionsTypeKept
<1>3. QED
  BY <1>1, <1>2, PTL DEF Spec

-----------------------------------------------------------------------------
(* Sessions and storage.                                                   *)

Bystander == UNCHANGED <<sessionVars, create>>

\* The steps that touch neither a session nor a create() call.
LEMMA Bystanders ==
    ASSUME [Next]_vars
    PROVE  \/ Bystander
           \/ \E c \in CreateCalls :
                 \/ \E i \in Ids, a \in AppIds : Create(c, i, a)
                 \/ CreateContinues(c)
           \/ \E s \in SessionIds : RemoveStored(s) \/ Expire(s)
           \/ Reload
<1> USE DEF Bystander, sessionVars
<1>1. ASSUME NEW s \in SessionIds, OwnerDestroys(s) \/ UnlinkDestroyed(s) PROVE Bystander
  BY <1>1 DEF OwnerDestroys, UnlinkDestroyed
<1>2. ASSUME NEW i \in Ids, NEW a \in AppIds,
             RevokeApp(i, a) \/ RevokeUnlinks(i, a) \/ RevokeDeletes(i, a) \/ UnlinkAfterLoad(i, a)
      PROVE  Bystander
  BY <1>2 DEF RevokeApp, RevokeUnlinks, RevokeDeletes, UnlinkAfterLoad, taskVars
<1>3. ASSUME NEW i \in Ids, NEW a \in AppIds,
             RemoteUnlink(i, a) \/ RemoteDelApp(i, a) \/ RemotePutApp(i, a)
      PROVE  Bystander
  BY <1>3 DEF RemoteUnlink, RemoteDelApp, RemotePutApp, taskVars
<1>4. ASSUME NEW i \in Ids, DeviceRevoked(i) \/ RevocationHandled(i) \/ RemoveIdentity(i)
      PROVE  Bystander
  BY <1>4 DEF DeviceRevoked, RevocationHandled, RemoveIdentity, taskVars
<1>5. CASE Load \/ OutageChanges \/ UNCHANGED vars
  BY <1>5 DEF Load, OutageChanges, vars, taskVars
<1>6. QED
  BY <1>1, <1>2, <1>3, <1>4, <1>5 DEF Next, Step

\* While a create() that failed cleans its session up, nothing puts that
\* session back into memory.
LiveOK ==
    /\ LiveIsStored
    /\ \A c \in CreateCalls : create[c].pc = "cleanup" => create[c].session \notin live

\* A create() call that goes on leaves the other calls alone.
LEMMA OthersWait ==
    ASSUME create \in [CreateCalls -> CreateRecords], NEW c \in CreateCalls, CreateContinues(c)
    PROVE  /\ create[c] # NoCall
           /\ \A b \in CreateCalls \ {c} : create'[b] = create[b]
           /\ create'[c].pc = "cleanup" => Abandon(c) /\ create'[c].session = create[c].session
<1>1. \/ Settle(c) \/ Abandon(c)
      \/ \E pc \in CreatePcs \ {"cleanup"} :
            Goto(c, pc) \/ \E s \in SessionIds \union {None} : Continue(c, pc, s)
  BY DEF CreateContinues, CreateRemovesOld, CreateUnlinksOld, StoreSession, AddApp, LinkApp,
         PutLinkOfSession, CleanupSession, CreatePcs
<1>2. create[c] # NoCall
  BY DEF CreateContinues, CreateRemovesOld, CreateUnlinksOld, StoreSession, AddApp, LinkApp,
         PutLinkOfSession, CleanupSession, NoCall
<1>3. create[c] \in [pc : CreatePcs, id : Ids, app : AppIds, session : SessionIds \union {None}]
  BY <1>2 DEF CreateRecords
<1>4. CASE Settle(c)
  BY <1>2, <1>4 DEF Settle, NoCall
<1>5. CASE Abandon(c)
  BY <1>2, <1>3, <1>5 DEF Abandon, Goto
<1>6. ASSUME NEW pc \in CreatePcs \ {"cleanup"},
             Goto(c, pc) \/ \E s \in SessionIds \union {None} : Continue(c, pc, s)
      PROVE  /\ \A b \in CreateCalls \ {c} : create'[b] = create[b]
             /\ create'[c].pc # "cleanup"
  BY <1>3, <1>6 DEF Goto, Continue, CreatePcs
<1>7. QED
  BY <1>1, <1>2, <1>4, <1>5, <1>6

LEMMA LiveKept == Spec => []LiveOK
<1>1. Init => LiveOK
  BY DEF Init, NoCall, LiveOK, LiveIsStored
<1>2. TypeOK /\ LiveOK /\ [Next]_vars => LiveOK'
  <2> SUFFICES ASSUME TypeOK, LiveOK, [Next]_vars PROVE LiveOK'
    OBVIOUS
  <2> USE DEF LiveOK, LiveIsStored, sessionVars
  <2>1. create \in [CreateCalls -> CreateRecords] /\ None \notin SessionIds
    BY SessionsAssumption DEF TypeOK
  <2>2. CASE Bystander
    BY <2>2 DEF Bystander
  <2>3. ASSUME NEW c \in CreateCalls, NEW i \in Ids, NEW a \in AppIds, Create(c, i, a)
        PROVE  LiveOK'
    <3>1. \A b \in CreateCalls : create'[b].pc = "cleanup" => create'[b] = create[b]
      BY <2>1, <2>3 DEF Create, NewCall
    <3>2. QED
      BY <2>3, <3>1 DEF Create
  <2>4. ASSUME NEW c \in CreateCalls, CreateContinues(c) PROVE LiveOK'
    <3>1. LiveIsStored'
      <4>1. CASE CreateRemovesOld(c) \/ StoreSession(c) \/ AddApp(c) \/ LinkApp(c)
                 \/ PutLinkOfSession(c) \/ CreateUnlinksOld(c)
        BY <4>1 DEF CreateRemovesOld, CreateUnlinksOld, StoreSession, AddApp, LinkApp,
                    PutLinkOfSession, Forget, Abandon
      <4>2. CASE CleanupSession(c)
        BY <4>2 DEF CleanupSession
      <4>3. QED
        BY <2>4, <4>1, <4>2 DEF CreateContinues
    <3>2. \A b \in CreateCalls \ {c} : create'[b].pc = "cleanup" => create'[b].session \notin live'
      <4>1. \/ live' \subseteq live
            \/ \E s \in SessionIds : ~Referred(s) /\ live' = live \union {s}
        BY <2>4 DEF CreateContinues, CreateRemovesOld, CreateUnlinksOld, StoreSession, AddApp,
                    LinkApp, PutLinkOfSession, CleanupSession, Forget, Abandon
      <4>2. QED
        BY <2>1, <2>4, <4>1, OthersWait DEF Referred
    <3>3. create'[c].pc = "cleanup" => create'[c].session \notin live'
      BY <2>1, <2>4, OthersWait DEF Abandon
    <3>4. QED
      BY <3>1, <3>2, <3>3
  <2>5. ASSUME NEW s \in SessionIds, RemoveStored(s) \/ Expire(s) PROVE LiveOK'
    BY <2>5 DEF RemoveStored, Expire, Forget, taskVars
  <2>6. CASE Reload
    BY <2>6 DEF Reload, NoCall
  <2>7. QED
    BY <2>2, <2>3, <2>4, <2>5, <2>6, Bystanders
<1>3. QED
  BY <1>1, <1>2, SessionsTypeCorrect, PTL DEF Spec

\* Every session that is live, so that its owner can use it, is in storage,
\* however create() and destroy() calls, outages, handlers and reloads
\* interleave (sessions/index.js:49-102).
THEOREM LiveStored == Spec => []LiveIsStored
<1>1. LiveOK => LiveIsStored
  BY DEF LiveOK
<1>2. QED
  BY <1>1, LiveKept, PTL

-----------------------------------------------------------------------------
(* The sessions as the owner sees them.                                    *)

\* A call that is not between its write and its return, before or after a step,
\* holds no session for its owner.
LEMMA HeldKept ==
    ASSUME \A b \in CreateCalls :
              \/ create'[b] = create[b]
              \/ /\ create[b].pc \notin {"add", "link", "linking"}
                 /\ create'[b].pc \notin {"add", "link", "linking"}
              \/ /\ create[b].pc \in {"add", "link", "linking"}
                 /\ create'[b].pc \in {"add", "link", "linking"}
                 /\ create'[b].session = create[b].session
    PROVE  Held' = Held
BY DEF Held

\* A call that leaves them gives up the session it held, unless another holds it.
LEMMA HeldReturned ==
    ASSUME NEW c \in CreateCalls, create'[c].pc \notin {"add", "link", "linking"},
           \A b \in CreateCalls \ {c} : create'[b] = create[b]
    PROVE  Held' \subseteq Held /\ Held \subseteq Held' \union {create[c].session}
BY DEF Held

Shown == <<live \ expired, (live \ expired) \intersect Held, Leftover>>

\* A session removed from storage and from memory ends, or is given up.
LEMMA ForgetShown ==
    ASSUME TypeOK, NEW s \in SessionIds \union {None}, Forget(s), Held' = Held
    PROVE  Book!Next \/ UNCHANGED Shown
<1>1. None \notin live \union disk \union expired
  BY SessionsAssumption DEF TypeOK
<1>2. CASE s \in live \ expired
  BY <1>1, <1>2 DEF Forget, Leftover, Book!Next, Book!End
<1>3. CASE s \in Leftover
  BY <1>1, <1>3 DEF Forget, Leftover, Book!Next, Book!GiveUp
<1>4. CASE s \notin (live \ expired) \union Leftover
  BY <1>4 DEF Forget, Leftover, Shown
<1>5. QED
  BY <1>2, <1>3, <1>4

\* A call that fails after its write leaves its session to the cleanup.
LEMMA AbandonShown ==
    ASSUME LiveOK, TypeOK, NEW c \in CreateCalls, Abandon(c), UNCHANGED <<disk, expired>>,
           create[c].pc \in {"add", "link", "linking"},
           create'[c].pc = "cleanup", \A b \in CreateCalls \ {c} : create'[b] = create[b]
    PROVE  Book!Next \/ UNCHANGED Shown
<1> DEFINE s == create[c].session
<1>1. live' = live \ {s} /\ live \subseteq disk
  BY DEF Abandon, LiveOK, LiveIsStored
<1>2. Held' \subseteq Held /\ Held \subseteq Held' \union {s} /\ s \in Held
  BY HeldReturned DEF Held
<1>3. CASE s \in live \ expired
  <2>1. s \in SessionIds
    BY <1>3 DEF TypeOK
  <2>2. Book!Fail(s)
    BY <1>1, <1>2, <1>3 DEF Leftover, Book!Fail
  <2>3. QED
    BY <2>1, <2>2 DEF Book!Next
<1>4. CASE s \notin live \ expired
  BY <1>1, <1>2, <1>4 DEF Leftover, Shown
<1>5. QED
  BY <1>3, <1>4

\* A call that returns hands its session to the owner.
LEMMA ReturnShown ==
    ASSUME TypeOK, NEW c \in CreateCalls, Settle(c), UNCHANGED <<live, disk, expired>>
    PROVE  Book!Next \/ UNCHANGED Shown
<1> DEFINE s == create[c].session
<1>1. create'[c] = NoCall /\ \A b \in CreateCalls \ {c} : create'[b] = create[b]
  BY DEF Settle, TypeOK
<1>2. Held' \subseteq Held /\ Held \subseteq Held' \union {s}
  BY <1>1, HeldReturned DEF NoCall
<1>3. CASE (live \ expired) \intersect Held' = (live \ expired) \intersect Held
  BY <1>3 DEF Shown, Leftover
<1>4. CASE (live \ expired) \intersect Held' # (live \ expired) \intersect Held
  <2>1. s \in live
    BY <1>2, <1>4
  <2>2. Book!Return(s)
    BY <1>2, <1>4 DEF Leftover, Book!Return
  <2>3. QED
    BY <2>1, <2>2 DEF Book!Next, TypeOK
<1>5. QED
  BY <1>3, <1>4

\* Each step of the sessions is a step of the book, or the owner sees none.
LEMMA BookStep ==
    ASSUME TypeOK, LiveOK, [Next]_vars
    PROVE  Book!Next \/ UNCHANGED Shown
<1> USE DEF sessionVars
<1>1. create \in [CreateCalls -> CreateRecords]
  BY DEF TypeOK
<1>2. CASE Bystander
  BY <1>2 DEF Bystander, Shown, Leftover, Held
<1>3. ASSUME NEW c \in CreateCalls, NEW i \in Ids, NEW a \in AppIds, Create(c, i, a)
      PROVE  UNCHANGED Shown
  <2>1. Held' = Held
    BY <1>1, <1>3, HeldKept DEF Create, NewCall, NoCall
  <2>2. QED
    BY <1>3, <2>1 DEF Create, Shown, Leftover
<1>4. ASSUME NEW c \in CreateCalls, CreateContinues(c)
      PROVE  Book!Next \/ UNCHANGED Shown
  <2> DEFINE s == create[c].session
  <2>1. /\ \A b \in CreateCalls \ {c} : create'[b] = create[b]
        /\ create[c] \in [pc : CreatePcs, id : Ids, app : AppIds, session : SessionIds \union {None}]
    BY <1>1, <1>4, OthersWait DEF CreateRecords
  <2>2. CASE CreateRemovesOld(c)
    <3>1. create'[c].pc \notin {"add", "link", "linking"}
      BY <1>1, <2>1, <2>2 DEF CreateRemovesOld, Goto, Continue, Settle, NoCall
    <3>2. Held' = Held
      BY <2>1, <2>2, <3>1, HeldKept DEF CreateRemovesOld
    <3>3. QED
      BY <2>1, <2>2, <3>2, ForgetShown DEF CreateRemovesOld, Shown, Leftover
  <2>3. CASE CreateUnlinksOld(c)
    <3>1. create'[c].pc = "store"
      BY <1>1, <2>1, <2>3 DEF CreateUnlinksOld, Continue
    <3>2. Held' = Held
      BY <2>1, <2>3, <3>1, HeldKept DEF CreateUnlinksOld
    <3>3. QED
      BY <2>3, <3>2 DEF CreateUnlinksOld, Shown, Leftover
  <2>4. CASE StoreSession(c)
    <3>1. ASSUME NEW t \in SessionIds, ~Referred(t),
                 disk' = disk \union {t}, live' = live \union {t}, expired' = expired \ {t},
                 Continue(c, "add", t)
          PROVE  Book!Begin(t)
      <4>1. create[c].pc = "store" /\ create'[c].pc = "add" /\ create'[c].session = t
        BY <1>1, <2>1, <2>4, <3>1 DEF StoreSession, Continue
      <4>2. Held' = Held \union {t}
        BY <2>1, <4>1 DEF Held
      <4>3. t \notin live \union disk
        BY <3>1 DEF Referred
      <4>4. QED
        BY <3>1, <4>2, <4>3 DEF Leftover, Book!Begin
    <3>2. CASE Settle(c) /\ UNCHANGED <<live, disk, expired>>
      BY <3>2, ReturnShown
    <3>3. QED
      BY <2>4, <3>1, <3>2 DEF StoreSession, Book!Next
  <2>5. CASE AddApp(c) \/ LinkApp(c) \/ PutLinkOfSession(c)
    <3>1. create[c].pc \in {"add", "link", "linking"} /\ UNCHANGED <<disk, expired>>
      BY <2>5 DEF AddApp, LinkApp, PutLinkOfSession
    <3>2. CASE Abandon(c)
      <4>1. create'[c].pc = "cleanup"
        BY <1>1, <2>1, <3>2 DEF Abandon, Goto
      <4>2. QED
        BY <2>1, <3>1, <3>2, <4>1, AbandonShown
    <3>3. CASE Settle(c) /\ UNCHANGED live
      BY <3>1, <3>3, ReturnShown
    <3>4. ASSUME NEW pc \in {"link", "linking"}, Goto(c, pc), UNCHANGED live
          PROVE  UNCHANGED Shown
      <4>1. create'[c].pc = pc /\ create'[c].session = create[c].session
        BY <1>1, <2>1, <3>4 DEF Goto
      <4>2. Held' = Held
        BY <2>1, <3>1, <4>1, HeldKept
      <4>3. QED
        BY <3>1, <3>4, <4>2 DEF Shown, Leftover
    <3>5. QED
      BY <2>5, <3>2, <3>3, <3>4 DEF AddApp, LinkApp, PutLinkOfSession
  <2>6. CASE CleanupSession(c)
    <3>1. s \notin live /\ live \subseteq disk
      BY <2>6 DEF CleanupSession, LiveOK, LiveIsStored
    <3>2. create'[c].pc = "idle"
      BY <1>1, <2>6 DEF CleanupSession, Settle, NoCall
    <3>3. Held' = Held
      BY <2>1, <2>6, <3>2, HeldKept DEF CleanupSession
    <3>4. live' \ expired' = live \ expired
      BY <2>6, <3>1 DEF CleanupSession
    <3>5. Leftover' = Leftover \/ (s \in disk /\ Leftover' = Leftover \ {s})
      BY <2>6 DEF CleanupSession, Leftover
    <3>6. QED
      BY <3>3, <3>4, <3>5 DEF Shown, Book!Next, Book!GiveUp, TypeOK
  <2>7. QED
    BY <1>4, <2>2, <2>3, <2>4, <2>5, <2>6 DEF CreateContinues
<1>5. ASSUME NEW s \in SessionIds, RemoveStored(s)
      PROVE  Book!Next \/ UNCHANGED Shown
  BY <1>5, ForgetShown DEF RemoveStored, Held, Shown, Leftover
<1>6. ASSUME NEW s \in SessionIds, Expire(s)
      PROVE  Book!Next
  <2>1. Held' = Held
    BY <1>6 DEF Expire, taskVars, Held
  <2>2. CASE s \in live
    BY <1>6, <2>1, <2>2 DEF Expire, Leftover, Book!Next, Book!End
  <2>3. CASE s \notin live
    BY <1>6, <2>1, <2>3 DEF Expire, Leftover, Book!Next, Book!GiveUp
  <2>4. QED
    BY <2>2, <2>3
<1>7. CASE Reload
  <2>1. Held' = {}
    BY <1>7 DEF Reload, Held, NoCall
  <2>2. live \subseteq disk
    BY DEF LiveOK, LiveIsStored
  <2>3. Book!Restart
    BY <1>7, <2>1, <2>2 DEF Reload, Leftover, Book!Restart
  <2>4. QED
    BY <2>3 DEF Book!Next
<1>8. QED
  BY <1>2, <1>3, <1>4, <1>5, <1>6, <1>7, Bystanders

\* The sessions implement SessionBook: however the waits of create() and
\* destroy() interleave with each other, with outages and with reloads, the
\* owner sees sessions that begin and end at once, that no reload loses, and
\* that stay ended once create() has returned them (sessions/index.js:49-102).
THEOREM ImplementsBook == Spec => SessionBookSpec
<1>1. Init => Book!Init
  BY DEF Init, Book!Init, Held, Leftover, NoCall
<1>2. TypeOK /\ LiveOK /\ [Next]_vars => [Book!Next]_(Book!vars)
  <2>1. UNCHANGED Shown => UNCHANGED Book!vars
    BY DEF Shown, Book!vars
  <2>2. QED
    BY <2>1, BookStep
<1>3. QED
  BY <1>1, <1>2, SessionsTypeCorrect, LiveKept, PTL DEF Spec, SessionBookSpec, Book!Spec

-----------------------------------------------------------------------------
(* Destroyed sessions.                                                     *)

CleaningUp == {create[c].session : c \in {d \in CreateCalls : create[d].pc = "cleanup"}}

\* Adding the auxiliary variables changes nothing about the behaviours.
LEMMA HistoryIsSpec == SpecH => Spec
<1>1. InitH => Init
  BY DEF InitH
<1>2. [NextH]_historyVars => [Next]_vars
  BY DEF NextH, historyVars
<1>3. QED
  BY <1>1, <1>2, PTL DEF SpecH, Spec

\* A session that left the wallet, through destroy(), expiry or a create() that
\* failed, comes back with no reload: storage holds no session that is not
\* live, except one that a failed create() cleans up or could not clean up
\* because storage refused (sessions/index.js:71, 89).
THEOREM DestroyedStays == SpecH => []DestroyedStaysDestroyed
<1>1. InitH => DestroyedStaysDestroyed
  BY DEF InitH, Init, DestroyedStaysDestroyed
<1>2. TypeOK /\ DestroyedStaysDestroyed /\ [NextH]_historyVars => DestroyedStaysDestroyed'
  <2> SUFFICES ASSUME TypeOK, DestroyedStaysDestroyed, [NextH]_historyVars
               PROVE  DestroyedStaysDestroyed'
    OBVIOUS
  <2> USE DEF sessionVars
  <2>1. create \in [CreateCalls -> CreateRecords]
    BY DEF TypeOK
  <2>2. ASSUME NEW s \in disk \ (live \union expired)
        PROVE  s \in leaked \union CleaningUp
    BY <2>2 DEF DestroyedStaysDestroyed, CleaningUp
  <2>3. SUFFICES ASSUME NextH, NEW s \in disk' \ (live' \union expired')
                 PROVE  s \in leaked' \union CleaningUp'
    <3>1. CASE UNCHANGED historyVars
      BY <3>1 DEF historyVars, vars, taskVars, DestroyedStaysDestroyed
    <3>2. QED
      BY <2>3, <3>1 DEF DestroyedStaysDestroyed, CleaningUp
  <2>4. s \in leaked => s \in leaked'
    BY <2>3 DEF NextH
  <2>5. ASSUME NEW c \in CreateCalls, create[c].pc = "cleanup", create[c].session = s,
               create'[c] = create[c] \/ create'[c].pc = "idle"
        PROVE  s \in leaked' \union CleaningUp'
    <3>1. CASE create'[c] = create[c]
      BY <2>5, <3>1 DEF CleaningUp
    <3>2. CASE create'[c].pc = "idle"
      <4>1. s \in SessionIds
        BY <2>3, SessionsTypeKept DEF NextH, TypeOK
      <4>2. QED
        BY <2>3, <2>5, <3>2, <4>1 DEF NextH
    <3>3. QED
      BY <2>5, <3>1, <3>2
  <2>6. ASSUME s \in disk \ (live \union expired),
               \A c \in CreateCalls :
                  create[c].pc = "cleanup" => create'[c] = create[c] \/ create'[c].pc = "idle"
        PROVE  s \in leaked' \union CleaningUp'
    BY <2>2, <2>4, <2>5, <2>6 DEF CleaningUp
  <2>7. [Next]_vars
    BY <2>3 DEF NextH
  <2>8. CASE Bystander
    BY <2>3, <2>6, <2>8 DEF Bystander
  <2>9. ASSUME NEW c \in CreateCalls, NEW i \in Ids, NEW a \in AppIds, Create(c, i, a)
        PROVE  s \in leaked' \union CleaningUp'
    BY <2>1, <2>3, <2>6, <2>9 DEF Create, NoCall
  <2>10. ASSUME NEW c \in CreateCalls, CreateContinues(c)
         PROVE  s \in leaked' \union CleaningUp'
    <3>1. \A b \in CreateCalls :
             create[b].pc = "cleanup" => create'[b] = create[b] \/ create'[b].pc = "idle"
      <4>1. create[c].pc = "cleanup" => Settle(c)
        BY <2>10 DEF CreateContinues, CreateRemovesOld, CreateUnlinksOld, StoreSession, AddApp,
                     LinkApp, PutLinkOfSession, CleanupSession
      <4>2. QED
        BY <2>1, <2>10, <4>1, OthersWait DEF Settle, NoCall
    <3>2. CASE Abandon(c) /\ UNCHANGED <<disk, expired>>
      <4>1. create'[c].pc = "cleanup" /\ create'[c].session = create[c].session
        BY <2>1, <2>10, <3>2, OthersWait DEF Abandon, Goto, CreateRecords, NoCall
      <4>2. CASE s = create[c].session
        BY <4>1, <4>2 DEF CleaningUp
      <4>3. CASE s # create[c].session
        BY <2>3, <2>6, <3>1, <3>2, <4>3 DEF Abandon
      <4>4. QED
        BY <4>2, <4>3
    <3>3. CASE ~(Abandon(c) /\ UNCHANGED <<disk, expired>>)
      <4>1. s \in disk \ (live \union expired)
        BY <2>3, <2>10, <3>3 DEF CreateContinues, CreateRemovesOld, CreateUnlinksOld, StoreSession,
             AddApp, LinkApp, PutLinkOfSession, CleanupSession, Forget
      <4>2. QED
        BY <2>6, <3>1, <4>1
    <3>4. QED
      BY <3>2, <3>3
  <2>11. ASSUME NEW t \in SessionIds, RemoveStored(t) \/ Expire(t)
         PROVE  s \in leaked' \union CleaningUp'
    BY <2>3, <2>6, <2>11 DEF RemoveStored, Expire, Forget, taskVars
  <2>12. CASE Reload
    BY <2>3, <2>12 DEF Reload
  <2>13. QED
    BY <2>7, <2>8, <2>9, <2>10, <2>11, <2>12, Bystanders
<1>3. QED
  BY <1>1, <1>2, SessionsTypeCorrect, HistoryIsSpec, PTL DEF SpecH

-----------------------------------------------------------------------------
(* Sessions and links.                                                     *)

LinkPcs == {"add", "link", "linking"}

Ending(s) == destroying[s].remove > 0

Unlinking(s) == destroying[s].unlink > 0

Linking(s) == \E c \in CreateCalls : create[c].pc \in LinkPcs /\ create[c].session = s

\* Calls of destroy() start on the sessions of S, and none ends.
LEMMA DestroyStarts ==
    ASSUME NEW d \in [SessionIds -> DestroyCounts], NEW S, Destroy(d, S), NEW s \in SessionIds
    PROVE  /\ s \in S \/ d[s].remove > 0 => Ending(s)'
           /\ d[s].unlink > 0 => Unlinking(s)'
<1>1. d[s].remove \in Nat /\ d[s].unlink \in Nat
  BY DEF DestroyCounts
<1>2. OneMore(d[s].remove) > 0
  BY <1>1, SessionsAssumption DEF OneMore
<1>3. destroying'[s] = IF s \in S THEN [d[s] EXCEPT !.remove = OneMore(@)] ELSE d[s]
  BY DEF Destroy
<1>4. [d[s] EXCEPT !.remove = OneMore(@)].remove = OneMore(d[s].remove)
      /\ [d[s] EXCEPT !.remove = OneMore(@)].unlink = d[s].unlink
  BY DEF DestroyCounts
<1>. QED BY <1>2, <1>3, <1>4 DEF Ending, Unlinking

\* An unlink that is heard ends the session of the app, if there is one.
LEMMA UnlinkStarts ==
    ASSUME NEW d \in [SessionIds -> DestroyCounts], NEW i, NEW a, HandleUnlink(d, i, a),
           NEW s \in SessionIds, live \subseteq SessionIds
    PROVE  /\ d[s].remove > 0 => Ending(s)'
           /\ d[s].unlink > 0 => Unlinking(s)'
           /\ SessionsFor(i, a) = {s} => Ending(s)'
BY DestroyStarts DEF HandleUnlink, SessionsFor

\* A destroy(s) that ends leaves the calls at the other wait and of others.
LEMMA DestroyEnds ==
    ASSUME destroying \in [SessionIds -> DestroyCounts], NEW s \in SessionIds, NEW t \in SessionIds
    PROVE  /\ Destroyed(s, "remove")[t].unlink = destroying[t].unlink
           /\ Destroyed(s, "unlink")[t].remove = destroying[t].remove
           /\ t # s => /\ Destroyed(s, "remove")[t] = destroying[t]
                       /\ Destroyed(s, "unlink")[t] = destroying[t]
BY DEF Destroyed, DestroyCounts

\* What a step without an outage does to the destroy() calls of a session.
LEMMA DestroysKept ==
    ASSUME TypeOK, [Next]_vars, loaded', ~outage, NEW s \in SessionIds
    PROVE  /\ Ending(s) => Ending(s)' \/ s \notin live'
           /\ Unlinking(s) => \/ Unlinking(s)'
                              \/ of[s].id \notin present
                              \/ links' = [links EXCEPT ![of[s].id] = @ \ {of[s].app}]
<1>. USE DEF sessionVars, taskVars, identityVars, appsVars
<1>1. destroying \in [SessionIds -> DestroyCounts] /\ live \subseteq SessionIds
  BY DEF TypeOK
<1>2. ASSUME UNCHANGED destroying PROVE (Ending(s) => Ending(s)') /\ (Unlinking(s) => Unlinking(s)')
  BY <1>2 DEF Ending, Unlinking
<1>3. ASSUME NEW S, Destroy(destroying, S) PROVE (Ending(s) => Ending(s)') /\ (Unlinking(s) => Unlinking(s)')
  BY <1>1, <1>3, DestroyStarts DEF Ending, Unlinking
<1>4. ASSUME NEW i, NEW a, HandleUnlink(destroying, i, a)
      PROVE  (Ending(s) => Ending(s)') /\ (Unlinking(s) => Unlinking(s)')
  BY <1>1, <1>4, UnlinkStarts DEF Ending, Unlinking
<1>5. ASSUME NEW t \in SessionIds, RemoveStored(t)
      PROVE  (Ending(s) => Ending(s)' \/ s \notin live') /\ (Unlinking(s) => Unlinking(s)')
  <2>1. Forget(t) /\ destroying' = IF NeedsUnlink(t)
                       THEN [Destroyed(t, "remove") EXCEPT ![t].unlink = OneMore(@)]
                       ELSE Destroyed(t, "remove")
    BY <1>5 DEF RemoveStored
  <2>2. CASE s = t
    <3>1. destroying[s].unlink \in Nat
      BY <1>1 DEF DestroyCounts
    <3>2. Destroyed(t, "remove") \in [SessionIds -> DestroyCounts] /\ Destroyed(t, "remove")[s].unlink = destroying[s].unlink
      BY <1>1, <1>5, DestroyedCounted, DestroyEnds DEF RemoveStored
    <3>3. [Destroyed(t, "remove") EXCEPT ![t].unlink = OneMore(@)][s].unlink = OneMore(destroying[s].unlink)
      BY <2>2, <3>2 DEF DestroyCounts
    <3>4. destroying[s].unlink > 0 => OneMore(destroying[s].unlink) > 0
      BY <3>1 DEF OneMore
    <3>. QED BY <2>1, <2>2, <3>2, <3>3, <3>4 DEF Forget, Unlinking
  <2>3. CASE s # t
    <3>1. Destroyed(t, "remove") \in [SessionIds -> DestroyCounts] /\ Destroyed(t, "remove")[s] = destroying[s]
      BY <1>1, <1>5, <2>3, DestroyedCounted, DestroyEnds DEF RemoveStored
    <3>2. destroying'[s] = destroying[s]
      BY <2>1, <2>3, <3>1
    <3>. QED BY <3>2 DEF Ending, Unlinking
  <2>. QED BY <2>2, <2>3
<1>6. ASSUME NEW t \in SessionIds, UnlinkDestroyed(t)
      PROVE  /\ Ending(s) => Ending(s)'
             /\ Unlinking(s) => \/ Unlinking(s)' \/ of[s].id \notin present
                                \/ links' = [links EXCEPT ![of[s].id] = @ \ {of[s].app}]
  <2>1. Destroyed(t, "unlink") \in [SessionIds -> DestroyCounts]
    BY <1>1, <1>6, DestroyedCounted DEF UnlinkDestroyed
  <2>2. /\ Destroyed(t, "unlink")[s].remove = destroying[s].remove
        /\ s # t => Destroyed(t, "unlink")[s] = destroying[s]
    BY <1>1, DestroyEnds
  <2>3. CASE DelLink(of[t].id, of[t].app) /\ HandleUnlink(Destroyed(t, "unlink"), of[t].id, of[t].app)
    BY <1>1, <2>1, <2>2, <2>3, UnlinkStarts DEF DelLink, Ending, Unlinking
  <2>4. CASE of[t].id \notin present /\ destroying' = Destroyed(t, "unlink")
    BY <2>2, <2>4 DEF Ending, Unlinking
  <2>. QED BY <1>6, <2>3, <2>4 DEF UnlinkDestroyed
<1>7. ASSUME NEW c \in CreateCalls, CreateContinues(c)
      PROVE  (Ending(s) => Ending(s)') /\ (Unlinking(s) => Unlinking(s)')
  BY <1>2, <1>4, <1>7 DEF CreateContinues, CreateRemovesOld, CreateUnlinksOld, StoreSession, AddApp,
     LinkApp, PutLinkOfSession, CleanupSession
<1>8. ASSUME NEW i \in Ids, NEW a \in AppIds, NEW c \in CreateCalls, Create(c, i, a)
      PROVE  (Ending(s) => Ending(s)') /\ (Unlinking(s) => Unlinking(s)')
  BY <1>2, <1>8 DEF Create
<1>9. ASSUME NEW t \in SessionIds, OwnerDestroys(t) \/ Expire(t)
      PROVE  (Ending(s) => Ending(s)') /\ (Unlinking(s) => Unlinking(s)')
  BY <1>2, <1>3, <1>9 DEF OwnerDestroys, Expire
<1>10. ASSUME NEW i \in Ids, NEW a \in AppIds,
              \/ RevokeApp(i, a) \/ RevokeUnlinks(i, a) \/ RevokeDeletes(i, a) \/ RemoteUnlink(i, a)
              \/ RemoteDelApp(i, a) \/ RemotePutApp(i, a) \/ UnlinkAfterLoad(i, a)
       PROVE  (Ending(s) => Ending(s)') /\ (Unlinking(s) => Unlinking(s)')
  BY <1>2, <1>4, <1>10 DEF RevokeApp, RevokeUnlinks, RevokeDeletes, RemoteUnlink, RemoteDelApp,
     RemotePutApp, UnlinkAfterLoad
<1>11. ASSUME NEW i \in Ids, DeviceRevoked(i) \/ RevocationHandled(i) \/ RemoveIdentity(i)
       PROVE  (Ending(s) => Ending(s)') /\ (Unlinking(s) => Unlinking(s)')
  BY <1>2, <1>3, <1>11 DEF DeviceRevoked, RevocationHandled, RemoveIdentity
<1>12. CASE Load
  BY <1>3, <1>12 DEF Load, HandleLoad
<1>13. CASE OutageChanges \/ UNCHANGED vars
  BY <1>2, <1>13 DEF OutageChanges, vars
<1>. QED
  BY <1>5, <1>6, <1>7, <1>8, <1>9, <1>10, <1>11, <1>12, <1>13 DEF Next, Step, Reload

\* A call that stored its session holds on to it.
LinkCallsOK ==
    \A c \in CreateCalls : create[c].pc \in LinkPcs =>
       /\ create[c].session \in SessionIds
       /\ of[create[c].session] = [id |-> create[c].id, app |-> create[c].app]

\* Where a call goes next: it enters LinkPcs with a new session only, and
\* leaves them when the app is linked, its identity is gone, or it gives up.
LEMMA CallMoves ==
    ASSUME TypeOK, NEW c \in CreateCalls, CreateContinues(c)
    PROVE  \/ /\ create'[c].pc \in LinkPcs /\ create[c].pc \in LinkPcs
              /\ create'[c].session = create[c].session /\ create'[c].id = create[c].id
              /\ create'[c].app = create[c].app /\ UNCHANGED <<live, of>>
           \/ /\ create'[c].pc \notin LinkPcs /\ live' \subseteq live /\ UNCHANGED of
              /\ \/ create[c].pc \notin LinkPcs
                 \/ create[c].id \notin present
                 \/ /\ create[c].app \in links'[create[c].id]
                 \/ create[c].session \notin live'
           \/ \E s \in SessionIds :
                 /\ ~Referred(s) /\ live' = live \union {s} /\ create[c].pc = "store"
                 /\ of' = [of EXCEPT ![s] = [id |-> create[c].id, app |-> create[c].app]]
                 /\ create'[c].pc = "add" /\ create'[c].session = s
                 /\ create'[c].id = create[c].id /\ create'[c].app = create[c].app
<1>1. create \in [CreateCalls -> CreateRecords] /\ links \in [Ids -> SUBSET AppIds]
  BY DEF TypeOK, AppsTypeOK
<1>2. PICK r : r = create[c]
  OBVIOUS
<1>3. r \in [pc : CreatePcs, id : Ids, app : AppIds, session : SessionIds \union {None}]
  <2>1. r # NoCall
    BY <1>1, <1>2, OthersWait
  <2>. QED BY <1>1, <1>2, <2>1 DEF CreateRecords
<1>4. /\ \A pc : Goto(c, pc) => /\ create'[c].pc = pc /\ create'[c].session = r.session
                                /\ create'[c].id = r.id /\ create'[c].app = r.app
      /\ \A pc, s : Continue(c, pc, s) => /\ create'[c].pc = pc /\ create'[c].session = s
                                          /\ create'[c].id = r.id /\ create'[c].app = r.app
      /\ Settle(c) => create'[c].pc = "idle"
  <2>1. ASSUME NEW pc PROVE /\ Goto(c, pc) => create'[c] = [r EXCEPT !.pc = pc]
                            /\ \A s : Continue(c, pc, s) => create'[c] = [r EXCEPT !.pc = pc, !.session = s]
    BY <1>1, <1>2, <1>3 DEF Goto, Continue
  <2>2. Settle(c) => create'[c].pc = "idle"
    BY <1>1 DEF Settle, NoCall
  <2>3. \A pc, s : /\ [r EXCEPT !.pc = pc].pc = pc /\ [r EXCEPT !.pc = pc].session = r.session
                   /\ [r EXCEPT !.pc = pc].id = r.id /\ [r EXCEPT !.pc = pc].app = r.app
                   /\ [r EXCEPT !.pc = pc, !.session = s].pc = pc
                   /\ [r EXCEPT !.pc = pc, !.session = s].session = s
                   /\ [r EXCEPT !.pc = pc, !.session = s].id = r.id
                   /\ [r EXCEPT !.pc = pc, !.session = s].app = r.app
    BY <1>3
  <2>4. ASSUME NEW pc, Goto(c, pc)
        PROVE  /\ create'[c].pc = pc /\ create'[c].session = r.session
               /\ create'[c].id = r.id /\ create'[c].app = r.app
    <3>1. create'[c] = [r EXCEPT !.pc = pc]
      BY <2>1, <2>4
    <3>. QED BY <2>3, <3>1
  <2>5. ASSUME NEW pc, NEW s, Continue(c, pc, s)
        PROVE  /\ create'[c].pc = pc /\ create'[c].session = s
               /\ create'[c].id = r.id /\ create'[c].app = r.app
    <3>1. create'[c] = [r EXCEPT !.pc = pc, !.session = s]
      BY <2>1, <2>5
    <3>. QED BY <2>3, <3>1
  <2>. QED BY <2>2, <2>4, <2>5
<1>5. CASE CreateRemovesOld(c)
  BY <1>2, <1>4, <1>5 DEF CreateRemovesOld, Forget, LinkPcs
<1>6. CASE CreateUnlinksOld(c)
  BY <1>2, <1>4, <1>6 DEF CreateUnlinksOld, LinkPcs, sessionVars
<1>7. CASE StoreSession(c)
  BY <1>2, <1>4, <1>7 DEF StoreSession, LinkPcs, sessionVars
<1>8. CASE AddApp(c)
  BY <1>2, <1>4, <1>8 DEF AddApp, Abandon, LinkPcs
<1>9. CASE LinkApp(c)
  BY <1>2, <1>3, <1>4, <1>9 DEF LinkApp, Abandon, LinkPcs, appsVars
<1>10. CASE PutLinkOfSession(c)
  BY <1>1, <1>2, <1>3, <1>4, <1>10 DEF PutLinkOfSession, PutLink, Abandon, LinkPcs
<1>11. CASE CleanupSession(c)
  BY <1>2, <1>4, <1>11 DEF CleanupSession, LinkPcs
<1>. QED BY <1>5, <1>6, <1>7, <1>8, <1>9, <1>10, <1>11 DEF CreateContinues

\* Identity and app of a session change only for an id that is new.
LEMMA OfKept ==
    ASSUME TypeOK, [Next]_vars, NEW s \in SessionIds, Referred(s)
    PROVE  of'[s] = of[s]
<1>1. CASE Bystander
  BY <1>1 DEF Bystander, sessionVars
<1>2. ASSUME NEW c \in CreateCalls, CreateContinues(c) PROVE of'[s] = of[s]
  BY <1>2, CallMoves DEF TypeOK
<1>3. ASSUME NEW c \in CreateCalls, NEW i \in Ids, NEW a \in AppIds, Create(c, i, a) PROVE of'[s] = of[s]
  BY <1>3 DEF Create, sessionVars
<1>. QED BY <1>1, <1>2, <1>3, Bystanders DEF RemoveStored, Expire, Reload

\* What a call holds on to stays true.
LEMMA LinkCallsKept ==
    ASSUME TypeOK, LinkCallsOK, [Next]_vars
    PROVE  LinkCallsOK'
<1>1. create \in [CreateCalls -> CreateRecords]
  BY DEF TypeOK
<1>2. ASSUME NEW b \in CreateCalls, create[b].pc \in LinkPcs, create'[b] = create[b]
      PROVE  of'[create[b].session] = of[create[b].session]
  BY <1>2, OfKept DEF LinkCallsOK, Referred
<1>3. ASSUME \A b \in CreateCalls : create'[b] = create[b] \/ create'[b].pc \notin LinkPcs
      PROVE  LinkCallsOK'
  BY <1>2, <1>3 DEF LinkCallsOK
<1>4. ASSUME NEW c \in CreateCalls, CreateContinues(c) PROVE LinkCallsOK'
  <2>1. \A b \in CreateCalls \ {c} : create'[b] = create[b]
    BY <1>1, <1>4, OthersWait
  <2>2. create'[c].pc \in LinkPcs =>
           /\ create'[c].session \in SessionIds
           /\ of'[create'[c].session] = [id |-> create'[c].id, app |-> create'[c].app]
    BY <1>4, CallMoves DEF LinkCallsOK, TypeOK
  <2>. QED BY <1>2, <2>1, <2>2 DEF LinkCallsOK
<1>5. ASSUME NEW c \in CreateCalls, NEW i \in Ids, NEW a \in AppIds, Create(c, i, a) PROVE LinkCallsOK'
  BY <1>1, <1>3, <1>5 DEF Create, NewCall, LinkPcs
<1>6. CASE Bystander \/ \E s \in SessionIds : RemoveStored(s) \/ Expire(s)
  BY <1>3, <1>6 DEF Bystander, RemoveStored, Expire, taskVars
<1>7. CASE Reload
  BY <1>3, <1>7 DEF Reload, NoCall, LinkPcs
<1>. QED BY <1>4, <1>5, <1>6, <1>7, Bystanders

\* A session being linked goes on so until it is linked, or its identity or
\* the session itself is gone.
LEMMA LinkingKept ==
    ASSUME TypeOK, LinkCallsOK, [Next]_vars, loaded', NEW s \in live, s \in live', Linking(s)
    PROVE  Linking(s)' \/ of[s].id \notin present \/ of[s].app \in links'[of[s].id]
<1>1. create \in [CreateCalls -> CreateRecords]
  BY DEF TypeOK
<1>2. PICK b \in CreateCalls : create[b].pc \in LinkPcs /\ create[b].session = s
  BY DEF Linking
<1>3. CASE create'[b] = create[b]
  BY <1>2, <1>3 DEF Linking
<1>4. CASE CreateContinues(b)
  <2>1. of[s].id = create[b].id /\ of[s].app = create[b].app
    <3>1. of[s] = [id |-> create[b].id, app |-> create[b].app]
      BY <1>2 DEF LinkCallsOK
    <3>. QED BY <3>1
  <2>. QED BY <1>2, <1>4, <2>1, CallMoves DEF Linking, LinkPcs
<1>5. ASSUME NEW c \in CreateCalls, CreateContinues(c), c # b PROVE create'[b] = create[b]
  BY <1>1, <1>5, OthersWait
<1>6. ASSUME NEW c \in CreateCalls, NEW i \in Ids, NEW a \in AppIds, Create(c, i, a)
      PROVE  create'[b] = create[b]
  BY <1>1, <1>2, <1>6 DEF Create, NoCall, LinkPcs
<1>7. CASE Bystander \/ \E t \in SessionIds : RemoveStored(t) \/ Expire(t)
  BY <1>3, <1>7 DEF Bystander, RemoveStored, Expire, taskVars
<1>. QED BY <1>3, <1>4, <1>5, <1>6, <1>7, Bystanders DEF Reload

\* A link of a session without a twin goes only with the session, with the
\* identity, or while the app is unknown.
LEMMA LinksKept ==
    ASSUME TypeOK, [Next]_vars, loaded', NEW s \in live,
           \A t \in live' : of'[t] = of'[s] => t = s, of[s].app \in links[of[s].id]
    PROVE  \/ of[s].app \in links'[of[s].id]
           \/ Ending(s)'
           \/ of[s].id \notin present'
           \/ of[s].app \notin apps'[of[s].id] /\ UNCHANGED <<create, of>>
<1>. USE DEF sessionVars, taskVars, identityVars, appsVars
<1>1. /\ destroying \in [SessionIds -> DestroyCounts] /\ live \subseteq SessionIds
      /\ links \in [Ids -> SUBSET AppIds] /\ apps \in [Ids -> SUBSET AppIds]
      /\ of \in [SessionIds -> [id : Ids, app : AppIds]]
  BY DEF TypeOK, AppsTypeOK
<1>2. ASSUME NEW d \in [SessionIds -> DestroyCounts], NEW i \in Ids, NEW a \in AppIds,
             DelLink(i, a), HandleUnlink(d, i, a), UNCHANGED <<live, of>>
      PROVE  of[s].app \in links'[of[s].id] \/ Ending(s)'
  <2>1. CASE of[s] = [id |-> i, app |-> a]
    <3>1. SessionsFor(i, a) = {s}
      BY <1>2, <2>1 DEF SessionsFor
    <3>. QED BY <1>1, <1>2, <3>1, UnlinkStarts
  <2>2. CASE of[s] # [id |-> i, app |-> a]
    <3>1. of[s].id # i \/ of[s].app # a
      BY <1>1, <2>2
    <3>. QED BY <1>1, <1>2, <3>1 DEF DelLink
  <2>. QED BY <2>1, <2>2
<1>3. ASSUME NEW c \in CreateCalls, CreateContinues(c)
      PROVE  of[s].app \in links'[of[s].id] \/ Ending(s)'
  <2>1. CASE CreateUnlinksOld(c)
    <3>1. create[c].id \in Ids /\ create[c].app \in AppIds
      BY <2>1, CallTyped DEF TypeOK, CreateUnlinksOld
    <3>. QED BY <1>1, <1>2, <2>1, <3>1 DEF CreateUnlinksOld
  <2>2. CASE PutLinkOfSession(c)
    BY <1>1, <2>2 DEF PutLinkOfSession, PutLink
  <2>. QED BY <1>3, <2>1, <2>2 DEF CreateContinues, CreateRemovesOld, StoreSession, AddApp, LinkApp,
              CleanupSession
<1>4. ASSUME NEW c \in CreateCalls, NEW i \in Ids, NEW a \in AppIds, Create(c, i, a)
      PROVE  UNCHANGED links
  BY <1>4 DEF Create
<1>5. ASSUME NEW t \in SessionIds, UnlinkDestroyed(t)
      PROVE  of[s].app \in links'[of[s].id] \/ Ending(s)'
  <2>1. Destroyed(t, "unlink") \in [SessionIds -> DestroyCounts]
    BY <1>1, <1>5, DestroyedCounted DEF UnlinkDestroyed
  <2>2. of[t].id \in Ids /\ of[t].app \in AppIds
    BY <1>1
  <2>. QED BY <1>2, <1>5, <2>1, <2>2 DEF UnlinkDestroyed
<1>6. ASSUME NEW t \in SessionIds, OwnerDestroys(t) \/ RemoveStored(t) \/ Expire(t)
      PROVE  UNCHANGED links
  BY <1>6 DEF OwnerDestroys, RemoveStored, Expire
<1>7. ASSUME NEW i \in Ids, NEW a \in AppIds, RevokeUnlinks(i, a) \/ UnlinkAfterLoad(i, a)
      PROVE  of[s].app \in links'[of[s].id] \/ Ending(s)'
  BY <1>1, <1>2, <1>7 DEF RevokeUnlinks, UnlinkAfterLoad
<1>8. ASSUME NEW i \in Ids, NEW a \in AppIds, RemoteUnlink(i, a)
      PROVE  \/ of[s].app \in links'[of[s].id] \/ Ending(s)'
             \/ of[s].app \notin apps'[of[s].id] /\ UNCHANGED <<create, of>>
  <2>1. CASE a \in apps[i]
    BY <1>1, <1>2, <1>8, <2>1 DEF RemoteUnlink
  <2>2. CASE a \notin apps[i]
    BY <1>1, <1>8, <2>2 DEF RemoteUnlink, DelLink
  <2>. QED BY <2>1, <2>2
<1>9. ASSUME NEW i \in Ids, NEW a \in AppIds,
             RevokeApp(i, a) \/ RevokeDeletes(i, a) \/ RemoteDelApp(i, a) \/ RemotePutApp(i, a)
      PROVE  UNCHANGED links
  BY <1>9 DEF RevokeApp, RevokeDeletes, RemoteDelApp, RemotePutApp
<1>10. ASSUME NEW i \in Ids, DeviceRevoked(i) \/ RevocationHandled(i)
       PROVE  UNCHANGED links
  BY <1>10 DEF DeviceRevoked, RevocationHandled
<1>11. ASSUME NEW i \in Ids, RemoveIdentity(i)
       PROVE  of[s].app \in links'[of[s].id] \/ of[s].id \notin present'
  BY <1>1, <1>11 DEF RemoveIdentity, DropApps
<1>12. CASE Load \/ OutageChanges \/ UNCHANGED vars
  BY <1>12 DEF Load, OutageChanges, vars
<1>. QED
  BY <1>3, <1>4, <1>5, <1>6, <1>7, <1>8, <1>9, <1>10, <1>11, <1>12 DEF Next, Step, Reload

\* While a process lasts, identities go and revocations stay.
LEMMA IdentitiesGo ==
    ASSUME [Next]_vars, loaded, loaded'
    PROVE  present' \subseteq present /\ revoked \subseteq revoked'
BY ZenonT(40) DEF Next, Step, Create, CreateContinues, CreateRemovesOld, CreateUnlinksOld, StoreSession,
       AddApp, LinkApp, PutLinkOfSession, CleanupSession, OwnerDestroys, RemoveStored,
       UnlinkDestroyed, Expire, RevokeApp, RevokeUnlinks, RevokeDeletes, RemoteUnlink,
       RemoteDelApp, RemotePutApp, UnlinkAfterLoad, DeviceRevoked, RevocationHandled,
       RemoveIdentity, Load, Reload, OutageChanges, vars, identityVars

\* While a process lasts, only create() brings a session, which it then links.
LEMMA NewIsLinking ==
    ASSUME TypeOK, [Next]_vars, loaded', NEW s \in live' \ live
    PROVE  Linking(s)'
<1>1. ASSUME NEW c \in CreateCalls, CreateContinues(c) PROVE Linking(s)'
  BY <1>1, CallMoves DEF Linking, LinkPcs
<1>2. ASSUME NEW t \in SessionIds, RemoveStored(t) \/ Expire(t) PROVE live' \subseteq live
  BY <1>2 DEF RemoveStored, Expire, Forget
<1>. QED BY <1>1, <1>2, Bystanders DEF Bystander, sessionVars, Create, Reload

\* A session created without trouble is linked, about to be linked or being
\* destroyed, unless its identity is gone or revoked.
LinkOK ==
    /\ ~loaded \/ outage => live \subseteq doubtful
    /\ LinkCallsOK
    /\ \A s \in live \ doubtful :
          \/ of[s].id \notin present \ revoked
          \/ of[s].app \in links[of[s].id]
          \/ Ending(s) \/ Linking(s)

\* When everything has settled, a session that this process created without an
\* outage has its app linked to this device, so that a revocation of the app
\* on any device ends it, however create() (sessions/index.js:59-66),
\* destroy() (:89-103), revocations and replicated writes interleave.
THEOREM LiveLinked == SpecH => []LiveSessionIsLinked
<1>1. InitH => LinkOK
  BY DEF InitH, Init, LinkOK, LinkCallsOK, LinkPcs, NoCall
<1>2. TypeOK /\ LinkOK /\ [NextH]_historyVars => LinkOK'
  <2>1. SUFFICES ASSUME TypeOK, LinkOK, NextH PROVE LinkOK'
    BY DEF historyVars, vars, sessionVars, taskVars, identityVars, appsVars, LinkOK, LinkCallsOK,
       Ending, Linking
  <2>2. [Next]_vars /\ LinkCallsOK'
    BY <2>1, LinkCallsKept DEF NextH, LinkOK
  <2>3. ASSUME NEW s \in live' \ doubtful'
        PROVE  \/ of'[s].id \notin present' \ revoked'
               \/ of'[s].app \in links'[of'[s].id]
               \/ Ending(s)' \/ Linking(s)'
    <3>1. /\ loaded' /\ ~outage' /\ s \notin doubtful
          /\ ~AppDeleted(s)' /\ \A t \in live' : of'[t] = of'[s] => t = s
      BY <2>1, <2>3 DEF NextH, HasTwin
    <3>2. CASE s \notin live
      BY <2>1, <2>2, <2>3, <3>1, <3>2, NewIsLinking
    <3>3. CASE s \in live
      <4>1. loaded /\ ~outage /\ s \in SessionIds
        BY <2>1, <3>1, <3>3 DEF LinkOK, TypeOK
      <4>2. of'[s] = of[s]
        BY <2>1, <2>2, <3>3, <4>1, OfKept DEF Referred
      <4>3. CASE of[s].id \notin present \ revoked
        BY <2>2, <3>1, <4>1, <4>2, <4>3, IdentitiesGo
      <4>4. CASE of[s].app \in links[of[s].id]
        <5>1. CASE of[s].app \notin apps'[of[s].id] /\ UNCHANGED <<create, of>>
          <6>1. PICK c \in CreateCalls : create'[c].session = s /\ create'[c].pc = "add"
            BY <3>1, <4>2, <5>1 DEF AppDeleted
          <6>. QED BY <6>1 DEF Linking, LinkPcs
        <5>2. CASE of[s].app \in links'[of[s].id] \/ Ending(s)' \/ of[s].id \notin present'
          BY <4>2, <5>2
        <5>. QED BY <2>1, <2>2, <3>1, <3>3, <4>4, <5>1, <5>2, LinksKept
      <4>5. CASE Ending(s)
        BY <2>1, <2>2, <2>3, <3>1, <4>1, <4>5, DestroysKept
      <4>6. CASE Linking(s)
        <5>1. Linking(s)' \/ of[s].id \notin present \/ of[s].app \in links'[of[s].id]
          BY <2>1, <2>2, <2>3, <3>1, <3>3, <4>6, LinkingKept DEF LinkOK
        <5>. QED BY <2>2, <3>1, <4>1, <4>2, <5>1, IdentitiesGo
      <4>. QED BY <2>1, <3>1, <3>3, <4>3, <4>4, <4>5, <4>6 DEF LinkOK
    <3>. QED BY <3>2, <3>3
  <2>. QED BY <2>1, <2>2, <2>3 DEF LinkOK, NextH
<1>3. TypeOK /\ LinkOK => LiveSessionIsLinked
  <2>1. ASSUME TypeOK, Quiet, NEW s \in live PROVE ~Ending(s) /\ ~Linking(s)
    BY <2>1 DEF TypeOK, Quiet, Ending, Linking, NoDestroys, NoCall, LinkPcs
  <2>. QED BY <2>1 DEF LinkOK, LiveSessionIsLinked
<1>. QED
  BY <1>1, <1>2, <1>3, SessionsTypeCorrect, HistoryIsSpec, PTL DEF SpecH

-----------------------------------------------------------------------------
(* One session for each app.                                               *)

\* The sessions a reload would find, besides the live ones.
Restorable == live \union (disk \ expired)

\* Past its search, a call finds no session of p besides the old one.
Alone(c, p) ==
    /\ create[c].pc \in {"unlink", "store"} => \A s \in live : of[s] # p
    /\ create[c].pc = "remove" => \A s \in live : of[s] = p => s = create[c].session

\* The session was stored by a create() for p that is cleaning it up.
CleanedUp(s, p) == \E c \in CallsFor(p) : create[c].pc = "cleanup" /\ create[c].session = s

\* One call for p at a time, and one session that a reload could show; only
\* the cleanup of a failed create() leaves a session in storage alone.
OneOf(p) ==
    /\ ~Overlap(p)
    /\ \A s, t \in Restorable : of[s] = p /\ of[t] = p => s = t
    /\ \A s \in disk \ (live \union expired) : of[s] = p => CleanedUp(s, p)
    /\ \A c \in CallsFor(p) : Alone(c, p)

OneOK == \A p \in Pairs \ spoiled : OneOf(p)

\* Steps that bring no session of p and move no call for p disturb nothing.
LEMMA FewerSessions ==
    ASSUME NEW p \in Pairs, OneOf(p), UNCHANGED CallsFor(p),
           \A c \in CallsFor(p) : create'[c] = create[c],
           \A s \in live' : of'[s] = p => s \in live /\ of[s] = p,
           \A s \in disk' : of'[s] = p => of[s] = p,
           \A s \in Restorable' : of'[s] = p => s \in Restorable,
           \A s \in disk' \ (live' \union expired') : of'[s] = p => s \in disk \ (live \union expired)
    PROVE  OneOf(p)'
<1>1. ~Overlap(p)' /\ \A c \in CallsFor(p) : Alone(c, p)'
  BY DEF OneOf, Overlap, Alone
<1>2. \A s, t \in Restorable' : of'[s] = p /\ of'[t] = p => s = t
  <2>1. \A s \in Restorable' : of'[s] = p => of[s] = p
    BY DEF Restorable
  <2>. QED BY <2>1 DEF OneOf
<1>3. \A s \in disk' \ (live' \union expired') : of'[s] = p => CleanedUp(s, p)'
  BY DEF OneOf, CleanedUp
<1>. QED BY <1>1, <1>2, <1>3 DEF OneOf

\* A step of the only call for p keeps what it found, if it brings no session
\* and leaves none but its own in storage alone.
LEMMA CallAlone ==
    ASSUME NEW p \in Pairs, OneOf(p), NEW c \in CallsFor(p),
           CallsFor(p)' \subseteq {c}, UNCHANGED of, live' \subseteq live, Restorable' \subseteq Restorable,
           create'[c].pc # "idle" => Alone(c, p)',
           \A s \in disk' \ (live' \union expired') : of[s] = p => CleanedUp(s, p)'
    PROVE  OneOf(p)'
<1>1. \A d \in CallsFor(p)' : d = c /\ create'[d].pc # "idle"
  BY DEF CallsFor
<1>. QED BY <1>1 DEF OneOf, Overlap

\* A step of create() for p keeps one session, unless its cleanup fails.
LEMMA OneOfCall ==
    ASSUME TypeOK, LinkCallsOK, [Next]_vars, NEW p \in Pairs, OneOf(p),
           NEW c \in CallsFor(p), CreateContinues(c),
           create[c].pc = "cleanup" => create[c].session \notin disk'
    PROVE  OneOf(p)'
<1>. DEFINE r == create[c]
<1>. USE DEF sessionVars
<1>1. /\ create \in [CreateCalls -> CreateRecords] /\ c \in CreateCalls
      /\ \A b \in CreateCalls \ {c} : create'[b] = create[b]
      /\ r \in [pc : CreatePcs, id : Ids, app : AppIds, session : SessionIds \union {None}]
      /\ r.id = p.id /\ r.app = p.app /\ p = [id |-> r.id, app |-> r.app]
  BY OthersWait DEF TypeOK, CallsFor, CreateRecords, Pairs, NoCall
<1>2. CallsFor(p) = {c} /\ CallsFor(p)' \subseteq {c}
  <2>1. CallsFor(p) = {c}
    BY DEF OneOf, Overlap
  <2>. QED BY <1>1, <2>1 DEF CallsFor
<1>3. CASE CreateRemovesOld(c)
  <2>1. CASE Settle(c) /\ UNCHANGED <<live, disk, expired, of>>
    <3>1. create'[c].pc = "idle" /\ r.pc = "remove"
      BY <1>1, <1>3, <2>1 DEF Settle, NoCall, CreateRemovesOld
    <3>2. \A s \in disk' \ (live' \union expired') : of[s] # p
      BY <1>2, <2>1, <3>1 DEF OneOf, CleanedUp
    <3>. QED BY <1>2, <2>1, <3>1, <3>2, CallAlone DEF Restorable
  <2>2. CASE Forget(r.session) /\ UNCHANGED of /\ (Goto(c, "unlink") \/ Continue(c, "store", None))
    <3>1. /\ create'[c].pc \in {"unlink", "store"} /\ r.pc = "remove"
          /\ \A s \in live : of[s] = p => s = r.session
      BY <1>1, <1>3, <2>2 DEF CreateRemovesOld, Goto, Continue, OneOf, Alone
    <3>2. Alone(c, p)'
      BY <2>2, <3>1 DEF Alone, Forget
    <3>3. \A s \in disk' \ (live' \union expired') : of[s] # p
      BY <1>2, <2>2, <3>1 DEF OneOf, CleanedUp, Forget
    <3>. QED BY <1>2, <2>2, <3>2, <3>3, CallAlone DEF Restorable, Forget
  <2>. QED BY <1>3, <2>1, <2>2 DEF CreateRemovesOld
<1>4. CASE CreateUnlinksOld(c)
  <2>1. /\ create'[c].pc = "store" /\ r.pc = "unlink" /\ UNCHANGED <<live, disk, of, expired>>
    BY <1>1, <1>4 DEF CreateUnlinksOld, Continue
  <2>2. Alone(c, p)'
    BY <2>1 DEF OneOf, Alone
  <2>3. \A s \in disk' \ (live' \union expired') : of[s] # p
    BY <1>2, <2>1 DEF OneOf, CleanedUp
  <2>. QED BY <1>2, <2>1, <2>2, <2>3, CallAlone DEF Restorable
<1>5. CASE StoreSession(c)
  <2>1. CASE Settle(c) /\ UNCHANGED sessionVars
    <3>1. create'[c].pc = "idle" /\ r.pc = "store"
      BY <1>1, <1>5, <2>1 DEF Settle, NoCall, StoreSession
    <3>2. \A s \in disk' \ (live' \union expired') : of[s] # p
      BY <1>2, <2>1, <3>1 DEF OneOf, CleanedUp
    <3>. QED BY <1>2, <2>1, <3>1, <3>2, CallAlone DEF Restorable
  <2>2. ASSUME NEW s \in SessionIds, ~Referred(s),
               disk' = disk \union {s}, live' = live \union {s}, expired' = expired \ {s},
               of' = [of EXCEPT ![s] = p], Continue(c, "add", s)
        PROVE  OneOf(p)'
    <3>1. /\ create'[c].pc = "add" /\ r.pc = "store" /\ \A t \in live : of[t] # p
      BY <1>1, <1>5, <2>2 DEF StoreSession, Continue, OneOf, Alone
    <3>2. /\ \A t \in disk \ (live \union expired) : of[t] # p
          /\ s \notin live \union disk
      BY <1>2, <2>2, <3>1 DEF OneOf, CleanedUp, Referred
    <3>3. /\ Restorable' = Restorable \union {s}
          /\ disk' \ (live' \union expired') = disk \ (live \union expired)
      BY <2>2, <3>2 DEF Restorable
    <3>4. \A t \in Restorable : of'[t] # p
      BY <2>2, <3>1, <3>2 DEF Restorable, TypeOK
    <3>5. \A t \in disk \ (live \union expired) : of'[t] # p
      BY <2>2, <3>2
    <3>. QED BY <1>2, <3>1, <3>3, <3>4, <3>5 DEF OneOf, Overlap, Alone
  <2>. QED BY <1>1, <1>5, <2>1, <2>2 DEF StoreSession
<1>6. CASE Abandon(c) /\ UNCHANGED <<disk, expired, of>> /\ r.pc \in LinkPcs
  <2>1. /\ create'[c].pc = "cleanup" /\ create'[c].session = r.session
        /\ create'[c].id = r.id /\ create'[c].app = r.app /\ live' = live \ {r.session}
    BY <1>1, <1>6 DEF Abandon, Goto
  <2>2. CleanedUp(r.session, p)' /\ Alone(c, p)'
    BY <1>1, <2>1 DEF CleanedUp, CallsFor, Alone
  <2>3. \A s \in disk \ (live \union expired) : of[s] # p
    BY <1>2, <1>6 DEF OneOf, CleanedUp, LinkPcs
  <2>4. \A s \in disk' \ (live' \union expired') : of[s] = p => CleanedUp(s, p)'
    BY <1>6, <2>1, <2>2, <2>3
  <2>. QED BY <1>2, <1>6, <2>1, <2>2, <2>4, CallAlone DEF Restorable
<1>7. CASE /\ AddApp(c) \/ LinkApp(c) \/ PutLinkOfSession(c)
           /\ ~Abandon(c)
  <2>1. /\ create'[c].pc \in {"link", "linking", "idle"} /\ r.pc \in LinkPcs
        /\ UNCHANGED <<live, disk, of, expired>>
    BY <1>1, <1>7 DEF AddApp, LinkApp, PutLinkOfSession, Goto, Settle, NoCall, LinkPcs
  <2>2. Alone(c, p)'
    BY <2>1 DEF Alone
  <2>3. \A s \in disk' \ (live' \union expired') : of[s] # p
    BY <1>2, <2>1 DEF OneOf, CleanedUp, LinkPcs
  <2>. QED BY <1>2, <2>1, <2>2, <2>3, CallAlone DEF Restorable
<1>8. CASE CleanupSession(c)
  <2>1. /\ create'[c].pc = "idle" /\ r.pc = "cleanup" /\ expired' = expired \intersect disk'
        /\ disk' \subseteq disk /\ UNCHANGED <<live, of>>
    BY <1>1, <1>8 DEF CleanupSession, Settle, NoCall
  <2>2. \A s \in disk' \ (live' \union expired') : of[s] = p => FALSE
    BY <1>2, <2>1 DEF OneOf, CleanedUp
  <2>. QED BY <1>2, <2>1, <2>2, CallAlone DEF Restorable
<1>. QED
  BY <1>3, <1>4, <1>5, <1>6, <1>7, <1>8
  DEF CreateContinues, AddApp, LinkApp, PutLinkOfSession, LinkPcs

\* A step of create() for another identity or app brings nothing for p.
LEMMA OtherCall ==
    ASSUME TypeOK, LinkCallsOK, [Next]_vars, NEW p \in Pairs, OneOf(p),
           NEW c \in CreateCalls \ CallsFor(p), CreateContinues(c)
    PROVE  OneOf(p)'
<1>. DEFINE r == create[c]
<1>. USE DEF sessionVars
<1>1. /\ create \in [CreateCalls -> CreateRecords]
      /\ \A b \in CreateCalls \ {c} : create'[b] = create[b]
      /\ r \in [pc : CreatePcs, id : Ids, app : AppIds, session : SessionIds \union {None}]
      /\ p # [id |-> r.id, app |-> r.app]
      /\ create'[c].pc = "idle" \/ (create'[c].id = r.id /\ create'[c].app = r.app)
  <2>1. /\ create \in [CreateCalls -> CreateRecords] /\ r # NoCall
        /\ \A b \in CreateCalls \ {c} : create'[b] = create[b]
        /\ r \in [pc : CreatePcs, id : Ids, app : AppIds, session : SessionIds \union {None}]
    BY OthersWait DEF TypeOK, CreateRecords
  <2>2. r.pc # "idle" /\ ~(r.id = p.id /\ r.app = p.app)
    BY <2>1 DEF CallsFor, CreatePcs
  <2>3. \/ Settle(c) \/ Abandon(c)
        \/ \E pc \in CreatePcs : Goto(c, pc) \/ \E s \in SessionIds \union {None} : Continue(c, pc, s)
    BY DEF CreateContinues, CreateRemovesOld, CreateUnlinksOld, StoreSession, AddApp,
       LinkApp, PutLinkOfSession, CleanupSession, CreatePcs
  <2>4. CASE Settle(c)
    BY <2>1, <2>2, <2>4 DEF Settle, NoCall
  <2>5. ASSUME NEW pc, Goto(c, pc) PROVE create'[c].id = r.id /\ create'[c].app = r.app
    <3>1. create'[c] = [r EXCEPT !.pc = pc]
      BY <2>1, <2>5 DEF Goto
    <3>. QED BY <2>1, <3>1
  <2>6. ASSUME NEW pc, NEW s, Continue(c, pc, s)
        PROVE  create'[c].id = r.id /\ create'[c].app = r.app
    <3>1. create'[c] = [r EXCEPT !.pc = pc, !.session = s]
      BY <2>1, <2>6 DEF Continue
    <3>. QED BY <2>1, <3>1
  <2>. QED BY <2>1, <2>2, <2>3, <2>4, <2>5, <2>6 DEF Abandon
<1>2. UNCHANGED CallsFor(p) /\ \A b \in CallsFor(p) : create'[b] = create[b]
  BY <1>1 DEF CallsFor, Pairs
<1>3. CASE CreateRemovesOld(c) \/ CreateUnlinksOld(c) \/ CleanupSession(c)
  BY <1>2, <1>3, FewerSessions
  DEF CreateRemovesOld, CreateUnlinksOld, CleanupSession, Forget, Restorable
<1>4. CASE StoreSession(c)
  <2>1. CASE UNCHANGED sessionVars
    BY <1>2, <2>1, FewerSessions DEF Restorable
  <2>2. ASSUME NEW s \in SessionIds, disk' = disk \union {s}, live' = live \union {s},
               expired' = expired \ {s}, of' = [of EXCEPT ![s] = [id |-> r.id, app |-> r.app]]
        PROVE  OneOf(p)'
    <3>1. of'[s] # p /\ \A t \in SessionIds \ {s} : of'[t] = of[t]
      BY <1>1, <2>2 DEF TypeOK
    <3>. QED BY <1>2, <2>2, <3>1, FewerSessions DEF Restorable, TypeOK
  <2>. QED BY <1>4, <2>1, <2>2 DEF StoreSession
<1>5. CASE AddApp(c) \/ LinkApp(c) \/ PutLinkOfSession(c)
  <2>1. live' = live \/ (live' = live \ {r.session} /\ of[r.session] # p)
    BY <1>1, <1>5 DEF AddApp, LinkApp, PutLinkOfSession, Abandon, LinkCallsOK, LinkPcs
  <2>2. UNCHANGED <<disk, of, expired>>
    BY <1>5 DEF AddApp, LinkApp, PutLinkOfSession
  <2>. QED BY <1>2, <2>1, <2>2, FewerSessions DEF Restorable
<1>. QED BY <1>3, <1>4, <1>5 DEF CreateContinues

\* A session of each identity and app, unless calls for it overlap or the
\* cleanup of one fails.
LEMMA OneKept ==
    ASSUME TypeOK, LinkCallsOK, [Next]_vars, NEW p \in Pairs, OneOf(p), ~Overlap(p)',
           \A c \in CallsFor(p) :
              create[c].pc = "cleanup" /\ CreateContinues(c) => create[c].session \notin disk'
    PROVE  OneOf(p)'
<1>. USE DEF sessionVars
<1>1. create \in [CreateCalls -> CreateRecords]
  BY DEF TypeOK
<1>2. CASE Bystander \/ \E s \in SessionIds : RemoveStored(s) \/ Expire(s)
  <2>1. UNCHANGED create
    BY <1>2 DEF Bystander, RemoveStored, Expire, taskVars
  <2>2. UNCHANGED CallsFor(p)
    BY <2>1 DEF CallsFor
  <2>. QED
    BY <1>2, <2>1, <2>2, FewerSessions DEF Bystander, RemoveStored, Expire, Forget, Restorable
<1>3. ASSUME NEW c \in CreateCalls, NEW i \in Ids, NEW a \in AppIds, Create(c, i, a)
      PROVE  OneOf(p)'
  <2>1. /\ create'[c].pc = "store" => SessionsFor(i, a) = {}
        /\ create'[c].pc \in {"store", "remove"}
        /\ create'[c].id = i /\ create'[c].app = a
        /\ create'[c].pc = "remove" => create'[c].session \in SessionsFor(i, a)
        /\ create[c].pc = "idle"
    BY <1>1, <1>3 DEF Create, NewCall, NoCall
  <2>2. UNCHANGED <<live, disk, of, expired>> /\ \A b \in CreateCalls \ {c} : create'[b] = create[b]
    BY <1>1, <1>3 DEF Create
  <2>3. CASE p = [id |-> i, app |-> a]
    <3>1. CallsFor(p) = {} /\ CallsFor(p)' = {c}
      BY <2>1, <2>2, <2>3 DEF CallsFor, Overlap
    <3>2. Alone(c, p)'
      <4>1. create'[c].pc = "remove" => create'[c].session \in live /\ of[create'[c].session] = p
        BY <2>1, <2>3 DEF SessionsFor
      <4>. QED BY <2>1, <2>2, <2>3, <4>1 DEF Alone, SessionsFor, OneOf, Restorable
    <3>3. \A s \in disk \ (live \union expired) : of[s] # p
      BY <3>1 DEF OneOf, CleanedUp
    <3>. QED BY <2>2, <3>1, <3>2, <3>3 DEF OneOf, Restorable
  <2>4. CASE p # [id |-> i, app |-> a]
    <3>1. UNCHANGED CallsFor(p) /\ \A b \in CallsFor(p) : create'[b] = create[b]
      BY <2>1, <2>2, <2>4 DEF CallsFor, Pairs
    <3>. QED BY <2>2, <3>1, FewerSessions DEF Restorable
  <2>. QED BY <2>3, <2>4
<1>4. ASSUME NEW c \in CreateCalls, CreateContinues(c) PROVE OneOf(p)'
  BY <1>4, OneOfCall, OtherCall
<1>5. CASE Reload
  <2>1. CallsFor(p)' = {}
    BY <1>5 DEF Reload, CallsFor, NoCall
  <2>2. Restorable' \subseteq Restorable /\ disk' \ (live' \union expired') = {} /\ UNCHANGED of
    BY <1>5 DEF Reload, Restorable
  <2>. QED BY <2>1, <2>2 DEF OneOf, Overlap
<1>. QED BY <1>2, <1>3, <1>4, <1>5, Bystanders

\* An identity has one session for an app, whatever destroy(), create() calls
\* for others, revocations, replication, outages and reloads do between the
\* search of create() for an existing session and the write of the new one
\* (sessions/index.js:49-66): create() calls for both that overlap, and a
\* cleanup that fails, are the only ways to two sessions.
THEOREM OneSession == SpecH => []OneSessionPerApp
<1>1. InitH => OneOK /\ LinkCallsOK
  BY DEF InitH, Init, NoCall, OneOK, OneOf, Overlap, CallsFor, Restorable, LinkCallsOK, LinkPcs
<1>2. TypeOK /\ LinkCallsOK /\ LiveIsStored' /\ OneOK /\ [NextH]_historyVars => OneOK'
  <2>1. CASE UNCHANGED historyVars
    BY <2>1 DEF historyVars, vars, sessionVars, taskVars, OneOK, OneOf, Overlap, CallsFor, Restorable,
       CleanedUp, Alone, Pairs
  <2>2. ASSUME TypeOK, LinkCallsOK, LiveIsStored', OneOK, NextH, NEW p \in Pairs, p \notin spoiled'
        PROVE  OneOf(p)'
    <3>1. CASE ~InUse(p)'
      <4>1. CallsFor(p)' = {} /\ \A s \in disk' : of'[s] # p
        BY <3>1 DEF InUse
      <4>. QED BY <2>2, <4>1 DEF OneOf, Overlap, LiveIsStored, Restorable
    <3>2. CASE p \notin spoiled /\ ~Overlap(p)' /\ ~CleanupFails(p)
      <4>1. ASSUME NEW c \in CallsFor(p), create[c].pc = "cleanup", CreateContinues(c)
            PROVE  create[c].session \notin disk'
        <5>1. CleanupSession(c) /\ c \in CreateCalls
          BY <4>1 DEF CreateContinues, CreateRemovesOld, CreateUnlinksOld, StoreSession, AddApp,
             LinkApp, PutLinkOfSession, CallsFor
        <5>2. create'[c].pc = "idle"
          BY <2>2, <5>1 DEF CleanupSession, Settle, NoCall, TypeOK
        <5>3. create[c].session \in SessionIds \union {None}
          BY <2>2, <4>1, <5>1, CallTyped DEF TypeOK, CreateRecords, NoCall
        <5>4. disk' \subseteq SessionIds
          BY <2>2, SessionsTypeKept DEF NextH, TypeOK
        <5>5. create[c].session \notin leaked'
          BY <3>2, <4>1 DEF CleanupFails
        <5>. QED BY <2>2, <4>1, <5>1, <5>2, <5>4, <5>5 DEF NextH
      <4>2. OneOf(p) /\ [Next]_vars
        BY <2>2, <3>2 DEF OneOK, NextH
      <4>. QED BY <2>2, <3>2, <4>1, <4>2, OneKept
    <3>. QED BY <2>2, <3>1, <3>2 DEF NextH
  <2>. QED BY <2>1, <2>2 DEF OneOK, Pairs
<1>3. TypeOK /\ OneOK => OneSessionPerApp
  <2>1. ASSUME TypeOK, NEW s \in live PROVE of[s] \in Pairs
    BY <2>1 DEF TypeOK, Pairs
  <2>. QED BY <2>1 DEF OneOK, OneOf, OneSessionPerApp, Restorable
<1>4. TypeOK /\ LinkCallsOK /\ [NextH]_historyVars => LinkCallsOK'
  <2>1. [NextH]_historyVars => [Next]_vars
    BY DEF NextH, historyVars
  <2>. QED BY <2>1, LinkCallsKept
<1>. QED
  BY <1>1, <1>2, <1>3, <1>4, SessionsTypeCorrect, LiveStored, HistoryIsSpec, PTL DEF SpecH

-----------------------------------------------------------------------------
(* Repairs after a load.                                                   *)

\* The only step to loaded is the end of load().
LEMMA LoadLoads ==
    ASSUME Next, ~loaded, loaded'
    PROVE  Load
BY ZenonT(40) DEF Next, Step, Create, CreateContinues, CreateRemovesOld,
   CreateUnlinksOld, StoreSession, AddApp, LinkApp, PutLinkOfSession, CleanupSession,
   OwnerDestroys, RemoveStored, UnlinkDestroyed, Expire, RevokeApp, RevokeUnlinks,
   RevokeDeletes, RemoteUnlink, RemoteDelApp, RemotePutApp, UnlinkAfterLoad, DeviceRevoked,
   RevocationHandled, RemoveIdentity, Reload, OutageChanges

\* Without create() calls, no session and no link is new.
LEMMA NothingNew ==
    ASSUME TypeOK, [Next]_vars, loaded', \A c \in CreateCalls : create[c] = NoCall /\ create'[c] = NoCall
    PROVE  /\ UNCHANGED of /\ live' \subseteq live
           /\ \A i \in Ids : links'[i] \subseteq links[i]
<1>. USE DEF sessionVars, taskVars, identityVars, appsVars
<1>1. links \in [Ids -> SUBSET AppIds] /\ create \in [CreateCalls -> CreateRecords]
  BY DEF TypeOK, AppsTypeOK
<1>2. ASSUME NEW c \in CreateCalls PROVE ~CreateContinues(c)
  <2>1. create[c].pc = "idle"
    BY DEF NoCall
  <2>. QED BY <2>1 DEF CreateContinues, CreateRemovesOld, CreateUnlinksOld, StoreSession, AddApp,
              LinkApp, PutLinkOfSession, CleanupSession
<1>3. ASSUME NEW c \in CreateCalls, NEW i \in Ids, NEW a \in AppIds PROVE ~Create(c, i, a)
  <2>1. create'[c].pc = "idle"
    BY DEF NoCall
  <2>2. Create(c, i, a) => create'[c].pc \in {"store", "remove"}
    BY <1>1 DEF Create, NewCall
  <2>. QED BY <2>1, <2>2
<1>4. UNCHANGED of /\ live' \subseteq live
  BY <1>2, <1>3, Bystanders DEF Bystander, RemoveStored, Expire, Forget, Reload
<1>5. ASSUME NEW i, NEW a, DelLink(i, a) PROVE \A j \in Ids : links'[j] \subseteq links[j]
  BY <1>1, <1>5 DEF DelLink
<1>6. ASSUME NEW s \in SessionIds,
             OwnerDestroys(s) \/ RemoveStored(s) \/ UnlinkDestroyed(s) \/ Expire(s)
      PROVE  \A j \in Ids : links'[j] \subseteq links[j]
  BY <1>5, <1>6 DEF OwnerDestroys, RemoveStored, UnlinkDestroyed, Expire
<1>7. ASSUME NEW i \in Ids, NEW a \in AppIds,
             \/ RevokeApp(i, a) \/ RevokeUnlinks(i, a) \/ RevokeDeletes(i, a) \/ RemoteUnlink(i, a)
             \/ RemoteDelApp(i, a) \/ RemotePutApp(i, a) \/ UnlinkAfterLoad(i, a)
      PROVE  \A j \in Ids : links'[j] \subseteq links[j]
  BY <1>5, <1>7 DEF RevokeApp, RevokeUnlinks, RevokeDeletes, RemoteUnlink, RemoteDelApp,
     RemotePutApp, UnlinkAfterLoad
<1>8. ASSUME NEW i \in Ids, DeviceRevoked(i) \/ RevocationHandled(i) \/ RemoveIdentity(i)
      PROVE  \A j \in Ids : links'[j] \subseteq links[j]
  BY <1>1, <1>8 DEF DeviceRevoked, RevocationHandled, RemoveIdentity, DropApps
<1>9. CASE Load \/ OutageChanges \/ UNCHANGED vars
  BY <1>9 DEF Load, OutageChanges, vars
<1>10. \A i \in Ids : links'[i] \subseteq links[i]
  BY <1>2, <1>3, <1>6, <1>7, <1>8, <1>9 DEF Next, Step, Reload
<1>. QED BY <1>4, <1>10

\* A removed identity ends its sessions, a revoked one does once it is marked.
LEMMA IdentityEndsSessions ==
    ASSUME TypeOK, [Next]_vars, loaded, loaded', NEW s \in live,
           of[s].id \in (present \ revoked) \union marking
    PROVE  of[s].id \in (present' \ revoked') \union marking' \/ Ending(s)'
<1>. USE DEF identityVars
<1>1. destroying \in [SessionIds -> DestroyCounts] /\ live \subseteq SessionIds
  BY DEF TypeOK
<1>2. CASE UNCHANGED <<present, revoked, marking>>
  BY <1>2
<1>3. ASSUME NEW i \in Ids, DeviceRevoked(i) PROVE of[s].id \in (present' \ revoked') \union marking'
  BY <1>3 DEF DeviceRevoked
<1>4. ASSUME NEW i \in Ids, RevocationHandled(i) \/ RemoveIdentity(i)
      PROVE  of[s].id \in (present' \ revoked') \union marking' \/ Ending(s)'
  <2>1. Destroy(destroying, SessionsOf(i))
    BY <1>4 DEF RevocationHandled, RemoveIdentity
  <2>2. CASE of[s].id = i
    BY <1>1, <2>1, <2>2, DestroyStarts DEF SessionsOf
  <2>3. CASE of[s].id # i
    BY <1>4, <2>3 DEF RevocationHandled, RemoveIdentity
  <2>. QED BY <2>2, <2>3
<1>. QED
  BY <1>2, <1>3, <1>4, ZenonT(40) DEF Next, Step, Create, CreateContinues, CreateRemovesOld, CreateUnlinksOld,
     StoreSession, AddApp, LinkApp, PutLinkOfSession, CleanupSession, OwnerDestroys, RemoveStored,
     UnlinkDestroyed, Expire, RevokeApp, RevokeUnlinks, RevokeDeletes, RemoteUnlink, RemoteDelApp,
     RemotePutApp, UnlinkAfterLoad, Load, Reload, OutageChanges, vars

\* Without outage, a session of a listed app goes only by a destroy() that
\* then unlinks the app.
LEMMA GoneIsUnlinking ==
    ASSUME TypeOK, [Next]_vars, loaded, loaded', UNCHANGED of,
           \A c \in CreateCalls : create[c] = NoCall, NEW s \in live \ live',
           of[s].id \in present, of[s].app \in links[of[s].id]
    PROVE  Unlinking(s)'
<1>1. destroying \in [SessionIds -> DestroyCounts] /\ live \subseteq SessionIds
  BY DEF TypeOK
<1>2. ASSUME NEW c \in CreateCalls PROVE ~CreateContinues(c)
  BY DEF CreateContinues, CreateRemovesOld, CreateUnlinksOld, StoreSession, AddApp, LinkApp,
     PutLinkOfSession, CleanupSession, NoCall
<1>3. RemoveStored(s)
  BY <1>2, Bystanders DEF Bystander, sessionVars, Create, RemoveStored, Forget, Expire, Reload
<1>4. destroying' = [Destroyed(s, "remove") EXCEPT ![s].unlink = OneMore(@)]
  BY <1>3 DEF RemoveStored, Forget, NeedsUnlink
<1>5. Destroyed(s, "remove") \in [SessionIds -> DestroyCounts]
  BY <1>1, <1>3, DestroyedCounted DEF RemoveStored
<1>6. OneMore(Destroyed(s, "remove")[s].unlink) > 0
  <2>1. Destroyed(s, "remove")[s].unlink \in Nat
    BY <1>1, <1>5 DEF DestroyCounts
  <2>. QED BY <2>1, SessionsAssumption DEF OneMore
<1>7. destroying'[s].unlink = OneMore(Destroyed(s, "remove")[s].unlink)
  BY <1>1, <1>4, <1>5 DEF DestroyCounts
<1>. QED BY <1>6, <1>7 DEF Unlinking

\* Since a load that nothing disturbed: each session of an identity that is
\* gone or revoked is being destroyed or will be once the identity is marked,
\* and each listed app without a session is about to be unlinked.
RepairOK ==
    repairing =>
       /\ loaded /\ ~outage
       /\ \A c \in CreateCalls : create[c] = NoCall
       /\ \A s \in live : (of[s].id \in (present \ revoked) \union marking) \/ Ending(s)
       /\ \A i \in present : \A a \in Listed(i) :
             \/ SessionsFor(i, a) # {}
             \/ <<i, a>> \in loadUnlinks
             \/ \E s \in SessionIds : of[s] = [id |-> i, app |-> a] /\ Unlinking(s)

\* What is wrong at a load is put right: when everything has settled after a
\* load that no outage and no create() disturbed, no app is listed without a
\* session and no session belongs to an identity that is gone or revoked
\* (sessions/index.js:150-176), whatever destroy() calls, revocations and
\* replicated writes interleave.
THEOREM LoadRepairs == SpecH => []ReloadRepairs
<1>1. InitH => RepairOK
  BY DEF InitH, RepairOK
<1>2. TypeOK /\ RepairOK /\ [NextH]_historyVars => RepairOK'
  <2>1. SUFFICES ASSUME TypeOK, RepairOK, NextH, repairing' PROVE RepairOK'
    <3>1. ASSUME RepairOK, UNCHANGED historyVars PROVE RepairOK'
      <4>. USE <3>1 DEF historyVars, vars, sessionVars, taskVars, identityVars, appsVars
      <4>1. /\ \A i, a : SessionsFor(i, a)' = SessionsFor(i, a)
            /\ \A i : Listed(i)' = Listed(i)
            /\ \A s : Ending(s)' = Ending(s) /\ Unlinking(s)' = Unlinking(s)
        BY DEF SessionsFor, Listed, Ending, Unlinking
      <4>. QED BY <4>1 DEF RepairOK
    <3>. QED BY <3>1 DEF RepairOK
  <2>2. /\ [Next]_vars /\ loaded' /\ ~outage' /\ (repairing \/ ~loaded)
        /\ \A c \in CreateCalls : create'[c] = NoCall
        /\ \A i \in Ids : apps'[i] \subseteq apps[i]
    BY <2>1 DEF NextH
  <2>3. CASE ~loaded
    <3>1. Load
      BY <2>1, <2>2, <2>3, LoadLoads DEF NextH
    <3>2. UNCHANGED <<live, of, present, revoked, apps, links>> /\ HandleLoad
      BY <3>1 DEF Load, sessionVars, appsVars
    <3>3. ASSUME NEW s \in live', of'[s].id \notin present' \ revoked' PROVE Ending(s)'
      BY <2>1, <3>2, <3>3, DestroyStarts DEF HandleLoad, TypeOK
    <3>4. ASSUME NEW i \in present', NEW a \in Listed(i)', SessionsFor(i, a)' = {}
          PROVE  <<i, a>> \in loadUnlinks'
      <4>1. i \in Ids /\ a \in AppIds /\ a \in Listed(i) /\ SessionsFor(i, a) = {} /\ i \in present
        BY <2>1, <3>2, <3>4 DEF TypeOK, AppsTypeOK, Listed, SessionsFor
      <4>. QED BY <3>2, <4>1 DEF HandleLoad
    <3>. QED BY <2>1, <2>2, <3>3, <3>4 DEF RepairOK
  <2>4. CASE loaded /\ repairing
    <3>1. ~outage /\ \A c \in CreateCalls : create[c] = NoCall
      BY <2>1, <2>4 DEF RepairOK
    <3>2. /\ UNCHANGED of /\ live' \subseteq live /\ present' \subseteq present
          /\ \A i \in Ids : links'[i] \subseteq links[i]
      BY <2>1, <2>2, <2>4, <3>1, NothingNew, IdentitiesGo
    <3>3. ASSUME NEW s \in live'
          PROVE  of'[s].id \in (present' \ revoked') \union marking' \/ Ending(s)'
      <4>1. s \in live /\ s \in SessionIds /\ of'[s] = of[s]
        BY <2>1, <3>2, <3>3 DEF TypeOK
      <4>2. CASE Ending(s)
        BY <2>1, <2>2, <3>1, <3>3, <4>1, <4>2, DestroysKept
      <4>3. CASE of[s].id \in (present \ revoked) \union marking
        BY <2>1, <2>2, <2>4, <4>1, <4>3, IdentityEndsSessions
      <4>. QED BY <2>1, <2>4, <4>1, <4>2, <4>3 DEF RepairOK
    <3>4. ASSUME NEW i \in present', NEW a \in Listed(i)'
          PROVE  \/ SessionsFor(i, a)' # {}
                 \/ <<i, a>> \in loadUnlinks'
                 \/ \E s \in SessionIds : of'[s] = [id |-> i, app |-> a] /\ Unlinking(s)'
      <4>1. /\ i \in Ids /\ i \in present /\ a \in Listed(i) /\ a \in links'[i] /\ a \in links[i]
            /\ links \in [Ids -> SUBSET AppIds]
        BY <2>1, <2>2, <3>2, <3>4 DEF TypeOK, AppsTypeOK, Listed
      <4>2. ASSUME NEW s \in SessionsFor(i, a), s \notin live' PROVE Unlinking(s)' /\ s \in SessionIds
        <5>1. s \in live /\ of[s].id = i /\ of[s].app = a
          BY <4>2 DEF SessionsFor
        <5>. QED BY <2>1, <2>2, <2>4, <3>1, <3>2, <4>1, <4>2, <5>1, GoneIsUnlinking DEF TypeOK
      <4>3. CASE SessionsFor(i, a) # {}
        BY <3>2, <4>2, <4>3 DEF SessionsFor
      <4>4. CASE <<i, a>> \in loadUnlinks
        <5>1. ASSUME NEW j \in Ids, NEW b \in AppIds, UnlinkAfterLoad(j, b)
              PROVE  <<i, a>> \in loadUnlinks'
          BY <3>1, <4>1, <4>4, <5>1 DEF UnlinkAfterLoad, DelLink
        <5>2. CASE \A j \in Ids, b \in AppIds : ~UnlinkAfterLoad(j, b)
          BY <2>1, <2>2, <2>4, <4>4, <5>2, ZenonT(40) DEF NextH, Next, Step, Create, CreateContinues,
             CreateRemovesOld, CreateUnlinksOld, StoreSession, AddApp, LinkApp, PutLinkOfSession,
             CleanupSession, OwnerDestroys, RemoveStored, UnlinkDestroyed, Expire, RevokeApp,
             RevokeUnlinks, RevokeDeletes, RemoteUnlink, RemoteDelApp, RemotePutApp,
             DeviceRevoked, RevocationHandled, RemoveIdentity, Load, Reload, OutageChanges, taskVars
        <5>. QED BY <5>1, <5>2
      <4>5. ASSUME NEW s \in SessionIds, of[s] = [id |-> i, app |-> a], Unlinking(s)
            PROVE  of'[s] = [id |-> i, app |-> a] /\ Unlinking(s)'
        <5>1. of[s].id = i /\ of[s].app = a
          BY <4>5
        <5>2. links' # [links EXCEPT ![i] = @ \ {a}]
          BY <4>1
        <5>. QED BY <2>1, <2>2, <3>1, <3>2, <4>1, <4>5, <5>1, <5>2, DestroysKept
      <4>. QED BY <2>1, <2>4, <4>1, <4>3, <4>4, <4>5 DEF RepairOK
    <3>. QED BY <2>1, <2>2, <3>3, <3>4 DEF RepairOK
  <2>. QED BY <2>1, <2>2, <2>3, <2>4
<1>3. TypeOK /\ RepairOK => ReloadRepairs
  <2>1. ASSUME TypeOK, Quiet, NEW s \in SessionIds PROVE ~Ending(s) /\ ~Unlinking(s)
    BY <2>1 DEF Quiet, Ending, Unlinking, NoDestroys
  <2>. QED BY <2>1 DEF RepairOK, ReloadRepairs, Quiet, TypeOK
<1>. QED
  BY <1>1, <1>2, <1>3, SessionsTypeCorrect, HistoryIsSpec, PTL DEF SpecH

-----------------------------------------------------------------------------
(* Revocations.                                                            *)

\* A revocation that waits to be marked goes on to end the sessions.
LEMMA MarkEndsSessions ==
    ASSUME TypeOK, [Next]_vars, loaded, loaded', NEW s \in live, of[s].id \in marking
    PROVE  of[s].id \in marking' \/ Ending(s)'
<1>. USE DEF identityVars
<1>1. destroying \in [SessionIds -> DestroyCounts] /\ live \subseteq SessionIds
  BY DEF TypeOK
<1>2. ASSUME NEW i \in Ids, RevocationHandled(i) PROVE of[s].id \in marking' \/ Ending(s)'
  <2>1. Destroy(destroying, SessionsOf(i)) /\ marking' = marking \ {i}
    BY <1>2 DEF RevocationHandled
  <2>2. CASE of[s].id = i
    BY <1>1, <2>1, <2>2, DestroyStarts DEF SessionsOf
  <2>. QED BY <2>1, <2>2
<1>3. ASSUME NEW i \in Ids, DeviceRevoked(i) \/ RemoveIdentity(i) PROVE marking \subseteq marking'
  BY <1>3 DEF DeviceRevoked, RemoveIdentity
<1>4. CASE UNCHANGED marking
  BY <1>4
<1>. QED
  BY <1>2, <1>3, <1>4, ZenonT(40) DEF Next, Step, Create, CreateContinues, CreateRemovesOld, CreateUnlinksOld,
     StoreSession, AddApp, LinkApp, PutLinkOfSession, CleanupSession, OwnerDestroys, RemoveStored,
     UnlinkDestroyed, Expire, RevokeApp, RevokeUnlinks, RevokeDeletes, RemoteUnlink, RemoteDelApp,
     RemotePutApp, UnlinkAfterLoad, Load, Reload, OutageChanges, vars

\* What a revocation met waits for the mark or is being destroyed.
DoomedOK ==
    /\ doomed \subseteq live
    /\ doomed # {} => loaded
    /\ \A s \in doomed : of[s].id \in marking \/ Ending(s)

\* A revocation ends the sessions it meets (identity/index.js:97-116,
\* sessions/index.js:171-174, 196-202): whatever destroy(), create() and
\* unlink steps interleave, and wherever the process ends, none of them is left
\* when everything has settled, unless storage refused to remove it.
THEOREM RevocationEnds == SpecH => []RevocationEndsSessions
<1>1. InitH => DoomedOK
  BY DEF InitH, DoomedOK
<1>2. TypeOK /\ DoomedOK /\ [NextH]_historyVars => DoomedOK'
  <2>1. CASE UNCHANGED historyVars
    BY <2>1 DEF historyVars, vars, sessionVars, taskVars, identityVars, DoomedOK, Ending
  <2>2. ASSUME TypeOK, DoomedOK, NextH, loaded', NEW s \in doomed'
        PROVE  s \in live' /\ (of'[s].id \in marking' \/ Ending(s)')
    <3>1. /\ s \in live' /\ [Next]_vars
          /\ of'[s].id \in BeingRevoked \/ (s \in doomed /\ ~Refused(s))
      BY <2>2 DEF NextH
    <3>2. CASE ~loaded
      <4>1. Load /\ s \notin doomed
        BY <2>2, <3>2, LoadLoads DEF NextH, DoomedOK
      <4>2. /\ UNCHANGED <<live, of, present, revoked, deviceRevoked>> /\ HandleLoad
            /\ marking' = (deviceRevoked \intersect present) \ revoked
        BY <4>1 DEF Load, sessionVars
      <4>3. of'[s].id \in deviceRevoked' \union revoked'
        BY <3>1, <3>2, <4>1 DEF BeingRevoked
      <4>. QED BY <2>2, <3>1, <4>2, <4>3, DestroyStarts DEF HandleLoad, TypeOK
    <3>3. CASE loaded /\ of'[s].id \in marking'
      BY <3>1, <3>3
    <3>4. CASE loaded /\ s \in doomed /\ ~Refused(s)
      <4>1. s \in live /\ s \in SessionIds /\ of'[s] = of[s]
        BY <2>2, <3>1, <3>4, OfKept DEF DoomedOK, TypeOK, Referred
      <4>2. CASE of[s].id \in marking
        BY <2>2, <3>1, <3>4, <4>1, <4>2, MarkEndsSessions
      <4>3. CASE Ending(s)
        <5>1. TypeOK'
          BY <2>2, <3>1, SessionsTypeKept
        <5>2. destroying[s].remove \in Nat /\ destroying'[s].remove \in Nat
          BY <2>2, <4>1, <5>1 DEF TypeOK, DestroyCounts
        <5>. QED BY <3>1, <3>4, <4>3, <5>2 DEF Ending, Refused
      <4>. QED BY <2>2, <3>1, <3>4, <4>2, <4>3 DEF DoomedOK
    <3>. QED BY <3>1, <3>2, <3>3, <3>4 DEF BeingRevoked
  <2>3. NextH => (doomed' # {} => loaded')
    BY DEF NextH
  <2>. QED BY <2>1, <2>2, <2>3 DEF DoomedOK
<1>3. TypeOK /\ DoomedOK => RevocationEndsSessions
  <2>1. ASSUME TypeOK, Quiet, NEW s \in live PROVE ~Ending(s)
    BY <2>1 DEF TypeOK, Quiet, Ending, NoDestroys
  <2>. QED BY <2>1 DEF DoomedOK, RevocationEndsSessions, Quiet
<1>. QED
  BY <1>1, <1>2, <1>3, SessionsTypeCorrect, HistoryIsSpec, PTL DEF SpecH
=============================================================================
