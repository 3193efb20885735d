--------------------------------- MODULE Apps ---------------------------------
(***************************************************************************)
(* The applications of the identities (identities/identity/apps.js), as    *)
(* the current device sees them: the replicated store of apps and, of the  *)
(* replicated store of app-device links, the links of this device.         *)
(*                                                                         *)
(* OrbitDB updates a store's index and emits its event in one turn, so the *)
(* handler's view (currentDeviceAppsMap) never lags behind the stores.     *)
(***************************************************************************)

CONSTANTS Ids,     \* identities
          AppIds   \* applications

VARIABLES apps,      \* the apps store of each identity
          links,     \* the apps this device is linked to, of each identity
          revoking   \* where the apps.revoke() call of each app stands

appsVars == <<apps, links, revoking>>

AppsInit ==
    /\ apps = [i \in Ids |-> {}]
    /\ links = [i \in Ids |-> {}]
    /\ revoking = [i \in Ids |-> [a \in AppIds |-> "idle"]]

\* list(): a link whose app is unknown is not shown.
Listed(i) == apps[i] \intersect links[i]

PutApp(i, a) == apps' = [apps EXCEPT ![i] = @ \union {a}]
DelApp(i, a) == apps' = [apps EXCEPT ![i] = @ \ {a}]
PutLink(i, a) == links' = [links EXCEPT ![i] = @ \union {a}]
DelLink(i, a) == links' = [links EXCEPT ![i] = @ \ {a}]

Revoking(i, a, pc) == revoking' = [revoking EXCEPT ![i][a] = pc]

\* The stores of an identity are dropped with it.
DropApps(i) ==
    /\ apps' = [apps EXCEPT ![i] = {}]
    /\ links' = [links EXCEPT ![i] = {}]

AppsTypeOK ==
    /\ apps \in [Ids -> SUBSET AppIds]
    /\ links \in [Ids -> SUBSET AppIds]
    /\ revoking \in [Ids -> [AppIds -> {"idle", "unlink", "delete"}]]
=============================================================================
