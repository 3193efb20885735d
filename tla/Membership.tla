------------------------------ MODULE Membership ------------------------------
(***************************************************************************)
(* What an identity promises about its devices.  A device joins once, its  *)
(* key leaves the DID document for good, and a device is told that it was  *)
(* revoked only when its key has left: so that none gives up an identity   *)
(* whose document still trusts it.  It may forget until it has noted it.   *)
(***************************************************************************)
CONSTANT Devices

VARIABLES members, \* the devices whose keys are in the DID document
          standing \* what each device knows of itself

vars == <<members, standing>>

Init == members = {} /\ standing = [d \in Devices |-> "absent"]

Becomes(d, s) == standing' = [standing EXCEPT ![d] = s]

Join(d) ==
    /\ standing[d] = "absent"
    /\ Becomes(d, "joined")
    /\ members' = members \union {d}

Withdraw(d) == members' = members \ {d} /\ UNCHANGED standing

Tell(d) ==
    /\ standing[d] = "joined"
    /\ d \notin members
    /\ Becomes(d, "told")
    /\ UNCHANGED members

Note(d) == standing[d] = "told" /\ Becomes(d, "noted") /\ UNCHANGED members

Forget(d) == standing[d] = "told" /\ Becomes(d, "joined") /\ UNCHANGED members

Leave(d) ==
    /\ standing[d] \notin {"absent", "gone"}
    /\ Becomes(d, "gone")
    /\ members' \in {members, members \ {d}}

Next ==
    \E d \in Devices :
       Join(d) \/ Withdraw(d) \/ Tell(d) \/ Note(d) \/ Forget(d) \/ Leave(d)

Spec == Init /\ [][Next]_vars
=============================================================================
