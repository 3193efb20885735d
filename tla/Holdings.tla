------------------------------- MODULE Holdings -------------------------------
(***************************************************************************)
(* What the wallet promises about its identities.  Each is held as a whole *)
(* or not at all: it begins and ends in one step, is shown only as it is   *)
(* held, a new process shows all that is held, and it is hidden only when  *)
(* it is no longer held.  Only a torn identity, of which a failure left    *)
(* parts, may be held again without being made.                            *)
(***************************************************************************)
CONSTANTS Ids, Devices, None

VARIABLES held,  \* as which device the next process has an identity, or None
          shown, \* as which device this process has it, or None
          torn   \* identities of which a failure left parts

vars == <<held, shown, torn>>

Init ==
    /\ held = [i \in Ids |-> None]
    /\ shown = [i \in Ids |-> None]
    /\ torn = {}

Make(i, d) ==
    /\ held[i] = None /\ shown[i] = None
    /\ held' = [held EXCEPT ![i] = d]
    /\ UNCHANGED shown

Show(i) ==
    /\ held[i] # None /\ shown[i] = None
    /\ shown' = [shown EXCEPT ![i] = held[i]]
    /\ UNCHANGED held

Drop(i) == held' = [held EXCEPT ![i] = None] /\ UNCHANGED shown

Hide(i) ==
    /\ held[i] = None
    /\ shown' = [shown EXCEPT ![i] = None]
    /\ UNCHANGED held

\* What a failure left is completed, as whatever device it belonged to.
Revive(i, d) ==
    /\ i \in torn'
    /\ held' = [held EXCEPT ![i] = d]
    /\ UNCHANGED shown

End == shown' = [i \in Ids |-> None] /\ UNCHANGED held

Load ==
    /\ shown = [i \in Ids |-> None]
    /\ shown' = held
    /\ UNCHANGED held

\* Only what is not held can be mended.
Mends == \A i \in Ids : i \in torn \ torn' => held'[i] = None

Next ==
    /\ Mends
    /\ \/ \E i \in Ids : \/ Show(i) \/ Drop(i) \/ Hide(i)
                         \/ \E d \in Devices : Make(i, d) \/ Revive(i, d)
       \/ End \/ Load
       \/ UNCHANGED <<held, shown>>

Spec == Init /\ [][Next]_vars
=============================================================================
