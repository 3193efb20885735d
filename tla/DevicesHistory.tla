---------------------------- MODULE DevicesHistory ----------------------------
(***************************************************************************)
(* Devices, remembering for each entry of the store what its writer had    *)
(* when it wrote it: the causal past that OrbitDB keeps as links.          *)
(***************************************************************************)
EXTENDS Devices

VARIABLE past \* pairs of an entry and an entry its writer had

historyVars == <<vars, past>>

InitH == Init /\ past = {}

\* Entries that are written, not replicated, in this step.
Written(d) == {e \in log'[d] \ log[d] : e.by = d}

NextH ==
    /\ Next
    /\ past' = past \union UNION {Written(d) \X log[d] : d \in Devices}

SpecH == InitH /\ [][NextH]_historyVars

-----------------------------------------------------------------------------
\* No wallet undoes a revocation it knows of.  Where an active entry of a device
\* hides a revoked one, it is, or was written over, an update made by someone
\* who did not know of the revocation, nor the revoker of the update: neither a
\* late write of an old snapshot nor an update of a device known to be revoked.
RevocationSticks ==
    \A d \in Devices : \A r, e \in log[d] :
       r.revoked /\ ~e.revoked /\ r.key = e.key /\ Earlier(r, e) =>
          \E u \in log[d] :
             /\ u.key = e.key /\ ~u.revoked
             /\ u = e \/ <<e, u>> \in past
             /\ <<u, r>> \notin past /\ <<r, u>> \notin past
=============================================================================
