------------------------------ MODULE SessionBook ------------------------------
(***************************************************************************)
(* What the sessions promise their owner.  A session begins and ends at    *)
(* once, the end of the process ends none, and one that create() returned  *)
(* never comes back after it ended.  Only a session whose create() failed  *)
(* may come back, with the next process, until storage has given it up.    *)
(***************************************************************************)
CONSTANT Sessions

VARIABLES valid,    \* the sessions that are valid
          starting, \* those among them whose create() has not returned
          failed    \* sessions of failed create() calls that may come back

vars == <<valid, starting, failed>>

Init == valid = {} /\ starting = {} /\ failed = {}

Begin(s) ==
    /\ s \notin valid \union failed
    /\ valid' = valid \union {s}
    /\ starting' = starting \union {s}
    /\ UNCHANGED failed

Return(s) == starting' = starting \ {s} /\ UNCHANGED <<valid, failed>>

\* It is destroyed or expires.
End(s) ==
    /\ s \in valid
    /\ valid' = valid \ {s}
    /\ starting' = starting \ {s}
    /\ UNCHANGED failed

Fail(s) ==
    /\ s \in starting
    /\ valid' = valid \ {s}
    /\ starting' = starting \ {s}
    /\ failed' = failed \union {s}

GiveUp(s) == failed' = failed \ {s} /\ UNCHANGED <<valid, starting>>

\* A new process takes the place of the one that ends.
Restart ==
    /\ valid' = valid \union failed
    /\ starting' = {}
    /\ failed' = {}

Next == (\E s \in Sessions : Begin(s) \/ Return(s) \/ End(s) \/ Fail(s) \/ GiveUp(s)) \/ Restart

Spec == Init /\ [][Next]_vars
=============================================================================
