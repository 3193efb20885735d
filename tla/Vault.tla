--------------------------------- MODULE Vault ---------------------------------
(***************************************************************************)
(* What the locker promises the rest of the wallet about its secret.  A    *)
(* vault starts open with a key of its own; the key becomes durable once,  *)
(* and from then on the vault is closed or open with that very key,        *)
(* through locks, unlocks and the end of the process.                      *)
(***************************************************************************)
CONSTANTS Keys, None

VARIABLES durable, \* the key that survives the process, None before there is one
          open     \* the key in memory, None while the vault is closed

Init == durable = None /\ open \in Keys

\* The first configuration of the master lock makes the open key durable.
Commit == durable = None /\ durable' = open /\ UNCHANGED open

Close == durable # None /\ open' = None /\ UNCHANGED durable

Open == durable # None /\ open' = durable /\ UNCHANGED durable

\* A vault that was never committed forgets its key with the process.
Forget == durable = None /\ open' \in Keys \ {open} /\ UNCHANGED durable

Next == Commit \/ Close \/ Open \/ Forget

Spec == Init /\ [][Next]_<<durable, open>>
=============================================================================
