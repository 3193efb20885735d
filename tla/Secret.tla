-------------------------------- MODULE Secret --------------------------------
(***************************************************************************)
(* The wallet secret held in memory and the semaphore that callers of      *)
(* getAsync() wait on (secret/index.js).                                   *)
(*                                                                         *)
(* The semaphore is a deferred promise that set() resolves and unset()     *)
(* replaces.  A caller keeps the promise it awaited: `waiting` are the     *)
(* callers suspended on the CURRENT promise, `released` those whose        *)
(* promise is resolved and whose continuation has not run.  A caller that  *)
(* awaits and is in neither set holds a promise nobody will ever resolve.  *)
(***************************************************************************)

CONSTANTS Keys,      \* the 256-bit keys generateCypherKey() can return
          None,      \* null and undefined
          Callers    \* the asynchronous calls that may wait for the secret

VARIABLES secret,    \* #secret
          resolved,  \* whether the current #semaphore is resolved
          waiting,   \* callers suspended on the current #semaphore
          released   \* callers whose promise is resolved, not yet resumed

secretVars == <<secret, resolved, waiting, released>>

-----------------------------------------------------------------------------
Has == secret # None

\* The secret is assigned before the semaphore is resolved; every caller of
\* the current promise becomes runnable.
Set(k) ==
    /\ secret' = k
    /\ resolved' = TRUE
    /\ released' = released \union waiting
    /\ waiting' = {}

\* Mutant of Unset: without the early return, the semaphore is replaced even
\* when it is still pending.
UnsetUnchecked ==
    /\ secret' = None
    /\ resolved' = FALSE
    /\ waiting' = {}
    /\ UNCHANGED released

\* The current promise is dropped for a fresh one, which nobody awaits yet.
Unset ==
    IF Has
      THEN /\ secret' = None
           /\ resolved' = FALSE
           /\ waiting' = {}
           /\ UNCHANGED released
      ELSE UNCHANGED secretVars

\* c awaits the promise that is current at the moment of the call.
GetAsync(c) ==
    /\ IF resolved
         THEN released' = released \union {c} /\ UNCHANGED waiting
         ELSE waiting' = waiting \union {c} /\ UNCHANGED released
    /\ UNCHANGED <<secret, resolved>>

\* The continuation of getAsync runs: it returns whatever `secret` is now,
\* which is None when unset() ran after the promise was resolved.
Resume(c) ==
    /\ c \in released
    /\ released' = released \ {c}
    /\ UNCHANGED <<secret, resolved, waiting>>

SecretTypeOK ==
    /\ secret \in Keys \union {None}
    /\ resolved \in BOOLEAN
    /\ waiting \subseteq Callers
    /\ released \subseteq Callers
=============================================================================
