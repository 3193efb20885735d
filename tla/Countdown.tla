------------------------------- MODULE Countdown -------------------------------
(***************************************************************************)
(* What the idle timer promises the locker.  A countdown that is started   *)
(* shows the time left, rings when none is left and not before, and        *)
(* setMaxTime() changes the maximum and a running countdown in one step,   *)
(* or neither; only the end of the process may decide for it.              *)
(***************************************************************************)
EXTENDS Integers

CONSTANTS Times,   \* the maxima the owner may ask for
          Default, \* the maximum until another is set
          Longest, \* countdowns beyond this length may ring too early
          None

VARIABLES max,    \* the length of the next countdown
          left,   \* the time left, None while none is running
          length, \* the length of the countdown that is running, 0 if none is
          asked   \* the maxima of the setMaxTime() calls that have not returned

vars == <<max, left, length, asked>>

Init == max = Default /\ left = None /\ length = 0 /\ asked = {}

Run(m) == left' = m /\ length' = m

Stop == left' = None /\ length' = 0

Start == Run(max) /\ UNCHANGED <<max, asked>>

Elapse ==
    /\ left \notin {None, 0}
    /\ left' = left - 1
    /\ UNCHANGED <<max, length, asked>>

Ring ==
    /\ left # None
    /\ left = 0 \/ length > Longest
    /\ Stop
    /\ UNCHANGED <<max, asked>>

Ask(m) == asked' = asked \union {m} /\ UNCHANGED <<max, left, length>>

Refuse(m) == asked' = asked \ {m} /\ UNCHANGED <<max, left, length>>

\* A countdown that is running is started again if the new maximum is smaller.
SetMax(m) ==
    /\ m \in asked
    /\ asked' = asked \ {m}
    /\ max' = m
    /\ IF left # None /\ m < max THEN Run(m) ELSE UNCHANGED <<left, length>>

\* The next process keeps the maximum, or takes one that was asked for; it
\* takes a maximum of 0 for none.
Restart ==
    /\ \E m \in {max} \union asked : max' = IF m = 0 THEN Default ELSE m
    /\ Stop
    /\ asked' = {}

Next ==
    \/ Start \/ Elapse \/ Ring \/ Restart
    \/ \E m \in Times : Ask(m) \/ Refuse(m) \/ SetMax(m)

Spec == Init /\ [][Next]_vars
=============================================================================
