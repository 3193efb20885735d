------------------------------- MODULE IdleTimer -------------------------------
(***************************************************************************)
(* The idle timer (locker/idle-timer.js) with its clock: the pending       *)
(* setTimeout, the bookkeeping getRemainingTime() is computed from, and    *)
(* setMaxTime() calls that decide whether to restart the timer BEFORE they *)
(* wait for storage.                                                       *)
(*                                                                         *)
(* Time advances in ticks.  A timer that is due runs before time passes.   *)
(***************************************************************************)
EXTENDS Integers

CONSTANTS Times,       \* arguments of setMaxTime
          DefaultMax,  \* DEFAULT_MAX_TIME
          TimerLimit,  \* the longest delay setTimeout takes, 2^31 - 1 ms
          Epoch,       \* the age of a reset timestamp, the ticks since 1970
          Calls,       \* identities of concurrent setMaxTime calls
          None

ASSUME IdleTimerAssumption ==
    /\ Times \subseteq Nat
    /\ DefaultMax \in Nat \ {0}
    /\ TimerLimit \in Nat \ {0}
    /\ Epoch \in Nat
    /\ \A t \in Times \union {DefaultMax} : t < Epoch
    /\ None \notin Nat

VARIABLES maxTime,     \* #maxTime
          stored,      \* the value under STORAGE_MAXTIME_KEY
          fuse,        \* ticks until the pending timeout fires, None if none
          timeoutTime, \* #timeoutTime, 0 also while it is undefined
          age,         \* Date.now() - #restartTimestamp
          call         \* setMaxTime calls in flight

timerVars == <<fuse, timeoutTime, age>>
vars == <<maxTime, stored, timerVars, call>>

NoCall == [pc |-> "idle", time |-> 0, isSmaller |-> FALSE]

\* A delay that does not fit in 32 bits fires after one tick.
Delay(t) == IF t > TimerLimit THEN 1 ELSE t

\* createIdleTimer: a stored 0 is falsy and counts as not stored.
LoadedMaxTime == IF stored \in {None, 0} THEN DefaultMax ELSE stored

Init ==
    /\ stored = None
    /\ maxTime = LoadedMaxTime
    /\ fuse = None
    /\ timeoutTime = 0
    /\ age = Epoch
    /\ call = [c \in Calls |-> NoCall]

-----------------------------------------------------------------------------
\* Mutant of Rearm: the timestamp of the previous restart is kept.
RearmKeepsTimestamp(max) ==
    /\ timeoutTime' = max
    /\ fuse' = Delay(max)
    /\ UNCHANGED age

\* The pending timeout, if any, is replaced by one of the given length.
Rearm(max) ==
    /\ timeoutTime' = max
    /\ fuse' = Delay(max)
    /\ age' = 0

Restart == Rearm(maxTime) /\ UNCHANGED <<maxTime, stored, call>>

HandleTimeout ==
    /\ fuse = 0
    /\ fuse' = None
    /\ timeoutTime' = 0
    /\ age' = Epoch
    /\ UNCHANGED <<maxTime, stored, call>>

\* Time passes while no timer is due.  Ages beyond Epoch are cut to Epoch.
Tick ==
    /\ fuse # 0
    /\ fuse' = IF fuse = None THEN None ELSE fuse - 1
    /\ age' = IF age < Epoch THEN age + 1 ELSE age
    /\ UNCHANGED <<maxTime, stored, timeoutTime, call>>

\* Mutant of SetMaxTime: the maximum is in force before it is stored.
AssignBeforePut(c, time) ==
    /\ call[c] = NoCall
    /\ maxTime' = time
    /\ call' = [call EXCEPT ![c] =
                  [pc |-> "put", time |-> time, isSmaller |-> time < maxTime]]
    /\ UNCHANGED <<stored, timerVars>>

\* isSmaller compares with the maximum at the time of the call.
SetMaxTime(c, time) ==
    /\ call[c] = NoCall
    /\ call' = [call EXCEPT ![c] =
                  [pc |-> "put", time |-> time, isSmaller |-> time < maxTime]]
    /\ UNCHANGED <<maxTime, stored, timerVars>>

\* The database takes the write, or rejects it and so does the call.
PutMaxTime(c) ==
    /\ call[c].pc = "put"
    /\ \/ /\ stored' = call[c].time
          /\ call' = [call EXCEPT ![c].pc = "stored"]
       \/ /\ call' = [call EXCEPT ![c] = NoCall]
          /\ UNCHANGED stored
    /\ UNCHANGED <<maxTime, timerVars>>

\* Mutant of ApplyMaxTime: the timer is restarted with the old maximum.
ApplyAfterRestart(c) ==
    /\ call[c].pc = "stored"
    /\ maxTime' = call[c].time
    /\ IF fuse # None /\ call[c].isSmaller THEN Rearm(maxTime) ELSE UNCHANGED timerVars
    /\ call' = [call EXCEPT ![c] = NoCall]
    /\ UNCHANGED stored

ApplyMaxTime(c) ==
    /\ call[c].pc = "stored"
    /\ maxTime' = call[c].time
    /\ IF fuse # None /\ call[c].isSmaller THEN Rearm(maxTime') ELSE UNCHANGED timerVars
    /\ call' = [call EXCEPT ![c] = NoCall]
    /\ UNCHANGED stored

\* The process ends and a new one loads the timer.
Reload ==
    /\ maxTime' = LoadedMaxTime
    /\ fuse' = None
    /\ timeoutTime' = 0
    /\ age' = Epoch
    /\ call' = [c \in Calls |-> NoCall]
    /\ UNCHANGED stored

Next ==
    \/ Restart
    \/ HandleTimeout
    \/ Tick
    \/ \E c \in Calls :
          \/ \E time \in Times : SetMaxTime(c, time)
          \/ PutMaxTime(c)
          \/ ApplyMaxTime(c)
    \/ Reload

Spec == Init /\ [][Next]_vars

-----------------------------------------------------------------------------
GetRemainingTime == IF timeoutTime - age > 0 THEN timeoutTime - age ELSE 0

TypeOK ==
    /\ maxTime \in Times \union {DefaultMax}
    /\ stored \in Times \union {None}
    /\ fuse \in Nat \union {None}
    /\ timeoutTime \in Times \union {DefaultMax, 0}
    /\ age \in 0..Epoch
    /\ call \in [Calls -> [pc : {"idle", "put", "stored"}, time : Times \union {0},
                           isSmaller : BOOLEAN]]
    /\ \A c \in Calls : call[c].pc # "idle" => call[c].time \in Times

\* What getRemainingTime() computes from its own clock is when the runtime's
\* timer fires: zero without a timer, through restarts, shortened maxima and
\* reloads.  Delays beyond 32 bits are the exception: those fire at once.
RemainingTimeIsTruthful ==
    IF fuse = None
      THEN GetRemainingTime = 0
      ELSE timeoutTime <= TimerLimit => GetRemainingTime = fuse

\* Lowering the maximum takes effect on the timeout already pending: no timer
\* has longer to run than getMaxTime() tells the owner (idle-timer.js:54, and
\* the test "should set max time correctly and restart timeout if time is
\* smaller").  It holds while setMaxTime calls do not overlap.
PendingWithinMax == fuse # None => fuse <= maxTime

\* With no setMaxTime call past its write, the maximum in force is the one a
\* new process would load, also after writes that failed; except a maximum
\* of 0, which the new process replaces by the default.
StoredIsInForce ==
    (\A c \in Calls : call[c].pc # "stored") /\ stored # 0 => maxTime = LoadedMaxTime

-----------------------------------------------------------------------------
(* The timer as the locker sees it.                                        *)

Timer == INSTANCE Countdown WITH
             Default <- DefaultMax,
             Longest <- TimerLimit,
             max <- maxTime,
             left <- IF fuse = None THEN None ELSE GetRemainingTime,
             length <- timeoutTime,
             asked <- {call[c].time : c \in {d \in Calls : call[d].pc # "idle"}}

\* setMaxTime() calls that do not overlap behave as one step that sets the
\* maximum and shortens the pending timeout, although the comparison is made
\* before the write and the rest after it, and although the write may fail and
\* the process end in between; the timeout comes when getRemainingTime()
\* reaches zero, and not before unless it was too long for the runtime.
CountdownSpec == Timer!Spec
=============================================================================
