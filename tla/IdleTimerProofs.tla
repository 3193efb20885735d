---------------------------- MODULE IdleTimerProofs ----------------------------
(***************************************************************************)
(* Theorems about IdleTimer, for every set of maxima, default, limit and   *)
(* clock range; the last three for setMaxTime calls that do not overlap.   *)
(***************************************************************************)
EXTENDS IdleTimer, TLAPS

-----------------------------------------------------------------------------
\* The timer's bookkeeping keeps its type: in particular the maximum in force
\* is always one the owner set or the default, never a missing value.
THEOREM TimerTypeCorrect == Spec => []TypeOK
<1> USE IdleTimerAssumption
<1>1. Init => TypeOK
  BY DEF Init, LoadedMaxTime, NoCall, TypeOK
<1>2. TypeOK /\ [Next]_vars => TypeOK'
  <2> SUFFICES ASSUME TypeOK, [Next]_vars PROVE TypeOK'
    OBVIOUS
  <2>1. CASE Restart
    BY <2>1 DEF Restart, Rearm, Delay, TypeOK
  <2>2. CASE HandleTimeout
    BY <2>2 DEF HandleTimeout, TypeOK
  <2>3. CASE Tick
    BY <2>3 DEF Tick, TypeOK
  <2>4. ASSUME NEW c \in Calls, NEW time \in Times, SetMaxTime(c, time) PROVE TypeOK'
    BY <2>4 DEF SetMaxTime, timerVars, TypeOK
  <2>5. ASSUME NEW c \in Calls, PutMaxTime(c) PROVE TypeOK'
    <3>1. call[c].time \in Times
      BY <2>5 DEF PutMaxTime, TypeOK
    <3>2. CASE stored' = call[c].time /\ call' = [call EXCEPT ![c].pc = "stored"]
      BY <2>5, <3>1, <3>2 DEF PutMaxTime, timerVars, TypeOK
    <3>3. CASE call' = [call EXCEPT ![c] = NoCall] /\ UNCHANGED stored
      BY <2>5, <3>3 DEF PutMaxTime, timerVars, NoCall, TypeOK
    <3>4. QED
      BY <2>5, <3>2, <3>3 DEF PutMaxTime
  <2>6. ASSUME NEW c \in Calls, ApplyMaxTime(c) PROVE TypeOK'
    <3>1. call[c].time \in Times
      BY <2>6 DEF ApplyMaxTime, TypeOK
    <3>2. maxTime' \in Times /\ (UNCHANGED timerVars \/ Rearm(maxTime'))
      BY <2>6, <3>1 DEF ApplyMaxTime
    <3>3. fuse' \in Nat \union {None} /\ age' \in 0..Epoch
          /\ timeoutTime' \in Times \union {DefaultMax, 0}
      BY <3>2 DEF Rearm, Delay, timerVars, TypeOK
    <3>4. QED
      BY <2>6, <3>2, <3>3 DEF ApplyMaxTime, NoCall, TypeOK
  <2>7. CASE Reload
    BY <2>7 DEF Reload, LoadedMaxTime, NoCall, TypeOK
  <2>8. CASE UNCHANGED vars
    BY <2>8 DEF vars, timerVars, TypeOK
  <2>9. QED
    BY <2>1, <2>2, <2>3, <2>4, <2>5, <2>6, <2>7, <2>8 DEF Next
<1>3. QED
  BY <1>1, <1>2, PTL DEF Spec

-----------------------------------------------------------------------------
\* While a timeout is pending it is due when the restart timestamp says, and
\* without one the bookkeeping is reset.
ClockOK ==
    /\ fuse = None => timeoutTime = 0
    /\ fuse # None /\ timeoutTime <= TimerLimit => fuse = timeoutTime - age
    /\ fuse # None /\ ~(timeoutTime <= TimerLimit) => fuse = 1 - age

LEMMA RearmClock ==
    ASSUME NEW max \in Nat, Rearm(max)
    PROVE  ClockOK'
BY IdleTimerAssumption DEF Rearm, Delay, ClockOK

LEMMA ClockKept == Spec => []ClockOK
<1> USE IdleTimerAssumption
<1>1. Init => ClockOK
  BY DEF Init, ClockOK
<1>2. TypeOK /\ ClockOK /\ [Next]_vars => ClockOK'
  <2> SUFFICES ASSUME TypeOK, ClockOK, [Next]_vars PROVE ClockOK'
    OBVIOUS
  <2>1. CASE Restart
    BY <2>1, RearmClock DEF Restart, TypeOK
  <2>2. CASE HandleTimeout \/ Reload
    BY <2>2 DEF HandleTimeout, Reload, ClockOK
  <2>3. CASE Tick
    <3>1. CASE fuse = None
      BY <2>3, <3>1 DEF Tick, ClockOK
    <3>2. CASE fuse # None /\ timeoutTime <= TimerLimit
      <4>1. fuse \in Nat \ {0} /\ fuse = timeoutTime - age /\ timeoutTime \in Nat
            /\ age \in Nat /\ timeoutTime <= Epoch
        BY <2>3, <3>2 DEF Tick, TypeOK, ClockOK
      <4>2. age < Epoch
        BY <4>1
      <4>3. QED
        BY <2>3, <3>2, <4>1, <4>2 DEF Tick, ClockOK
    <3>3. CASE fuse # None /\ ~(timeoutTime <= TimerLimit)
      BY <2>3, <3>3 DEF Tick, TypeOK, ClockOK
    <3>4. QED
      BY <3>1, <3>2, <3>3
  <2>4. ASSUME NEW c \in Calls, NEW time \in Times, SetMaxTime(c, time) PROVE ClockOK'
    BY <2>4 DEF SetMaxTime, timerVars, ClockOK
  <2>5. ASSUME NEW c \in Calls, PutMaxTime(c) PROVE ClockOK'
    BY <2>5 DEF PutMaxTime, timerVars, ClockOK
  <2>6. ASSUME NEW c \in Calls, ApplyMaxTime(c) PROVE ClockOK'
    <3>1. maxTime' \in Nat
      BY <2>6 DEF ApplyMaxTime, TypeOK
    <3>2. QED
      BY <2>6, <3>1, RearmClock DEF ApplyMaxTime, timerVars, ClockOK
  <2>7. CASE UNCHANGED vars
    BY <2>7 DEF vars, timerVars, ClockOK
  <2>8. QED
    BY <2>1, <2>2, <2>3, <2>4, <2>5, <2>6, <2>7 DEF Next
<1>3. QED
  BY <1>1, <1>2, TimerTypeCorrect, PTL DEF Spec

\* getRemainingTime() tells when the runtime's timer fires, for every maximum
\* within the runtime's limit, however setMaxTime calls overlap
\* (locker/idle-timer.js).
THEOREM TruthfulTimer == Spec => []RemainingTimeIsTruthful
<1>1. TypeOK /\ ClockOK => RemainingTimeIsTruthful
  BY IdleTimerAssumption DEF TypeOK, ClockOK, RemainingTimeIsTruthful, GetRemainingTime
<1>2. QED
  BY <1>1, TimerTypeCorrect, ClockKept, PTL

-----------------------------------------------------------------------------
\* What the database holds is what a call past its write will put in force,
\* and without one what is in force; a maximum of 0 is in force and not loaded.
InForce ==
    /\ \A c \in Calls : call[c].pc = "stored" => stored = call[c].time
    /\ (\A c \in Calls : call[c].pc # "stored") =>
          maxTime = LoadedMaxTime \/ (maxTime = 0 /\ stored = 0)

LEMMA InForceKept ==
    ASSUME \A c, d \in Calls : c = d
    PROVE  Spec => []InForce
<1>1. Init => InForce
  BY DEF Init, LoadedMaxTime, InForce, NoCall
<1>2. TypeOK /\ InForce /\ [Next]_vars => InForce'
  <2> SUFFICES ASSUME TypeOK, InForce, [Next]_vars PROVE InForce'
    OBVIOUS
  <2> USE DEF InForce, LoadedMaxTime
  <2>1. CASE Restart \/ HandleTimeout \/ Tick
    BY <2>1 DEF Restart, HandleTimeout, Tick
  <2>2. ASSUME NEW c \in Calls, NEW time \in Times, SetMaxTime(c, time) PROVE InForce'
    BY <2>2 DEF SetMaxTime, NoCall, TypeOK
  <2>3. ASSUME NEW c \in Calls, PutMaxTime(c) PROVE InForce'
    BY <2>3 DEF PutMaxTime, NoCall, TypeOK
  <2>4. ASSUME NEW c \in Calls, ApplyMaxTime(c) PROVE InForce'
    <3>1. call[c].time \in Times /\ stored = call[c].time
      BY <2>4 DEF ApplyMaxTime, TypeOK
    <3>2. maxTime' = stored /\ stored' = stored /\ stored # None
      BY <2>4, <3>1, IdleTimerAssumption DEF ApplyMaxTime
    <3>3. \A d \in Calls : call'[d].pc # "stored"
      BY <2>4 DEF ApplyMaxTime, NoCall, TypeOK
    <3>4. QED
      BY <3>2, <3>3
  <2>5. CASE Reload
    BY <2>5 DEF Reload, NoCall
  <2>6. CASE UNCHANGED vars
    BY <2>6 DEF vars
  <2>7. QED
    BY <2>1, <2>2, <2>3, <2>4, <2>5, <2>6 DEF Next
<1>3. QED
  BY <1>1, <1>2, TimerTypeCorrect, PTL DEF Spec

\* When setMaxTime calls come one after the other, the maximum in force is the
\* one a new process would load, whichever writes failed and wherever the
\* process ended; except for a maximum of 0.
THEOREM StoredInForce ==
    ASSUME \A c, d \in Calls : c = d
    PROVE  Spec => []StoredIsInForce
<1>1. InForce => StoredIsInForce
  BY DEF InForce, StoredIsInForce
<1>2. QED
  BY <1>1, InForceKept, PTL

\* The comparison made before the write still holds after it.
Compared ==
    \A c \in Calls : call[c].pc # "idle" => (call[c].isSmaller <=> call[c].time < maxTime)

LEMMA ComparedKept ==
    ASSUME \A c, d \in Calls : c = d
    PROVE  Spec => []Compared
<1>1. Init => Compared
  BY DEF Init, NoCall, Compared
<1>2. TypeOK /\ Compared /\ [Next]_vars => Compared'
  <2> SUFFICES ASSUME TypeOK, Compared, [Next]_vars PROVE Compared'
    OBVIOUS
  <2> USE DEF Compared
  <2>1. CASE Restart \/ HandleTimeout \/ Tick \/ UNCHANGED vars
    BY <2>1 DEF Restart, HandleTimeout, Tick, vars
  <2>2. ASSUME NEW c \in Calls, NEW time \in Times, SetMaxTime(c, time) PROVE Compared'
    BY <2>2 DEF SetMaxTime, TypeOK
  <2>3. ASSUME NEW c \in Calls, PutMaxTime(c) PROVE Compared'
    BY <2>3 DEF PutMaxTime, NoCall, TypeOK
  <2>4. ASSUME NEW c \in Calls, ApplyMaxTime(c) PROVE Compared'
    BY <2>4 DEF ApplyMaxTime, NoCall, TypeOK
  <2>5. CASE Reload
    BY <2>5 DEF Reload, NoCall
  <2>6. QED
    BY <2>1, <2>2, <2>3, <2>4, <2>5 DEF Next
<1>3. QED
  BY <1>1, <1>2, TimerTypeCorrect, PTL DEF Spec

\* When setMaxTime calls come one after the other, no pending timeout has
\* longer to run than the maximum the owner was told: the comparison made
\* before the write still holds after it.
THEOREM PendingWithin ==
    ASSUME \A c, d \in Calls : c = d
    PROVE  Spec => []PendingWithinMax
<1> USE IdleTimerAssumption
<1>1. Init => PendingWithinMax
  BY DEF Init, PendingWithinMax
<1>2. TypeOK /\ Compared /\ PendingWithinMax /\ [Next]_vars => PendingWithinMax'
  <2> SUFFICES ASSUME TypeOK, Compared, PendingWithinMax, [Next]_vars PROVE PendingWithinMax'
    OBVIOUS
  <2>a. ASSUME NEW max \in Nat, Rearm(max) PROVE fuse' <= max
    BY <2>a DEF Rearm, Delay
  <2>1. CASE Restart
    BY <2>1, <2>a DEF Restart, PendingWithinMax, TypeOK
  <2>2. CASE HandleTimeout \/ Reload
    BY <2>2 DEF HandleTimeout, Reload, PendingWithinMax
  <2>3. CASE Tick
    BY <2>3 DEF Tick, PendingWithinMax, TypeOK
  <2>4. ASSUME NEW c \in Calls, NEW time \in Times, SetMaxTime(c, time)
        PROVE  PendingWithinMax'
    BY <2>4 DEF SetMaxTime, timerVars, PendingWithinMax
  <2>5. ASSUME NEW c \in Calls, PutMaxTime(c) PROVE PendingWithinMax'
    BY <2>5 DEF PutMaxTime, timerVars, PendingWithinMax
  <2>6. ASSUME NEW c \in Calls, ApplyMaxTime(c) PROVE PendingWithinMax'
    <3>1. /\ maxTime' \in Nat /\ maxTime' = call[c].time /\ maxTime \in Nat
          /\ call[c].isSmaller <=> maxTime' < maxTime
      BY <2>6 DEF ApplyMaxTime, Compared, TypeOK
    <3>2. CASE fuse # None /\ call[c].isSmaller
      BY <2>6, <2>a, <3>1, <3>2 DEF ApplyMaxTime, PendingWithinMax
    <3>3. CASE ~(fuse # None /\ call[c].isSmaller)
      BY <2>6, <3>1, <3>3 DEF ApplyMaxTime, timerVars, PendingWithinMax, TypeOK
    <3>4. QED
      BY <3>2, <3>3
  <2>7. CASE UNCHANGED vars
    BY <2>7 DEF vars, timerVars, PendingWithinMax
  <2>8. QED
    BY <2>1, <2>2, <2>3, <2>4, <2>5, <2>6, <2>7 DEF Next
<1>3. QED
  BY <1>1, <1>2, TimerTypeCorrect, ComparedKept, PTL DEF Spec

-----------------------------------------------------------------------------
(* The timer as the locker sees it.                                        *)

Left == IF fuse = None THEN None ELSE GetRemainingTime

Asked == {call[c].time : c \in {d \in Calls : call[d].pc # "idle"}}

Shown == <<maxTime, Left, timeoutTime, Asked>>

\* A pending timeout shows the rest of its length, which the clock can hold.
LEMMA LeftCounts ==
    ASSUME TypeOK, ClockOK, fuse # None
    PROVE  /\ Left = timeoutTime - age
           /\ timeoutTime \in Nat /\ age \in Nat /\ (age < Epoch \/ fuse = 0)
           /\ timeoutTime <= TimerLimit => Left = fuse
           /\ ~(timeoutTime <= TimerLimit) => fuse = 1 - age
BY IdleTimerAssumption DEF TypeOK, ClockOK, Left, GetRemainingTime

LEMMA RearmShown ==
    ASSUME NEW max \in Nat, Rearm(max)
    PROVE  Left' = max /\ timeoutTime' = max
BY IdleTimerAssumption DEF Rearm, Delay, Left, GetRemainingTime

\* Each step of the timer is a step of the countdown, or shows none.
LEMMA CountdownStep ==
    ASSUME \A c, d \in Calls : c = d,
           TypeOK, ClockOK, Compared, InForce, [Next]_vars
    PROVE  Timer!Next \/ UNCHANGED Shown
<1> USE IdleTimerAssumption
<1> USE DEF Left, Asked
<1>a. maxTime \in Nat
  BY DEF TypeOK
<1>1. CASE Restart
  <2>1. Left' = maxTime /\ timeoutTime' = maxTime
    BY <1>a, <1>1, RearmShown DEF Restart
  <2>2. Timer!Start
    BY <1>1, <2>1 DEF Restart, Timer!Start, Timer!Run
  <2>3. QED
    BY <2>2 DEF Timer!Next
<1>2. CASE HandleTimeout
  <2>1. Left \in Nat /\ (Left = 0 \/ timeoutTime > TimerLimit)
    BY <1>2, LeftCounts DEF HandleTimeout, GetRemainingTime, TypeOK
  <2>2. Timer!Ring
    BY <1>2, <2>1 DEF HandleTimeout, Timer!Ring, Timer!Stop
  <2>3. QED
    BY <2>2 DEF Timer!Next
<1>3. CASE Tick
  <2>1. CASE fuse = None
    BY <1>3, <2>1 DEF Tick, Shown
  <2>2. CASE fuse # None
    <3>1. /\ Left = timeoutTime - age /\ Left \in Nat \ {0}
          /\ age < Epoch /\ fuse \in Nat \ {0}
      BY <1>3, <2>2, LeftCounts DEF Tick, TypeOK
    <3>2. Left' = Left - 1
      BY <1>3, <2>2, <3>1 DEF Tick, GetRemainingTime, TypeOK
    <3>3. Timer!Elapse
      BY <1>3, <3>1, <3>2 DEF Tick, Timer!Elapse
    <3>4. QED
      BY <3>3 DEF Timer!Next
  <2>3. QED
    BY <2>1, <2>2
<1>4. ASSUME NEW c \in Calls, NEW time \in Times, SetMaxTime(c, time)
      PROVE  Timer!Next
  <2>1. call'[c].pc # "idle" /\ call'[c].time = time /\ call[c].pc = "idle"
    BY <1>4 DEF SetMaxTime, NoCall, TypeOK
  <2>2. Asked' = Asked \union {time}
    BY <2>1
  <2>3. UNCHANGED <<maxTime, Left, timeoutTime>>
    BY <1>4 DEF SetMaxTime, timerVars, GetRemainingTime
  <2>4. QED
    BY <2>2, <2>3 DEF Timer!Next, Timer!Ask
<1>5. ASSUME NEW c \in Calls, PutMaxTime(c)
      PROVE  Timer!Next \/ UNCHANGED Shown
  <2>1. UNCHANGED <<maxTime, Left, timeoutTime>>
    BY <1>5 DEF PutMaxTime, timerVars, GetRemainingTime
  <2>2. CASE call' = [call EXCEPT ![c].pc = "stored"]
    <3>1. call[c].pc # "idle" /\ call'[c].pc # "idle" /\ call'[c].time = call[c].time
      BY <1>5, <2>2 DEF PutMaxTime, TypeOK
    <3>2. Asked' = Asked
      BY <3>1
    <3>3. QED
      BY <2>1, <3>2 DEF Shown
  <2>3. CASE call' = [call EXCEPT ![c] = NoCall]
    <3>1. call[c].pc # "idle" /\ call[c].time \in Times /\ call'[c].pc = "idle"
      BY <1>5, <2>3 DEF PutMaxTime, NoCall, TypeOK
    <3>2. Asked = {call[c].time} /\ Asked' = {}
      BY <3>1
    <3>3. QED
      BY <2>1, <3>1, <3>2 DEF Timer!Next, Timer!Refuse
  <2>4. QED
    BY <1>5, <2>2, <2>3 DEF PutMaxTime
<1>6. ASSUME NEW c \in Calls, ApplyMaxTime(c)
      PROVE  Timer!Next
  <2> DEFINE m == call[c].time
  <2>1. /\ m \in Times /\ maxTime' = m
        /\ call[c].pc # "idle" /\ call'[c].pc = "idle"
        /\ call[c].isSmaller <=> m < maxTime
    BY <1>6 DEF ApplyMaxTime, NoCall, Compared, TypeOK
  <2>2. Asked = {m} /\ Asked' = {}
    BY <2>1
  <2>3. Left # None <=> fuse # None
    BY DEF GetRemainingTime, TypeOK
  <2>4. CASE fuse # None /\ m < maxTime
    <3>1. Left' = m /\ timeoutTime' = m
      BY <1>6, <2>1, <2>4, RearmShown DEF ApplyMaxTime
    <3>2. Timer!SetMax(m)
      BY <2>1, <2>2, <2>3, <2>4, <3>1 DEF Timer!SetMax, Timer!Run
    <3>3. QED
      BY <2>1, <3>2 DEF Timer!Next, Timer!SetMax
  <2>5. CASE ~(fuse # None /\ m < maxTime)
    <3>1. UNCHANGED <<Left, timeoutTime>>
      BY <1>6, <2>1, <2>5 DEF ApplyMaxTime, timerVars, GetRemainingTime
    <3>2. Timer!SetMax(m)
      BY <2>1, <2>2, <2>3, <2>5, <3>1 DEF Timer!SetMax
    <3>3. QED
      BY <2>1, <3>2 DEF Timer!Next, Timer!SetMax
  <2>6. QED
    BY <2>4, <2>5
<1>7. CASE Reload
  <2>1. Asked' = {} /\ Left' = None /\ timeoutTime' = 0 /\ maxTime' = LoadedMaxTime
    BY <1>7 DEF Reload, NoCall
  <2>2. \E m \in {maxTime} \union Asked : maxTime' = IF m = 0 THEN DefaultMax ELSE m
    <3>1. ASSUME NEW c \in Calls, call[c].pc = "stored"
          PROVE  call[c].time \in Asked /\ call[c].time \in Nat /\ stored = call[c].time
      BY <3>1 DEF InForce, TypeOK
    <3>2. CASE \E c \in Calls : call[c].pc = "stored"
      BY <2>1, <3>1, <3>2 DEF LoadedMaxTime
    <3>3. CASE \A c \in Calls : call[c].pc # "stored"
      BY <1>a, <2>1, <3>3 DEF InForce, LoadedMaxTime, TypeOK
    <3>4. QED
      BY <3>2, <3>3
  <2>3. Timer!Restart
    BY <2>1, <2>2 DEF Timer!Restart, Timer!Stop
  <2>4. QED
    BY <2>3 DEF Timer!Next
<1>8. CASE UNCHANGED vars
  BY <1>8 DEF vars, timerVars, Shown, GetRemainingTime
<1>9. QED
  BY <1>1, <1>2, <1>3, <1>4, <1>5, <1>6, <1>7, <1>8 DEF Next

\* When setMaxTime calls come one after the other, the timer implements
\* Countdown: a call changes the maximum and the pending timeout in one step or
\* not at all, whatever comes between its comparison, its write and the rest,
\* the end of the process included, and the timeout comes when the remaining
\* time says (locker/idle-timer.js:41-61).
THEOREM ImplementsCountdown ==
    ASSUME \A c, d \in Calls : c = d
    PROVE  Spec => CountdownSpec
<1>1. Init => Timer!Init
  BY DEF Init, LoadedMaxTime, NoCall, Timer!Init
<1>2. TypeOK /\ ClockOK /\ Compared /\ InForce /\ [Next]_vars => [Timer!Next]_(Timer!vars)
  <2>1. UNCHANGED Shown => UNCHANGED Timer!vars
    BY DEF Shown, Left, Asked, Timer!vars
  <2>2. QED
    BY <2>1, CountdownStep
<1>3. QED
  BY <1>1, <1>2, TimerTypeCorrect, ClockKept, ComparedKept, InForceKept,
     PTL DEF Spec, CountdownSpec, Timer!Spec
=============================================================================
