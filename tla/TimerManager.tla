---------------------------- MODULE TimerManager ----------------------------
(***************************************************************************)
(* nets::TimerManager, the timers of one event loop.  All calls are made   *)
(* on the loop's thread: by update() itself, by the callbacks update()     *)
(* runs, and by the loop between two calls of update().                    *)
(*                                                                         *)
(* timers_ is a multimap from expiration time to Timer; an entry here has  *)
(* the fields of Timer, the key it is stored under and, because entries of *)
(* equal key are kept in the order of insertion, its stamp among them.     *)
(* Time is counted in microseconds, intervals in milliseconds.             *)
(***************************************************************************)
EXTENDS Integers, FiniteSets

CONSTANTS Ids,         \* values of timerIdGenerator_; each is used once
          End,         \* timers_.end()
          Delays,      \* delays passed to schedule...(), in ms
          Intervals,   \* intervals passed to schedule...(), in ms
          Millis,      \* microseconds in a millisecond
          kDefaultPollTimeout,
          MaxTime      \* bound: the clock stops here

ASSUME TimerAssumption ==
    /\ End \notin Ids
    /\ Delays \subseteq Nat
    /\ Intervals \subseteq Nat \ {0}
    /\ Millis \in Nat \ {0}
    /\ kDefaultPollTimeout \in Nat \ {0}
    /\ MaxTime \in Nat

kRepeatForever == -1
kMinimumPollTimeout == 1

VARIABLES timers,     \* function from the ids in timers_ to entries
          now,        \* gettimeofday()
          upc,        \* where update() is: "idle", "scan", "callback"
          it,         \* its iterator
          readNow,    \* the time it read for the running callback, else 0
          issued,     \* history: the value in the TimerId handed out
          cancelled   \* history: ids removeTimer() was called with

vars == <<timers, now, upc, it, readNow, issued, cancelled>>

Entry == [key: Nat, stamp: Nat, value: Nat, repeatTimes: {kRepeatForever, 0, 1},
          interval: Nat, fixedDelay: BOOLEAN]

isRepeatable(e) == e.repeatTimes = kRepeatForever \/ e.repeatTimes > 0
isExpired(e, t) == t >= e.value

(* The order of the multimap.                                              *)
Before(e, f) == e.key < f.key \/ (e.key = f.key /\ e.stamp < f.stamp)

First(map) == IF DOMAIN map = {} THEN End
              ELSE CHOOSE i \in DOMAIN map : \A j \in DOMAIN map \ {i} : Before(map[i], map[j])

(* The iterator after id; id itself need not be left in the map.           *)
Following(map, e) == First([i \in {j \in DOMAIN map : Before(e, map[j])} |-> map[i]])

Erase(map, id) == [i \in DOMAIN map \ {id} |-> map[i]]

(* insert() puts an entry behind all those of equal key.                   *)
NextStamp(map, key) ==
    LET free == {0} \cup {map[i].stamp + 1 : i \in {j \in DOMAIN map : map[j].key = key}}
    IN CHOOSE n \in free : \A m \in free : m <= n

Insert(map, id, timer) ==
    [i \in DOMAIN map \cup {id} |->
        IF i = id THEN [timer EXCEPT !.key = timer.value, !.stamp = NextStamp(map, timer.value)]
                  ELSE map[i]]

Init == /\ timers = [i \in {} |-> {}]
        /\ now = 0
        /\ upc = "idle"
        /\ it = End
        /\ readNow = 0
        /\ issued = [i \in {} |-> 0]
        /\ cancelled = {}

-----------------------------------------------------------------------------
(* schedule(), scheduleAtFixedRate(), scheduleAtFixedDelay()               *)
addTimer(id, delay, repeat, interval, fixed) ==
    /\ upc \in {"idle", "callback"}
    /\ id \notin DOMAIN issued
    /\ timers' = Insert(timers, id,
                        [key |-> 0, stamp |-> 0, value |-> now + delay * Millis,
                         repeatTimes |-> repeat, interval |-> interval, fixedDelay |-> fixed])
    /\ issued' = [i \in DOMAIN issued \cup {id} |->
                      IF i = id THEN now + delay * Millis ELSE issued[i]]
    /\ UNCHANGED <<now, upc, it, readNow, cancelled>>

schedule(id) == \E d \in Delays : addTimer(id, d, 1, 0, FALSE)
scheduleAtFixedRate(id) ==
    \E d \in Delays, i \in Intervals : addTimer(id, d, kRepeatForever, i, FALSE)
scheduleAtFixedDelay(id) ==
    \E d \in Delays, i \in Intervals : addTimer(id, d, kRepeatForever, i, TRUE)

(* The search starts at lower_bound(timerId.value_), the first expiration  *)
(* time of the timer.  An entry that is found is only marked; update()     *)
(* erases it.                                                              *)
removeTimerExact(id) ==
    /\ upc \in {"idle", "callback"}
    /\ id \in DOMAIN issued
    /\ timers' = IF id \in DOMAIN timers /\ timers[id].key = issued[id]
                   THEN [timers EXCEPT ![id].value = 0, ![id].repeatTimes = 0]
                   ELSE timers
    /\ cancelled' = cancelled \cup {id}
    /\ UNCHANGED <<now, upc, it, readNow, issued>>

removeTimer(id) ==
    /\ upc \in {"idle", "callback"}
    /\ id \in DOMAIN issued
    /\ timers' = IF id \in DOMAIN timers /\ timers[id].key >= issued[id]
                   THEN [timers EXCEPT ![id].value = 0, ![id].repeatTimes = 0]
                   ELSE timers
    /\ cancelled' = cancelled \cup {id}
    /\ UNCHANGED <<now, upc, it, readNow, issued>>

-----------------------------------------------------------------------------
(* update()                                                                *)

(* A plausible mistake: the iterator is advanced before the first look.    *)
StartUpdateSkipsFirst ==
    /\ upc = "idle"
    /\ DOMAIN timers # {}
    /\ upc' = "scan"
    /\ it' = Following(timers, timers[First(timers)])
    /\ UNCHANGED <<timers, now, readNow, issued, cancelled>>

StartUpdate == /\ upc = "idle"
               /\ DOMAIN timers # {}
               /\ upc' = "scan"
               /\ it' = First(timers)
               /\ UNCHANGED <<timers, now, readNow, issued, cancelled>>

(* end() is reached, or the timer at the iterator is not expired.          *)
EndUpdate == /\ upc = "scan"
             /\ it # End => ~ isExpired(timers[it], now)
             /\ upc' = "idle"
             /\ it' = End
             /\ UNCHANGED <<timers, now, readNow, issued, cancelled>>

(* A cancelled timer: onTimer() does nothing, the entry is erased.         *)
EraseCancelled == /\ upc = "scan"
                  /\ it # End
                  /\ isExpired(timers[it], now)
                  /\ ~ isRepeatable(timers[it])
                  /\ timers' = Erase(timers, it)
                  /\ it' = Following(timers, timers[it])
                  /\ UNCHANGED <<now, upc, readNow, issued, cancelled>>

(* onTimer() calls the callback ...                                        *)
StartCallback == /\ upc = "scan"
                 /\ it # End
                 /\ isExpired(timers[it], now)
                 /\ isRepeatable(timers[it])
                 /\ readNow' = now
                 /\ upc' = "callback"
                 /\ UNCHANGED <<timers, now, it, issued, cancelled>>

(* A plausible mistake: the interval is taken for the time itself.         *)
onTimerForgetsBase(e) ==
    [e EXCEPT !.value = e.interval * Millis, !.repeatTimes = IF @ > 0 THEN @ - 1 ELSE @]

(* ... and afterwards computes the next expiration.                        *)
onTimer(e) ==
    [e EXCEPT !.value = IF e.fixedDelay THEN readNow + e.interval * Millis
                                        ELSE e.value + e.interval * Millis,
              !.repeatTimes = IF @ > 0 THEN @ - 1 ELSE @]

(* A timer that can trigger again is moved to its new key; the scan goes   *)
(* on with the next entry if that comes strictly before the new key, and   *)
(* with the moved entry otherwise.                                         *)
EndCallback ==
    /\ upc = "callback"
    /\ upc' = "scan"
    /\ LET timer == onTimer(timers[it])
           rest == Erase(timers, it)
           nextIt == Following(rest, timers[it])
       IN IF isRepeatable(timer)
            THEN /\ timers' = Insert(rest, it, timer)
                 /\ it' = IF nextIt # End /\ rest[nextIt].key < timer.value THEN nextIt ELSE it
            ELSE /\ timers' = rest
                 /\ it' = nextIt
    /\ readNow' = 0
    /\ UNCHANGED <<now, issued, cancelled>>

(* Time passes anywhere, in callbacks too.                                 *)
Tick == /\ now < MaxTime
        /\ now' = now + 1
        /\ UNCHANGED <<timers, upc, it, readNow, issued, cancelled>>

(* nearestTimerRemainingExpiredTime() and the timeout run() makes of it.   *)
nearestTimerRemainingExpiredTimeLast ==
    IF First(timers) = End THEN -1
    ELSE LET last == CHOOSE i \in DOMAIN timers :
                         \A j \in DOMAIN timers \ {i} : Before(timers[j], timers[i])
         IN IF timers[last].key <= now THEN 0 ELSE (timers[last].key - now) \div Millis

nearestTimerRemainingExpiredTime ==
    IF First(timers) = End THEN -1
    ELSE IF timers[First(timers)].key <= now THEN 0
    ELSE (timers[First(timers)].key - now) \div Millis

minOf(a, b) == IF a < b THEN a ELSE b
maxOf(a, b) == IF a > b THEN a ELSE b

pollTimeout ==
    maxOf(kMinimumPollTimeout,
          IF nearestTimerRemainingExpiredTime = -1 THEN kDefaultPollTimeout
          ELSE minOf(nearestTimerRemainingExpiredTime, kDefaultPollTimeout))

-----------------------------------------------------------------------------
UpdateStep == EndUpdate \/ EraseCancelled \/ StartCallback \/ EndCallback

Next == \/ \E id \in Ids : \/ schedule(id)
                           \/ scheduleAtFixedRate(id)
                           \/ scheduleAtFixedDelay(id)
                           \/ removeTimer(id)
        \/ StartUpdate
        \/ UpdateStep
        \/ Tick

Spec == Init /\ [][Next]_vars

(* The loop calls update() again and again, and callbacks return.          *)
FairSpec == Spec /\ WF_vars(StartUpdate) /\ WF_vars(UpdateStep)

-----------------------------------------------------------------------------
(* Two shortcuts of the code rest on where timers are stored, however      *)
(* often they were moved, also by a clock read much later.  removeTimer()  *)
(* starts at the first expiration time ("it's time may have been           *)
(* incremented, so start searching from lower"), and update() stops early  *)
(* ("if current timer is not expired, following timers do not need to be   *)
(* checked"), which needs live timers under the time at which they expire. *)
TimersInPlace ==
    \A i \in DOMAIN timers :
        /\ timers[i].key >= issued[i]
        /\ isRepeatable(timers[i]) => timers[i].key = timers[i].value

(* A timer for which removeTimer() has returned does not trigger again:    *)
(* not when it is cancelled by its own callback, between two triggers, or  *)
(* while update() is on its way to it.                                     *)
CancelledNeverFires ==
    [][(upc = "scan" /\ upc' = "callback") => it \notin cancelled]_vars

(* The poll timeout never lets the loop sleep past the earliest timer that *)
(* can still trigger, but for the minimum of one millisecond, even when    *)
(* cancelled entries are still in the map.                                 *)
NoOversleep ==
    upc = "idle" =>
        \A i \in DOMAIN timers :
            isRepeatable(timers[i]) =>
                now + pollTimeout * Millis <= maxOf(timers[i].value, now + Millis)

(* An expired timer triggers or is cancelled, although one call of         *)
(* update() may pass over it.                                              *)
DueTimerFires ==
    \A i \in Ids :
        (i \in DOMAIN timers /\ isRepeatable(timers[i]) /\ isExpired(timers[i], now))
            ~> (i \in cancelled \/ i \notin DOMAIN timers \/ ~ isExpired(timers[i], now))
=============================================================================
