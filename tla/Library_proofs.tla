--------------------------- MODULE Library_proofs ---------------------------
(***************************************************************************)
(* Proofs about the parts of the library that MCLibrary checks, for every  *)
(* value of their constants.                                               *)
(*                                                                         *)
(* TimerManager: timers stay where removeTimer() and update() look for     *)
(* them, a cancelled timer never triggers, and the poll timeout never      *)
(* passes over a timer.                                                    *)
(*                                                                         *)
(* BoundedBlockingQueue: elements leave in the order in which they came    *)
(* and never exceed the size, and no thread sleeps for what is there       *)
(* without a signal on its way.                                            *)
(*                                                                         *)
(* ChannelHandlerPipeline: every call on the linked contexts is a step of  *)
(* the list of handlers.                                                   *)
(*                                                                         *)
(* ByteBuffer: every call on the array and its indexes is a step of a      *)
(* queue of bytes.                                                         *)
(*                                                                         *)
(* StackBuffer: the array holds whole pieces of text, numbers as their     *)
(* numerals, and NUL up to its end.                                        *)
(***************************************************************************)
EXTENDS TimerManager, BoundedBlockingQueue, ChannelHandlerPipeline, ByteBuffer, StackBuffer,
        FiniteSetTheorems, SequenceLemmas, TLAPS

-----------------------------------------------------------------------------
(* TimerManager: the inductive invariant.                                  *)

(* No two entries have the same place in the order of the multimap, and    *)
(* there is always a place behind.                                         *)
Ordered(map) ==
    /\ map \in [DOMAIN map -> Entry]
    /\ \A i, j \in DOMAIN map : i # j /\ map[i].key = map[j].key
                                   => map[i].stamp # map[j].stamp
    /\ \E b \in Nat : \A i \in DOMAIN map : map[i].stamp <= b

TypeOK == /\ DOMAIN timers \subseteq DOMAIN issued
          /\ issued \in [DOMAIN issued -> Nat]
          /\ DOMAIN issued \subseteq Ids
          /\ cancelled \subseteq DOMAIN issued
          /\ now \in Nat
          /\ readNow \in Nat
          /\ upc \in {"idle", "scan", "callback"}

(* The iterator of update() stays valid although callbacks change the map. *)
IteratorValid == /\ upc = "scan" => it \in DOMAIN timers \cup {End}
                 /\ upc = "callback" => it \in DOMAIN timers

CancelledIsMarked == \A i \in DOMAIN timers : i \in cancelled => ~ isRepeatable(timers[i])

(* The timer whose callback runs has expired, unless it was cancelled.     *)
CallbackIsDue == upc = "callback" /\ isRepeatable(timers[it]) => timers[it].value <= readNow

IInv == /\ TypeOK
        /\ Ordered(timers)
        /\ IteratorValid
        /\ TimersInPlace
        /\ CancelledIsMarked
        /\ CallbackIsDue

-----------------------------------------------------------------------------
(* The multimap.                                                           *)

LEMMA EntryFields ==
    ASSUME NEW e \in Entry
    PROVE  /\ e.key \in Nat /\ e.stamp \in Nat /\ e.value \in Nat /\ e.interval \in Nat
           /\ e.repeatTimes \in {-1, 0, 1}
           /\ e.fixedDelay \in BOOLEAN
  BY DEF Entry, kRepeatForever

(* begin() is the entry that comes before all others.                      *)
LEMMA FirstIsLeast ==
    ASSUME NEW map, Ordered(map), DOMAIN map # {}
    PROVE  /\ First(map) \in DOMAIN map
           /\ \A j \in DOMAIN map \ {First(map)} : Before(map[First(map)], map[j])
  <1>1. \A i \in DOMAIN map : map[i].key \in Nat /\ map[i].stamp \in Nat
    BY EntryFields DEF Ordered
  <1> DEFINE keys == {map[i].key : i \in DOMAIN map}
  <1>2. PICK k \in keys : \A l \in keys : k <= l
    <2>1. keys \subseteq Nat /\ keys # {}
      BY <1>1
    <2> QED
      BY <2>1, LeastNat
  <1> DEFINE S == {i \in DOMAIN map : map[i].key = k}
             stamps == {map[i].stamp : i \in S}
  <1>3. PICK s \in stamps : \A l \in stamps : s <= l
    <2>1. stamps \subseteq Nat /\ stamps # {}
      BY <1>1, <1>2
    <2> QED
      BY <2>1, LeastNat
  <1>4. PICK i \in S : map[i].stamp = s
    BY <1>3
  <1>5. \A j \in DOMAIN map \ {i} : Before(map[i], map[j])
    <2> TAKE j \in DOMAIN map \ {i}
    <2>1. k <= map[j].key /\ map[i].key = k
      BY <1>2, <1>4
    <2>2. CASE map[j].key = k
      <3>1. s <= map[j].stamp
        BY <1>3, <2>2
      <3>2. map[i].stamp # map[j].stamp
        BY <1>4, <2>1, <2>2 DEF Ordered
      <3> QED
        BY <1>1, <1>4, <2>1, <2>2, <3>1, <3>2 DEF Before
    <2>3. CASE map[j].key # k
      BY <1>1, <1>4, <2>1, <2>3 DEF Before
    <2> QED
      BY <2>2, <2>3
  <1>6. \E f \in DOMAIN map : \A j \in DOMAIN map \ {f} : Before(map[f], map[j])
    BY <1>4, <1>5
  <1> QED
    BY <1>6 DEF First

LEMMA FollowingIsAfter ==
    ASSUME NEW map, Ordered(map), NEW e
    PROVE  \/ Following(map, e) = End
           \/ Following(map, e) \in DOMAIN map /\ Before(e, map[Following(map, e)])
  <1> DEFINE D == {j \in DOMAIN map : Before(e, map[j])}
             after == [i \in D |-> map[i]]
  <1>1. Ordered(after)
    BY DEF Ordered
  <1>2. DOMAIN after = D /\ Following(map, e) = First(after)
    BY DEF Following
  <1>3. CASE D = {}
    BY <1>2, <1>3 DEF First
  <1>4. CASE D # {}
    <2>1. First(after) \in D
      BY <1>1, <1>2, <1>4, FirstIsLeast
    <2> QED
      BY <1>2, <2>1
  <1> QED
    BY <1>3, <1>4

LEMMA EraseOrdered ==
    ASSUME NEW map, Ordered(map), NEW id
    PROVE  /\ Ordered(Erase(map, id))
           /\ DOMAIN Erase(map, id) = DOMAIN map \ {id}
           /\ \A i \in DOMAIN map \ {id} : Erase(map, id)[i] = map[i]
  BY DEF Erase, Ordered

(* The next stamp is behind those of all entries of the key.               *)
LEMMA NextStampIsBehind ==
    ASSUME NEW map, Ordered(map), NEW key
    PROVE  /\ NextStamp(map, key) \in Nat
           /\ \A i \in DOMAIN map : map[i].key = key => map[i].stamp < NextStamp(map, key)
  <1>1. \A i \in DOMAIN map : map[i].stamp \in Nat
    BY EntryFields DEF Ordered
  <1>2. PICK b \in Nat : \A i \in DOMAIN map : map[i].stamp <= b
    BY DEF Ordered
  <1> DEFINE free == {0} \cup {map[i].stamp + 1 : i \in {j \in DOMAIN map : map[j].key = key}}
  <1>3. free \subseteq 0 .. (b + 1) /\ free # {}
    BY <1>1, <1>2
  <1>4. \E n \in free : \A m \in free : m <= n
    <2>1. b + 1 \in Nat
      OBVIOUS
    <2> HIDE DEF free
    <2> QED
      BY <1>3, <2>1, GreatestNat
  <1>5. /\ NextStamp(map, key) \in free
        /\ \A m \in free : m <= NextStamp(map, key)
    BY <1>4 DEF NextStamp
  <1>6. NextStamp(map, key) \in Nat
    BY <1>3, <1>5
  <1>7. \A i \in DOMAIN map : map[i].key = key => map[i].stamp + 1 <= NextStamp(map, key)
    BY <1>5
  <1> QED
    BY <1>1, <1>6, <1>7

(* What insert() is for: one more entry, under the time it expires.        *)
Inserted(map, id, timer, map2) ==
    /\ Ordered(map2)
    /\ DOMAIN map2 = DOMAIN map \cup {id}
    /\ \A i \in DOMAIN map : map2[i] = map[i]
    /\ map2[id].key = timer.value
    /\ map2[id].value = timer.value

LEMMA InsertOrdered ==
    ASSUME NEW map, Ordered(map), NEW id, id \notin DOMAIN map, NEW timer \in Entry
    PROVE  Inserted(map, id, timer, Insert(map, id, timer))
  <1> DEFINE stamp == NextStamp(map, timer.value)
             new == [timer EXCEPT !.key = timer.value, !.stamp = stamp]
             map2 == Insert(map, id, timer)
  <1>1. /\ stamp \in Nat
        /\ \A i \in DOMAIN map : map[i].key = timer.value => map[i].stamp < stamp
    BY NextStampIsBehind
  <1> HIDE DEF stamp
  <1>2. new \in Entry
    BY <1>1 DEF Entry
  <1>3. new.key = timer.value /\ new.stamp = stamp /\ new.value = timer.value
    BY DEF Entry
  <1>4. /\ DOMAIN map2 = DOMAIN map \cup {id}
        /\ map2[id] = new
        /\ \A i \in DOMAIN map : map2[i] = map[i]
    BY DEF Insert, stamp
  <1>5. map2 \in [DOMAIN map2 -> Entry]
    BY <1>2 DEF Insert, Ordered, stamp
  <1> HIDE DEF new, map2
  <1>6. \A i \in DOMAIN map : map[i].stamp \in Nat /\ map[i].key \in Nat
    BY EntryFields DEF Ordered
  <1>7. \A i, j \in DOMAIN map2 : i # j /\ map2[i].key = map2[j].key
                                     => map2[i].stamp # map2[j].stamp
    <2>1. \A i, j \in DOMAIN map : i # j /\ map2[i].key = map2[j].key
                                     => map2[i].stamp # map2[j].stamp
      BY <1>4 DEF Ordered
    <2>2. \A i \in DOMAIN map : map2[i].key = map2[id].key => map2[i].stamp # map2[id].stamp
      BY <1>1, <1>3, <1>4, <1>6
    <2> QED
      BY <1>4, <2>1, <2>2
  <1>8. \E b \in Nat : \A i \in DOMAIN map2 : map2[i].stamp <= b
    <2>1. PICK b \in Nat : \A i \in DOMAIN map : map[i].stamp <= b
      BY DEF Ordered
    <2>2. \A i \in DOMAIN map2 : map2[i].stamp <= b + stamp
      BY <1>1, <1>3, <1>4, <1>6, <2>1
    <2>3. b + stamp \in Nat
      BY <1>1
    <2> QED
      BY <2>2, <2>3
  <1> QED
    BY <1>3, <1>4, <1>5, <1>7, <1>8 DEF Ordered, Inserted, map2

-----------------------------------------------------------------------------
(* The steps.                                                              *)

LEMMA AddTimerStep ==
    ASSUME IInv, NEW id \in Ids, NEW delay \in Delays, NEW repeat \in {kRepeatForever, 1},
           NEW interval \in Nat, NEW fixed \in BOOLEAN,
           addTimer(id, delay, repeat, interval, fixed)
    PROVE  IInv'
  <1> DEFINE timer == [key |-> 0, stamp |-> 0, value |-> now + delay * Millis,
                       repeatTimes |-> repeat, interval |-> interval, fixedDelay |-> fixed]
  <1>1. /\ timers' = Insert(timers, id, timer)
        /\ id \notin DOMAIN issued
        /\ issued' = [i \in DOMAIN issued \cup {id} |->
                         IF i = id THEN now + delay * Millis ELSE issued[i]]
        /\ UNCHANGED <<now, upc, it, readNow, cancelled>>
    BY DEF addTimer
  <1>2. now \in Nat /\ delay * Millis \in Nat /\ now + delay * Millis \in Nat
    <2>1. delay \in Nat /\ Millis \in Nat
      BY TimerAssumption
    <2>2. delay * Millis \in Nat
      BY <2>1
    <2> QED
      BY <2>2 DEF IInv, TypeOK
  <1>3. timer \in Entry
    BY <1>2 DEF Entry, kRepeatForever
  <1>4. timer.value = now + delay * Millis
    OBVIOUS
  <1>5. id \notin DOMAIN timers
    BY <1>1 DEF IInv, TypeOK
  <1>6. /\ Ordered(timers')
        /\ DOMAIN timers' = DOMAIN timers \cup {id}
        /\ \A i \in DOMAIN timers : timers'[i] = timers[i]
        /\ timers'[id].key = timer.value
        /\ timers'[id].value = timer.value
    <2> HIDE DEF timer
    <2>1. Ordered(timers)
      BY DEF IInv
    <2>2. Inserted(timers, id, timer, timers')
      BY <1>1, <1>3, <1>5, <2>1, InsertOrdered DEF timer
    <2> QED
      BY <2>2 DEF Inserted
  <1> HIDE DEF timer
  <1>7. TypeOK'
    BY <1>1, <1>2, <1>6 DEF IInv, TypeOK
  <1>8. IteratorValid' /\ CancelledIsMarked' /\ CallbackIsDue'
    <2>1. id \notin cancelled'
      BY <1>1 DEF IInv, TypeOK
    <2> QED
      BY <1>1, <1>6, <2>1 DEF IInv, IteratorValid, CancelledIsMarked, CallbackIsDue
  <1>9. TimersInPlace'
    <2>1. issued'[id] = timers'[id].key /\ \A i \in DOMAIN issued : issued'[i] = issued[i]
      BY <1>1, <1>4, <1>6
    <2>2. \A i \in DOMAIN timers : i \in DOMAIN issued /\ i # id
      BY <1>5 DEF IInv, TypeOK
    <2>3. timers'[id].key >= issued'[id] /\ timers'[id].key = timers'[id].value
      BY <1>2, <1>4, <1>6, <2>1
    <2> QED
      BY <1>6, <2>1, <2>2, <2>3 DEF IInv, TimersInPlace
  <1> QED
    BY <1>6, <1>7, <1>8, <1>9 DEF IInv

LEMMA RemoveTimerStep ==
    ASSUME IInv, NEW id \in Ids, removeTimer(id)
    PROVE  IInv'
  <1>1. /\ id \in DOMAIN issued
        /\ cancelled' = cancelled \cup {id}
        /\ UNCHANGED <<now, upc, it, readNow, issued>>
    BY DEF removeTimer
  <1>2. CASE id \notin DOMAIN timers
    <2>1. timers' = timers
      BY <1>2 DEF removeTimer
    <2> QED
      BY <1>1, <1>2, <2>1 DEF IInv, TypeOK, IteratorValid, TimersInPlace,
                              CancelledIsMarked, CallbackIsDue
  <1>3. CASE id \in DOMAIN timers
    <2>1. timers' = [timers EXCEPT ![id].value = 0, ![id].repeatTimes = 0]
      BY <1>3 DEF removeTimer, IInv, TimersInPlace
    <2>2. timers \in [DOMAIN timers -> Entry]
      BY DEF IInv, Ordered
    <2>3. /\ DOMAIN timers' = DOMAIN timers
          /\ timers' \in [DOMAIN timers' -> Entry]
          /\ \A i \in DOMAIN timers : /\ timers'[i].key = timers[i].key
                                      /\ timers'[i].stamp = timers[i].stamp
          /\ \A i \in DOMAIN timers \ {id} : timers'[i] = timers[i]
          /\ timers'[id].repeatTimes = 0
      BY <1>3, <2>1, <2>2, ZenonT(60) DEF Entry
    <2>4. ~ isRepeatable(timers'[id])
      BY <2>3 DEF isRepeatable, kRepeatForever
    <2>5. Ordered(timers')
      BY <2>3 DEF IInv, Ordered
    <2>6. TypeOK' /\ IteratorValid'
      BY <1>1, <2>3 DEF IInv, TypeOK, IteratorValid
    <2>7. TimersInPlace'
      BY <1>1, <2>3, <2>4 DEF IInv, TimersInPlace
    <2>8. CancelledIsMarked' /\ CallbackIsDue'
      BY <1>1, <2>3, <2>4 DEF IInv, CancelledIsMarked, CallbackIsDue, IteratorValid
    <2> QED
      BY <2>5, <2>6, <2>7, <2>8 DEF IInv
  <1> QED
    BY <1>2, <1>3

(* The map loses an entry; the iterator goes to one of the others.         *)
LEMMA EraseStep ==
    ASSUME IInv, NEW id, timers' = Erase(timers, id), upc' = "scan",
           it' \in (DOMAIN timers \ {id}) \cup {End},
           UNCHANGED <<now, issued, cancelled>>, readNow' \in Nat
    PROVE  IInv'
  <1>1. /\ Ordered(timers')
        /\ DOMAIN timers' = DOMAIN timers \ {id}
        /\ \A i \in DOMAIN timers \ {id} : timers'[i] = timers[i]
    BY EraseOrdered DEF IInv
  <1>2. TypeOK' /\ IteratorValid'
    BY <1>1 DEF IInv, TypeOK, IteratorValid
  <1>3. TimersInPlace' /\ CancelledIsMarked' /\ CallbackIsDue'
    BY <1>1 DEF IInv, TimersInPlace, CancelledIsMarked, CallbackIsDue
  <1> QED
    BY <1>1, <1>2, <1>3 DEF IInv

LEMMA NotBeforeItself ==
    ASSUME NEW e \in Entry
    PROVE  ~ Before(e, e)
  BY EntryFields DEF Before

LEMMA EraseCancelledStep ==
    ASSUME IInv, EraseCancelled
    PROVE  IInv'
  <1>1. /\ upc' = "scan" /\ readNow' \in Nat
        /\ timers' = Erase(timers, it) /\ it' = Following(timers, timers[it])
        /\ UNCHANGED <<now, issued, cancelled>>
    BY DEF EraseCancelled, IInv, TypeOK
  <1>2. timers[it] \in Entry
    BY DEF EraseCancelled, IInv, IteratorValid, Ordered
  <1>3. it' \in (DOMAIN timers \ {it}) \cup {End}
    BY <1>1, <1>2, FollowingIsAfter, NotBeforeItself DEF IInv
  <1> QED
    BY <1>1, <1>3, EraseStep

(* A timer that triggers again is put where it expires, not earlier.       *)
LEMMA EndCallbackStep ==
    ASSUME IInv, EndCallback
    PROVE  IInv'
  <1> DEFINE e == timers[it]
             timer == onTimer(e)
             rest == Erase(timers, it)
             nextIt == Following(rest, e)
  <1>1. /\ upc = "callback" /\ upc' = "scan" /\ readNow' = 0
        /\ UNCHANGED <<now, issued, cancelled>>
        /\ isRepeatable(timer) =>
              /\ timers' = Insert(rest, it, timer)
              /\ it' \in {nextIt, it}
        /\ ~ isRepeatable(timer) => timers' = rest /\ it' = nextIt
    BY DEF EndCallback
  <1>2. it \in DOMAIN timers /\ e \in Entry
    BY <1>1 DEF IInv, IteratorValid, Ordered
  <1>3. /\ Ordered(rest)
        /\ DOMAIN rest = DOMAIN timers \ {it}
        /\ \A i \in DOMAIN timers \ {it} : rest[i] = timers[i]
    BY EraseOrdered DEF IInv
  <1>4. nextIt \in (DOMAIN timers \ {it}) \cup {End}
    BY <1>3, FollowingIsAfter
  <1>5. CASE ~ isRepeatable(timer)
    BY <1>1, <1>4, <1>5, EraseStep
  <1>6. CASE isRepeatable(timer)
    <2>0. /\ e.key \in Nat /\ e.stamp \in Nat /\ e.value \in Nat /\ e.interval \in Nat
          /\ e.repeatTimes \in {-1, 0, 1} /\ readNow \in Nat
      BY <1>2, EntryFields DEF IInv, TypeOK
    <2>1. timer.repeatTimes = IF e.repeatTimes > 0 THEN e.repeatTimes - 1 ELSE e.repeatTimes
      BY <1>2 DEF onTimer, Entry
    <2>2. e.repeatTimes = -1 /\ timer.repeatTimes = -1
      BY <1>6, <2>0, <2>1 DEF isRepeatable, kRepeatForever
    <2>3. isRepeatable(e)
      BY <2>2 DEF isRepeatable, kRepeatForever
    <2>4. e.interval * Millis \in Nat
      <3>1. Millis \in Nat
        BY TimerAssumption
      <3> QED
        BY <2>0, <3>1
    <2>5. timer.value \in {readNow + e.interval * Millis, e.value + e.interval * Millis}
      BY <1>2 DEF onTimer, Entry
    <2>6. timer.value \in Nat /\ timer.value >= e.value
      <3>1. e.value <= readNow
        BY <1>1, <2>3 DEF IInv, CallbackIsDue
      <3> HIDE DEF timer, e
      <3> QED
        BY <2>0, <2>4, <2>5, <3>1
    <2>7. timer \in Entry
      <3>1. timer = [e EXCEPT !.value = timer.value, !.repeatTimes = timer.repeatTimes]
        BY <1>2 DEF onTimer, Entry
      <3>2. ASSUME NEW v \in Nat
            PROVE  [e EXCEPT !.value = v, !.repeatTimes = -1] \in Entry
        BY <1>2 DEF Entry, kRepeatForever
      <3> QED
        BY <2>2, <2>6, <3>1, <3>2
    <2>8. e.key >= issued[it] /\ e.key = e.value /\ it \notin cancelled
          /\ issued[it] \in Nat
      BY <1>2, <2>3 DEF IInv, TypeOK, TimersInPlace, CancelledIsMarked
    <2>9. /\ Ordered(timers')
          /\ DOMAIN timers' = DOMAIN timers
          /\ \A i \in DOMAIN timers \ {it} : timers'[i] = timers[i]
          /\ timers'[it].key = timer.value
          /\ timers'[it].value = timer.value
      <3>1. it \notin DOMAIN rest /\ timers' = Insert(rest, it, timer)
        BY <1>1, <1>3, <1>6
      <3> HIDE DEF timer, rest
      <3>2. Inserted(rest, it, timer, timers')
        BY <1>3, <2>7, <3>1, InsertOrdered
      <3> QED
        BY <1>2, <1>3, <3>2 DEF Inserted
    <2>10. TypeOK'
      BY <1>1, <2>9 DEF IInv, TypeOK
    <2>11. IteratorValid' /\ CallbackIsDue'
      BY <1>1, <1>2, <1>4, <1>6, <2>9 DEF IteratorValid, CallbackIsDue
    <2>12. CancelledIsMarked'
      BY <1>1, <2>8, <2>9 DEF IInv, CancelledIsMarked
    <2>13. TimersInPlace'
      <3>1. timers'[it].key >= issued[it]
        BY <2>0, <2>6, <2>8, <2>9
      <3> QED
        BY <1>1, <2>9, <3>1 DEF IInv, TimersInPlace
    <2> QED
      BY <2>9, <2>10, <2>11, <2>12, <2>13 DEF IInv
  <1> QED
    BY <1>5, <1>6

-----------------------------------------------------------------------------
(* IInv is an invariant of the timers of a loop.                           *)
THEOREM Invariance == Spec => []IInv
  <1>1. Init => IInv
    <2> SUFFICES ASSUME Init PROVE IInv
      OBVIOUS
    <2>1. DOMAIN timers = {} /\ DOMAIN issued = {} /\ timers = [i \in {} |-> {}]
          /\ issued = [i \in {} |-> 0]
      BY DEF Init
    <2>2. Ordered(timers)
      BY <2>1 DEF Ordered
    <2> QED
      BY <2>1, <2>2 DEF IInv, Init, TypeOK, IteratorValid, TimersInPlace,
                        CancelledIsMarked, CallbackIsDue
  <1>2. IInv /\ [Next]_vars => IInv'
    <2> SUFFICES ASSUME IInv, [Next]_vars PROVE IInv'
      OBVIOUS
    <2>1. ASSUME NEW id \in Ids, schedule(id) PROVE IInv'
      BY <2>1, AddTimerStep DEF schedule
    <2>2. ASSUME NEW id \in Ids, scheduleAtFixedRate(id) \/ scheduleAtFixedDelay(id)
          PROVE  IInv'
      <3>1. \A i \in Intervals : i \in Nat
        BY TimerAssumption
      <3> QED
        BY <2>2, <3>1, AddTimerStep DEF scheduleAtFixedRate, scheduleAtFixedDelay
    <2>3. ASSUME NEW id \in Ids, removeTimer(id) PROVE IInv'
      BY <2>3, RemoveTimerStep
    <2>4. CASE StartUpdate \/ EndUpdate \/ StartCallback
      <3>1. UNCHANGED <<timers, now, issued, cancelled>>
        BY <2>4 DEF StartUpdate, EndUpdate, StartCallback
      <3>2. Ordered(timers') /\ TimersInPlace' /\ CancelledIsMarked'
        BY <3>1 DEF IInv, TimersInPlace, CancelledIsMarked
      <3>3. TypeOK'
        BY <2>4, <3>1 DEF IInv, TypeOK, StartUpdate, EndUpdate, StartCallback
      <3>4. CASE StartUpdate
        <4>1. it' \in DOMAIN timers
          BY <3>4, FirstIsLeast DEF StartUpdate, IInv
        <4> QED
          BY <3>1, <3>2, <3>3, <3>4, <4>1 DEF StartUpdate, IInv, IteratorValid, CallbackIsDue
      <3>5. CASE EndUpdate
        BY <3>2, <3>3, <3>5 DEF EndUpdate, IInv, IteratorValid, CallbackIsDue
      <3>6. CASE StartCallback
        <4>1. it' = it /\ it \in DOMAIN timers /\ readNow' = now /\ upc' = "callback"
          BY <3>6 DEF StartCallback, IInv, IteratorValid
        <4>2. timers[it].value <= now
          <5>1. timers[it].value \in Nat /\ now \in Nat
            BY <4>1, EntryFields DEF IInv, TypeOK, Ordered
          <5> QED
            BY <3>6, <5>1 DEF StartCallback, isExpired
        <4> QED
          BY <3>1, <3>2, <3>3, <4>1, <4>2 DEF IInv, IteratorValid, CallbackIsDue
      <3> QED
        BY <2>4, <3>4, <3>5, <3>6
    <2>5. CASE EraseCancelled
      BY <2>5, EraseCancelledStep
    <2>6. CASE EndCallback
      BY <2>6, EndCallbackStep
    <2>7. CASE Tick \/ UNCHANGED vars
      <3>1. UNCHANGED <<timers, upc, it, readNow, issued, cancelled>> /\ now' \in Nat
        BY <2>7 DEF Tick, vars, IInv, TypeOK
      <3> QED
        BY <3>1 DEF IInv, TypeOK, IteratorValid, TimersInPlace, CancelledIsMarked, CallbackIsDue
    <2> QED
      BY <2>1, <2>2, <2>3, <2>4, <2>5, <2>6, <2>7 DEF Next, UpdateStep
  <1> QED
    BY <1>1, <1>2, PTL DEF Spec

(* However often update() moved a timer, removeTimer()'s search from its   *)
(* first expiration time finds it, and update() may stop at the first      *)
(* entry that is not expired.                                              *)
THEOREM TimersStayInPlace == Spec => []TimersInPlace
  BY Invariance, PTL DEF IInv

(* update() never calls the callback of a timer for which removeTimer()    *)
(* has returned.                                                           *)
THEOREM CancelledStaysQuiet == Spec => CancelledNeverFires
  <1>1. IInv /\ [Next]_vars => [(upc = "scan" /\ upc' = "callback") => it \notin cancelled]_vars
    <2> SUFFICES ASSUME IInv, Next, upc = "scan", upc' = "callback"
                 PROVE  it \notin cancelled
      OBVIOUS
    <2>1. StartCallback
      BY DEF Next, schedule, scheduleAtFixedRate, scheduleAtFixedDelay, addTimer, removeTimer,
             StartUpdate, UpdateStep, EndUpdate, EraseCancelled, EndCallback, Tick
    <2> QED
      BY <2>1 DEF StartCallback, IInv, IteratorValid, CancelledIsMarked
  <1> QED
    BY <1>1, Invariance, PTL DEF Spec, CancelledNeverFires

(* Rounding the remaining time down to milliseconds, the minimum and the   *)
(* maximum of the timeout never make the loop sleep past a live timer by   *)
(* more than the minimum.                                                  *)
THEOREM PollsInTime == Spec => []NoOversleep
  <1>1. IInv => NoOversleep
    <2> SUFFICES ASSUME IInv, NEW i \in DOMAIN timers, isRepeatable(timers[i])
                 PROVE  now + pollTimeout * Millis <= maxOf(timers[i].value, now + Millis)
      BY DEF NoOversleep
    <2> DEFINE f == timers[First(timers)].key
               rest == (f - now) \div Millis
    <2>1. First(timers) \in DOMAIN timers
          /\ \A j \in DOMAIN timers \ {First(timers)} : Before(timers[First(timers)], timers[j])
      BY FirstIsLeast DEF IInv
    <2>2. \A j \in DOMAIN timers : timers[j].key \in Nat /\ timers[j].value \in Nat
      BY EntryFields DEF IInv, Ordered
    <2>3. f \in Nat /\ f <= timers[i].key
      BY <2>1, <2>2 DEF Before
    <2>4. timers[i].key = timers[i].value
      BY DEF IInv, TimersInPlace
    <2>5. First(timers) # End
      BY <2>1, TimerAssumption DEF IInv, TypeOK
    <2>6. now \in Nat /\ Millis \in Nat \ {0} /\ kDefaultPollTimeout \in Nat \ {0}
      BY TimerAssumption DEF IInv, TypeOK
    <2>7. nearestTimerRemainingExpiredTime = IF f <= now THEN 0 ELSE rest
      BY <2>5 DEF nearestTimerRemainingExpiredTime
    <2> DEFINE v == timers[i].value
    <2>8. f <= v /\ v \in Nat
      BY <2>2, <2>3, <2>4
    <2> HIDE DEF f, v
    <2>9. CASE f <= now
      <3>1. pollTimeout = 1
        BY <2>6, <2>7, <2>9 DEF pollTimeout, minOf, maxOf, kMinimumPollTimeout
      <3>2. now + pollTimeout * Millis = now + Millis
        BY <2>6, <3>1
      <3> QED
        BY <2>6, <2>8, <3>2 DEF maxOf, v
    <2>10. CASE f > now
      <3>1. rest \in Nat /\ rest * Millis <= f - now
        <4>1. f - now \in Nat
          BY <2>3, <2>6, <2>10
        <4> QED
          BY <2>6, <4>1
      <3> HIDE DEF rest
      <3>2. pollTimeout \in Nat /\ (pollTimeout = 1 \/ pollTimeout <= rest)
        BY <2>3, <2>6, <2>7, <2>10, <3>1 DEF pollTimeout, minOf, maxOf, kMinimumPollTimeout
      <3>3. CASE pollTimeout = 1
        <4>1. now + pollTimeout * Millis = now + Millis
          BY <2>6, <3>3
        <4> QED
          BY <2>6, <2>8, <4>1 DEF maxOf, v
      <3>4. CASE pollTimeout <= rest
        <4>1. pollTimeout * Millis <= rest * Millis /\ pollTimeout * Millis \in Nat
              /\ rest * Millis \in Nat
          BY <2>6, <3>1, <3>2, <3>4
        <4>2. now + pollTimeout * Millis <= v
          BY <2>3, <2>6, <2>8, <3>1, <4>1
        <4> QED
          BY <2>6, <2>8, <4>1, <4>2 DEF maxOf, v
      <3> QED
        BY <3>2, <3>3, <3>4
    <2> QED
      BY <2>3, <2>6, <2>9, <2>10
  <1> QED
    BY <1>1, Invariance, PTL

-----------------------------------------------------------------------------
(* BoundedBlockingQueue: the inductive invariant.                          *)

QueueFunctions == [side : {"put", "take"}, timed : BOOLEAN, p : BOOLEAN, try : BOOLEAN]

Calls == [pc : {"idle", "lock", "evaluate", "operate", "block", "waiting", "notify"},
          op : QueueFunctions, expired : BOOLEAN]

QueueTypeOK ==
    /\ program \in [QueueThreads -> SUBSET QueueFunctions]
    /\ queue \in Seq(Nat)
    /\ call \in [QueueThreads -> Calls]
    /\ closed \in BOOLEAN
    /\ closing # "no" => closed
    /\ pushed \in Nat
    /\ popped \in Seq(Nat)

(* Whoever is between locking and unlocking has the mutex.                 *)
Exclusive == \A t \in QueueThreads :
                 call[t].pc \in {"evaluate", "operate", "block"} => mutex = {t}

(* What the predicate said still holds while the thread has the mutex.     *)
PredicateHolds ==
    \A t \in QueueThreads :
        /\ call[t].pc = "operate" => Ready(call[t].op.side) \/ (call[t].op.p /\ closed)
        /\ call[t].pc = "block" => ~ Ready(call[t].op.side)

(* Elements are numbered through what was popped and what is queued.       *)
Numbered == /\ pushed = Len(popped) + Len(queue)
            /\ \A i \in 1 .. Len(popped) : popped[i] = i
            /\ \A i \in 1 .. Len(queue) : queue[i] = Len(popped) + i
            /\ Len(queue) <= maxQueueSize

(* Places in the queue, or elements.                                       *)
Room(side) == IF side = "put" THEN maxQueueSize - Len(queue) ELSE Len(queue)

(* Threads that bring a signal to a side, or have got one.                 *)
Signals(side) ==
    {t \in QueueThreads :
        \/ call[t].pc = "notify" /\ call[t].op.side = Other(side)
        \/ call[t].pc \in {"lock", "evaluate", "operate"} /\ call[t].op.side = side}

(* While someone sleeps there is a signal for every place or element.      *)
SignalsSuffice ==
    \A side \in {"put", "take"} :
        ~ closed /\ Waiting(side) # {} => Cardinality(Signals(side)) >= Room(side)

QueueIInv == /\ QueueTypeOK
             /\ Exclusive
             /\ PredicateHolds
             /\ Numbered
             /\ SignalsSuffice
-----------------------------------------------------------------------------
(* What the helpers do to the threads' calls.                              *)
LEMMA CallChanges ==
    ASSUME QueueTypeOK, NEW t \in QueueThreads, NEW pc
    PROVE  /\ At(t, pc) => /\ call'[t].pc = pc /\ call'[t].op = call[t].op
                           /\ \A u \in QueueThreads \ {t} : call'[u] = call[u]
           /\ Returns(t) => /\ call'[t].pc = "idle"
                            /\ \A u \in QueueThreads \ {t} : call'[u] = call[u]
  BY DEF QueueTypeOK, Calls, At, Returns, NotCalling

LEMMA NotCallingType ==
    NotCalling \in Calls
  BY DEF NotCalling, put, QueueFunctions, Calls

(* Pushing and popping an element.                                         *)
LEMMA PushPop ==
    ASSUME QueueTypeOK, Numbered
    PROVE  /\ Push => /\ queue' \in Seq(Nat) /\ pushed' \in Nat /\ popped' \in Seq(Nat)
                      /\ Len(queue') = Len(queue) + 1
                      /\ Len(queue) < maxQueueSize => Numbered'
           /\ queue # << >> /\ Pop =>
                      /\ queue' \in Seq(Nat) /\ pushed' \in Nat /\ popped' \in Seq(Nat)
                      /\ Len(queue') = Len(queue) - 1
                      /\ Numbered'
  <1> USE BoundedBlockingQueueAssumption
  <1>t. queue \in Seq(Nat) /\ popped \in Seq(Nat) /\ pushed \in Nat
        /\ Len(queue) \in Nat /\ Len(popped) \in Nat
    BY LenProperties DEF QueueTypeOK
  <1>1. ASSUME Push
        PROVE  /\ queue' \in Seq(Nat) /\ pushed' \in Nat /\ popped' \in Seq(Nat)
               /\ Len(queue') = Len(queue) + 1
               /\ Len(queue) < maxQueueSize => Numbered'
    <2>1. queue' = Append(queue, pushed + 1) /\ pushed' = pushed + 1 /\ popped' = popped
      BY <1>1 DEF Push
    <2>2. /\ queue' \in Seq(Nat) /\ Len(queue') = Len(queue) + 1
          /\ \A i \in 1 .. Len(queue) : queue'[i] = queue[i]
          /\ queue'[Len(queue) + 1] = pushed + 1
      BY <1>t, <2>1, AppendProperties
    <2> QED
      BY <1>t, <2>1, <2>2 DEF Numbered
  <1>2. ASSUME queue # << >>, Pop
        PROVE  /\ queue' \in Seq(Nat) /\ pushed' \in Nat /\ popped' \in Seq(Nat)
               /\ Len(queue') = Len(queue) - 1
               /\ Numbered'
    <2>1. queue' = Tail(queue) /\ popped' = Append(popped, Head(queue)) /\ pushed' = pushed
      BY <1>2 DEF Pop
    <2>2. Len(queue) >= 1 /\ Head(queue) = queue[1] /\ Head(queue) \in Nat
      BY <1>t, <1>2, EmptySeq, HeadTailProperties
    <2>3. /\ queue' \in Seq(Nat) /\ Len(queue') = Len(queue) - 1
          /\ \A i \in 1 .. Len(queue') : queue'[i] = queue[i + 1]
      BY <1>t, <1>2, <2>1, HeadTailProperties
    <2>4. /\ popped' \in Seq(Nat) /\ Len(popped') = Len(popped) + 1
          /\ \A i \in 1 .. Len(popped) : popped'[i] = popped[i]
          /\ popped'[Len(popped) + 1] = Head(queue)
      BY <1>t, <2>1, <2>2, AppendProperties
    <2>5. Head(queue) = Len(popped) + 1
      BY <1>t, <2>2 DEF Numbered
    <2>6. Numbered'
      <3>1. pushed' = Len(popped') + Len(queue') /\ Len(queue') <= maxQueueSize
        BY <1>t, <2>1, <2>3, <2>4 DEF Numbered
      <3>2. \A i \in 1 .. Len(popped') : popped'[i] = i
        <4> TAKE i \in 1 .. Len(popped')
        <4>1. CASE i = Len(popped) + 1
          BY <2>4, <2>5, <4>1
        <4>2. CASE i # Len(popped) + 1
          <5>1. i \in 1 .. Len(popped)
            BY <1>t, <2>4, <4>2
          <5>2. popped[i] = i
            BY <5>1 DEF Numbered
          <5> QED
            BY <2>4, <5>1, <5>2
        <4> QED
          BY <4>1, <4>2
      <3>3. \A i \in 1 .. Len(queue') : queue'[i] = Len(popped') + i
        <4> SUFFICES ASSUME NEW i \in 1 .. Len(queue') PROVE queue'[i] = Len(popped') + i
          OBVIOUS
        <4>1. i + 1 \in 1 .. Len(queue) /\ queue'[i] = queue[i + 1]
          BY <1>t, <2>3
        <4>2. queue[i + 1] = Len(popped) + (i + 1)
          BY <4>1 DEF Numbered
        <4> QED
          BY <1>t, <2>4, <4>1, <4>2
      <3> QED
        BY <3>1, <3>2, <3>3 DEF Numbered
    <2> QED
      BY <1>t, <2>1, <2>3, <2>4, <2>6
  <1> QED
    BY <1>1, <1>2

-----------------------------------------------------------------------------
(* Types, order and bound: what the mutex protects.                        *)

LEMMA ThreadStepType ==
    ASSUME QueueTypeOK, Numbered, PredicateHolds, NEW t \in QueueThreads, ThreadStep(t)
    PROVE  QueueTypeOK' /\ Numbered'
  <1> USE BoundedBlockingQueueAssumption
  <1>c. call[t] \in Calls /\ call \in [QueueThreads -> Calls]
    BY DEF QueueTypeOK
  <1>a. ASSUME NEW pc \in {"lock", "evaluate", "operate", "block", "waiting", "notify"},
               At(t, pc)
        PROVE  call' \in [QueueThreads -> Calls]
    BY <1>c, <1>a DEF At, Calls
  <1>r. ASSUME Returns(t) PROVE call' \in [QueueThreads -> Calls]
    BY <1>c, <1>r, NotCallingType DEF Returns
  <1>u. ASSUME call' \in [QueueThreads -> Calls],
               UNCHANGED <<program, queue, closed, closing, pushed, popped>>
        PROVE  QueueTypeOK' /\ Numbered'
    BY <1>u DEF QueueTypeOK, Numbered
  <1>1. CASE Call(t)
    <2>1. PICK op \in program[t] :
              call' = [call EXCEPT ![t] = [pc |-> "lock", op |-> op, expired |-> FALSE]]
      BY <1>1 DEF Call
    <2>2. op \in QueueFunctions
      BY <2>1 DEF QueueTypeOK
    <2>3. call' \in [QueueThreads -> Calls]
      BY <1>c, <2>1, <2>2 DEF Calls
    <2> QED
      BY <1>1, <1>u, <2>3 DEF Call
  <1>2. CASE Lock(t)
    BY <1>2, <1>a, <1>u DEF Lock
  <1>3. CASE Evaluate(t)
    <2>1. Returns(t) \/ At(t, "operate") \/ At(t, "block")
      BY <1>3 DEF Evaluate
    <2>2. call' \in [QueueThreads -> Calls]
      BY <2>1, <1>a, <1>r
    <2> QED
      BY <1>3, <1>u, <2>2 DEF Evaluate
  <1>4. CASE Block(t)
    BY <1>4, <1>a, <1>u DEF Block
  <1>5. CASE WakeUp(t)
    <2>1. PICK expired \in {FALSE, call[t].op.timed} :
              call' = [call EXCEPT ![t].pc = "lock", ![t].expired = expired]
      BY <1>5 DEF WakeUp
    <2>2. call[t].op.timed \in BOOLEAN
      BY <1>c DEF Calls, QueueFunctions
    <2>3. expired \in BOOLEAN
      BY <2>1, <2>2, Zenon
    <2>4. call' \in [QueueThreads -> Calls]
      BY <1>c, <2>1, <2>3 DEF Calls
    <2> QED
      BY <1>5, <1>u, <2>4 DEF WakeUp
  <1>6. CASE Operate(t)
    <2>0. UNCHANGED <<program, closed, closing>>
      BY <1>6 DEF Operate
    <2>1. CASE Returns(t) /\ UNCHANGED <<queue, pushed, popped>>
      BY <2>0, <2>1, <1>r, <1>u
    <2>2. CASE ~ (call[t].op.p /\ closed) /\ At(t, "notify")
               /\ IF call[t].op.side = "put" THEN Push ELSE Pop
      <3>1. Ready(call[t].op.side)
        BY <1>6, <2>2 DEF Operate, PredicateHolds
      <3>2. Len(queue) \in Nat
        BY LenProperties DEF QueueTypeOK
      <3>3. queue' \in Seq(Nat) /\ pushed' \in Nat /\ popped' \in Seq(Nat) /\ Numbered'
        BY <2>2, <3>1, <3>2, PushPop DEF Ready, isFull, isEmpty
      <3>4. call' \in [QueueThreads -> Calls]
        BY <2>2, <1>a
      <3> QED
        BY <2>0, <3>3, <3>4 DEF QueueTypeOK
    <2> QED
      BY <1>6, <2>1, <2>2 DEF Operate
  <1>7. CASE NotifyOne(t)
    <2>1. CASE Returns(t)
      BY <1>7, <1>r, <1>u, <2>1 DEF NotifyOne
    <2>2. CASE ~ Returns(t)
      <3>1. PICK u \in QueueThreads : call' = [call EXCEPT ![t] = NotCalling, ![u].pc = "lock"]
        BY <1>7, <2>2 DEF NotifyOne, Waiting
      <3>2. [call EXCEPT ![t] = NotCalling] \in [QueueThreads -> Calls]
        BY <1>c, NotCallingType
      <3>3. call' \in [QueueThreads -> Calls]
        BY <3>1, <3>2 DEF Calls
      <3> QED
        BY <1>7, <1>u, <3>3 DEF NotifyOne
    <2> QED
      BY <2>1, <2>2
  <1>8. CASE Try(t)
    <2>1. PICK op \in program[t] :
              /\ Ready(op.side)
              /\ IF op.side = "put" THEN Push ELSE Pop
              /\ call' = [call EXCEPT ![t].pc = "notify", ![t].op = op]
      BY <1>8 DEF Try
    <2>2. Len(queue) \in Nat
      BY LenProperties DEF QueueTypeOK
    <2>3. queue' \in Seq(Nat) /\ pushed' \in Nat /\ popped' \in Seq(Nat) /\ Numbered'
      BY <2>1, <2>2, PushPop DEF Ready, isFull, isEmpty
    <2>4. op \in QueueFunctions
      BY <2>1 DEF QueueTypeOK
    <2>5. call' \in [QueueThreads -> Calls]
      BY <1>c, <2>1, <2>4 DEF Calls
    <2>6. UNCHANGED <<program, closed, closing>>
      BY <1>8 DEF Try
    <2> QED
      BY <2>3, <2>5, <2>6 DEF QueueTypeOK
  <1> QED
    BY <1>1, <1>2, <1>3, <1>4, <1>5, <1>6, <1>7, <1>8 DEF ThreadStep

(* The thread that closes the queue touches neither elements nor programs. *)
LEMMA CloseStepType ==
    ASSUME QueueTypeOK, Numbered, Close \/ notifyBlockingThread
    PROVE  QueueTypeOK' /\ Numbered'
  <1>1. UNCHANGED <<program, queue, mutex, pushed, popped>>
    BY DEF Close, notifyBlockingThread
  <1>2. call' \in [QueueThreads -> Calls]
    <2>1. ASSUME NEW side \in {"put", "take"} PROVE AllWoken(side) \in [QueueThreads -> Calls]
      BY DEF AllWoken, QueueTypeOK, Calls
    <2> QED
      BY <2>1 DEF Close, notifyBlockingThread, QueueTypeOK
  <1>3. closed' \in BOOLEAN /\ (closing' # "no" => closed')
    BY DEF Close, notifyBlockingThread, QueueTypeOK
  <1> QED
    BY <1>1, <1>2, <1>3 DEF QueueTypeOK, Numbered

(* The mutex excludes, and what a predicate said holds as long as the      *)
(* thread that evaluated it has the mutex.                                 *)
LEMMA ThreadStepExclusive ==
    ASSUME QueueTypeOK, Exclusive, PredicateHolds, NEW t \in QueueThreads, ThreadStep(t)
    PROVE  Exclusive' /\ PredicateHolds'
  <1>1. CASE \/ Call(t) \/ WakeUp(t) \/ NotifyOne(t)
    <2>1. UNCHANGED <<queue, mutex, closed>>
      BY <1>1 DEF Call, WakeUp, NotifyOne
    <2>2. \A u \in QueueThreads : call'[u].pc \in {"evaluate", "operate", "block"}
                                      => call'[u] = call[u]
      <3>1. CASE Call(t)
        BY <3>1 DEF Call, QueueTypeOK
      <3>2. CASE WakeUp(t)
        BY <3>2 DEF WakeUp, QueueTypeOK, Calls
      <3>3. CASE NotifyOne(t)
        BY <3>3 DEF NotifyOne, Returns, NotCalling, Waiting, QueueTypeOK, Calls
      <3> QED
        BY <1>1, <3>1, <3>2, <3>3
    <2>3. Exclusive'
      BY <2>1, <2>2 DEF Exclusive
    <2>4. PredicateHolds'
      BY <2>1, <2>2 DEF PredicateHolds, Ready, isFull, isEmpty
    <2> QED
      BY <2>3, <2>4
  <1>2. CASE Lock(t)
    <2>1. \A u \in QueueThreads : call[u].pc \notin {"evaluate", "operate", "block"}
      BY <1>2 DEF Lock, Exclusive
    <2>2. call'[t].pc = "evaluate" /\ \A u \in QueueThreads \ {t} : call'[u] = call[u]
      BY <1>2, CallChanges DEF Lock
    <2> QED
      BY <1>2, <2>1, <2>2 DEF Lock, Exclusive, PredicateHolds
  <1>3. CASE Evaluate(t) \/ Block(t) \/ Operate(t)
    <2>1. mutex = {t} /\ \A u \in QueueThreads \ {t} : call'[u] = call[u]
      BY <1>3, CallChanges DEF Evaluate, Block, Operate, Exclusive
    <2>2. \A u \in QueueThreads \ {t} : call'[u].pc \notin {"evaluate", "operate", "block"}
      BY <2>1 DEF Exclusive
    <2>3. CASE Evaluate(t)
      <3>1. UNCHANGED <<queue, closed>>
        BY <2>3 DEF Evaluate
      <3>2. CASE call'[t].pc = "idle"
        BY <2>2, <3>2 DEF Exclusive, PredicateHolds
      <3>3. CASE call'[t].pc # "idle"
        <4>1. ~ Returns(t) /\ mutex' = mutex
          BY <2>3, <3>3, CallChanges DEF Evaluate
        <4>2. Exclusive'
          BY <2>1, <2>2, <4>1 DEF Exclusive
        <4>3. PredicateHolds'
          <5>1. CASE Ready(call[t].op.side) \/ (call[t].op.p /\ closed)
            <6>1. At(t, "operate")
              BY <2>3, <4>1, <5>1 DEF Evaluate
            <6>2. call'[t].pc = "operate" /\ call'[t].op = call[t].op
              BY <6>1, CallChanges
            <6> QED
              BY <2>2, <3>1, <5>1, <6>2 DEF PredicateHolds, Ready, isFull, isEmpty
          <5>2. CASE ~ (Ready(call[t].op.side) \/ (call[t].op.p /\ closed))
            <6>1. At(t, "block")
              BY <2>3, <4>1, <5>2 DEF Evaluate
            <6>2. call'[t].pc = "block" /\ call'[t].op = call[t].op
              BY <6>1, CallChanges
            <6> QED
              BY <2>2, <3>1, <5>2, <6>2 DEF PredicateHolds, Ready, isFull, isEmpty
          <5> QED
            BY <5>1, <5>2
        <4> QED
          BY <4>2, <4>3
      <3> QED
        BY <3>2, <3>3
    <2>4. CASE Block(t) \/ Operate(t)
      <3>1. call'[t].pc \notin {"evaluate", "operate", "block"}
        BY <2>4, CallChanges DEF Block, Operate
      <3> QED
        BY <2>2, <3>1 DEF Exclusive, PredicateHolds
    <2> QED
      BY <1>3, <2>3, <2>4
  <1>4. CASE Try(t)
    <2>1. \A u \in QueueThreads : call[u].pc \notin {"evaluate", "operate", "block"}
      BY <1>4 DEF Try, Exclusive
    <2>2. call'[t].pc = "notify" /\ \A u \in QueueThreads \ {t} : call'[u] = call[u]
      BY <1>4 DEF Try, QueueTypeOK, Calls
    <2> QED
      BY <2>1, <2>2 DEF Exclusive, PredicateHolds
  <1> QED
    BY <1>1, <1>2, <1>3, <1>4 DEF ThreadStep

LEMMA CloseStepExclusive ==
    ASSUME QueueTypeOK, Exclusive, PredicateHolds, Close \/ notifyBlockingThread
    PROVE  Exclusive' /\ PredicateHolds'
  <1>1. UNCHANGED <<queue, mutex>> /\ (closed => closed')
    BY DEF Close, notifyBlockingThread
  <1>2. \A u \in QueueThreads : call'[u].pc \in {"evaluate", "operate", "block"}
                                    => call'[u] = call[u]
    BY DEF Close, notifyBlockingThread, AllWoken, Waiting, QueueTypeOK, Calls
  <1> QED
    BY <1>1, <1>2 DEF Exclusive, PredicateHolds, Ready, isFull, isEmpty

-----------------------------------------------------------------------------
(* Signals.                                                                *)

(* Two sets that differ in one element at most.                            *)
LEMMA OneApart ==
    ASSUME NEW S, NEW T, IsFiniteSet(S), IsFiniteSet(T), NEW x, S \ {x} = T \ {x}
    PROVE  /\ Cardinality(S) \in Nat /\ Cardinality(T) \in Nat
           /\ Cardinality(T) - (IF x \in T THEN 1 ELSE 0)
                 = Cardinality(S) - (IF x \in S THEN 1 ELSE 0)
  <1>1. Cardinality(S) \in Nat /\ Cardinality(T) \in Nat
    BY FS_CardinalityType
  <1>2. Cardinality(S \ {x}) = IF x \in S THEN Cardinality(S) - 1 ELSE Cardinality(S)
    BY FS_RemoveElement
  <1>3. Cardinality(T \ {x}) = IF x \in T THEN Cardinality(T) - 1 ELSE Cardinality(T)
    BY FS_RemoveElement
  <1> QED
    BY <1>1, <1>2, <1>3

LEMMA SignalsFinite ==
    \A side \in {"put", "take"} :
        /\ IsFiniteSet(Signals(side)) /\ IsFiniteSet(Signals(side)')
        /\ Cardinality(Signals(side)) \in Nat /\ Cardinality(Signals(side)') \in Nat
  <1> TAKE side \in {"put", "take"}
  <1>1. Signals(side) \in SUBSET QueueThreads /\ Signals(side)' \in SUBSET QueueThreads
    BY DEF Signals
  <1>2. IsFiniteSet(QueueThreads)
    BY BoundedBlockingQueueAssumption
  <1>3. IsFiniteSet(Signals(side)) /\ IsFiniteSet(Signals(side)')
    BY <1>1, <1>2, FS_Subset
  <1> QED
    BY <1>3, FS_CardinalityType

(* A step of one thread changes the signals by at most that thread.        *)
LEMMA SignalsOfOthers ==
    ASSUME NEW t \in QueueThreads, \A u \in QueueThreads \ {t} : call'[u] = call[u],
           NEW side \in {"put", "take"}
    PROVE  /\ Cardinality(Signals(side)) \in Nat /\ Cardinality(Signals(side)') \in Nat
           /\ Cardinality(Signals(side)') - (IF t \in Signals(side)' THEN 1 ELSE 0)
                 = Cardinality(Signals(side)) - (IF t \in Signals(side) THEN 1 ELSE 0)
  <1>1. Signals(side) \ {t} = Signals(side)' \ {t}
    BY DEF Signals
  <1>2. IsFiniteSet(Signals(side)) /\ IsFiniteSet(Signals(side)')
    BY SignalsFinite
  <1> QED
    BY <1>1, <1>2, OneApart

(* There is no room, or the step adds a thread to the signals, or takes one *)
(* from them, in step with the room.                                       *)
LEMMA SignalsKeepUp ==
    ASSUME NEW t \in QueueThreads, \A u \in QueueThreads \ {t} : call'[u] = call[u],
           SignalsSuffice, closed' = closed, NEW side \in {"put", "take"},
           Room(side) \in Int, Room(side)' \in Int,
           \/ Room(side)' = 0
           \/ /\ Waiting(side)' \subseteq Waiting(side)
              /\ Room(side)' - Room(side) <= (IF t \in Signals(side)' THEN 1 ELSE 0)
                                             - (IF t \in Signals(side) THEN 1 ELSE 0),
           ~ closed', Waiting(side)' # {}
    PROVE  Cardinality(Signals(side)') >= Room(side)'
  <1>1. /\ Cardinality(Signals(side)) \in Nat /\ Cardinality(Signals(side)') \in Nat
        /\ Cardinality(Signals(side)') - (IF t \in Signals(side)' THEN 1 ELSE 0)
              = Cardinality(Signals(side)) - (IF t \in Signals(side) THEN 1 ELSE 0)
    BY SignalsOfOthers
  <1>2. CASE Room(side)' = 0
    BY <1>1, <1>2
  <1>3. CASE Room(side)' # 0
    <2>1. ~ closed /\ Waiting(side) # {}
      BY <1>3
    <2>2. Cardinality(Signals(side)) >= Room(side)
      BY <2>1 DEF SignalsSuffice
    <2> QED
      BY <1>1, <1>3, <2>2
  <1> QED
    BY <1>2, <1>3

LEMMA RoomType ==
    ASSUME QueueTypeOK, Numbered, NEW side \in {"put", "take"}
    PROVE  /\ Room(side) \in Nat
           /\ Ready(side) <=> Room(side) # 0
  <1>1. queue \in Seq(Nat) /\ Len(queue) \in Nat
    BY LenProperties DEF QueueTypeOK
  <1>2. queue = << >> <=> Len(queue) = 0
    BY <1>1, EmptySeq
  <1> QED
    BY <1>1, <1>2, BoundedBlockingQueueAssumption
       DEF Numbered, Room, Ready, isFull, isEmpty

LEMMA RoomSame ==
    ASSUME queue' = queue, NEW side
    PROVE  Room(side)' = Room(side)
  BY DEF Room

(* An element moved takes room from one side and gives it to the other.    *)
LEMMA RoomMoves ==
    ASSUME QueueTypeOK, Numbered, NEW op \in {"put", "take"}, Ready(op),
           IF op = "put" THEN Push ELSE Pop
    PROVE  Room(op)' = Room(op) - 1 /\ Room(Other(op))' = Room(Other(op)) + 1
  <1>1. Len(queue) \in Nat
    BY LenProperties DEF QueueTypeOK
  <1>2. CASE op = "put"
    BY <1>1, <1>2, PushPop, BoundedBlockingQueueAssumption DEF Room, Other
  <1>3. CASE op = "take"
    <2>1. queue # << >> /\ Pop
      BY <1>3 DEF Ready, isEmpty
    <2>2. Len(queue') = Len(queue) - 1
      BY <2>1, PushPop
    <2> QED
      BY <1>1, <1>3, <2>2, BoundedBlockingQueueAssumption DEF Room, Other
  <1> QED
    BY <1>2, <1>3

LEMMA ThreadStepSignals ==
    ASSUME QueueTypeOK, Numbered, PredicateHolds, SignalsSuffice,
           QueueTypeOK', Numbered', NEW t \in QueueThreads, ThreadStep(t)
    PROVE  SignalsSuffice'
  <1> SUFFICES ASSUME NEW side \in {"put", "take"}, ~ closed', Waiting(side)' # {}
               PROVE  Cardinality(Signals(side)') >= Room(side)'
    BY Zenon DEF SignalsSuffice
  <1>0. closed' = closed
    BY DEF ThreadStep, Call, Lock, Evaluate, Block, WakeUp, Operate, NotifyOne, Try
  <1>c. call \in [QueueThreads -> Calls] /\ call' \in [QueueThreads -> Calls]
        /\ call[t].op.side \in {"put", "take"}
    BY DEF QueueTypeOK, Calls, QueueFunctions
  <1>i. /\ Room(side) \in Int /\ Room(side)' \in Int
        /\ Ready(side) <=> Room(side) # 0
    <2>1. Len(queue') \in Nat
      BY LenProperties DEF QueueTypeOK
    <2> QED
      BY <2>1, RoomType, BoundedBlockingQueueAssumption DEF Room
  <1> DEFINE others == \A u \in QueueThreads \ {t} : call'[u] = call[u]
             was == IF t \in Signals(side) THEN 1 ELSE 0
             is == IF t \in Signals(side)' THEN 1 ELSE 0
  <1>k. ASSUME others,
               \/ Room(side)' = 0
               \/ /\ Waiting(side)' \subseteq Waiting(side)
                  /\ Room(side)' - Room(side) <= is - was
        PROVE  Cardinality(Signals(side)') >= Room(side)'
    BY <1>0, <1>i, <1>k, SignalsKeepUp
  <1>1. CASE Call(t)
    <2>1. others /\ call[t].pc = "idle" /\ call'[t].pc = "lock"
      BY <1>1, <1>c DEF Call
    <2>2. Room(side)' = Room(side)
      BY <1>1, RoomSame DEF Call
    <2>3. Waiting(side)' \subseteq Waiting(side)
      BY <2>1 DEF Waiting
    <2>4. was = 0
      BY <2>1 DEF Signals
    <2> QED
      BY <1>i, <1>k, <2>1, <2>2, <2>3, <2>4
  <1>2. CASE Lock(t)
    <2>1. others /\ call[t].pc = "lock" /\ call'[t].pc = "evaluate" /\ call'[t].op = call[t].op
      BY <1>2, CallChanges DEF Lock
    <2>2. Room(side)' = Room(side)
      BY <1>2, RoomSame DEF Lock
    <2>3. Waiting(side)' \subseteq Waiting(side) /\ (t \in Signals(side)' <=> t \in Signals(side))
      BY <2>1 DEF Waiting, Signals
    <2> QED
      BY <1>i, <1>k, <2>1, <2>2, <2>3
  <1>3. CASE Evaluate(t)
    <2>1. others /\ call[t].pc = "evaluate" /\ call'[t].pc # "waiting"
      BY <1>3, CallChanges DEF Evaluate
    <2>2. Room(side)' = Room(side)
      BY <1>3, RoomSame DEF Evaluate
    <2>3. Waiting(side)' \subseteq Waiting(side)
      BY <2>1 DEF Waiting
    <2>4. CASE side = call[t].op.side /\ ~ Ready(side)
      BY <1>i, <1>k, <2>1, <2>2, <2>4
    <2>5. CASE side = call[t].op.side /\ Ready(side)
      <3>1. At(t, "operate")
        BY <1>3, <2>5 DEF Evaluate
      <3>2. call'[t].pc = "operate" /\ call'[t].op = call[t].op
        BY <3>1, CallChanges
      <3>3. t \in Signals(side)'
        BY <2>5, <3>2 DEF Signals
      <3> QED
        BY <1>i, <1>k, <2>1, <2>2, <2>3, <3>3
    <2>6. CASE side # call[t].op.side
      <3>1. t \notin Signals(side)
        BY <2>1, <2>6 DEF Signals
      <3> QED
        BY <1>i, <1>k, <2>1, <2>2, <2>3, <3>1
    <2> QED
      BY <2>4, <2>5, <2>6
  <1>4. CASE Block(t)
    <2>1. others /\ call[t].pc = "block" /\ call'[t].pc = "waiting" /\ call'[t].op = call[t].op
      BY <1>4, CallChanges DEF Block
    <2>2. Room(side)' = Room(side)
      BY <1>4, RoomSame DEF Block
    <2>3. CASE side = call[t].op.side
      <3>1. ~ Ready(side)
        BY <2>1, <2>3 DEF PredicateHolds
      <3> QED
        BY <1>i, <1>k, <2>1, <2>2, <3>1
    <2>4. CASE side # call[t].op.side
      <3>1. Waiting(side)' \subseteq Waiting(side) /\ t \notin Signals(side)
        BY <2>1, <2>4 DEF Waiting, Signals
      <3> QED
        BY <1>i, <1>k, <2>1, <2>2, <3>1
    <2> QED
      BY <2>3, <2>4
  <1>5. CASE WakeUp(t)
    <2>1. others /\ call[t].pc = "waiting" /\ call'[t].pc = "lock"
      BY <1>5, <1>c DEF WakeUp, Calls
    <2>2. Room(side)' = Room(side)
      BY <1>5, RoomSame DEF WakeUp
    <2>3. Waiting(side)' \subseteq Waiting(side) /\ t \notin Signals(side)
      BY <2>1 DEF Waiting, Signals
    <2> QED
      BY <1>i, <1>k, <2>1, <2>2, <2>3
  <1>m. ASSUME others, NEW op \in {"put", "take"}, Ready(op),
               IF op = "put" THEN Push ELSE Pop,
               call'[t].pc = "notify", call'[t].op.side = op,
               call[t].pc # "waiting",
               \A s \in {"put", "take"} : t \in Signals(s) => s = op
        PROVE  Cardinality(Signals(side)') >= Room(side)'
    <2>1. Room(op)' = Room(op) - 1 /\ Room(Other(op))' = Room(Other(op)) + 1
      BY <1>m, RoomMoves
    <2>2. Waiting(side)' \subseteq Waiting(side)
      BY <1>m DEF Waiting
    <2>3. CASE side = op
      BY <1>i, <1>k, <1>m, <2>1, <2>2, <2>3
    <2>4. CASE side # op
      <3>1. side = Other(op) /\ op = Other(side)
        BY <2>4 DEF Other
      <3>2. t \notin Signals(side)
        BY <1>m, <2>4
      <3>3. t \in Signals(side)'
        BY <1>m, <3>1 DEF Signals
      <3>4. Room(side)' = Room(side) + 1
        BY <2>1, <3>1
      <3> QED
        BY <1>i, <1>k, <1>m, <2>2, <3>2, <3>3, <3>4
    <2> QED
      BY <2>3, <2>4
  <1>6. CASE Operate(t)
    <2>1. /\ ~ (call[t].op.p /\ closed) /\ At(t, "notify") /\ call[t].pc = "operate"
          /\ IF call[t].op.side = "put" THEN Push ELSE Pop
      BY <1>0, <1>6 DEF Operate
    <2>2. others /\ call'[t].pc = "notify" /\ call'[t].op = call[t].op
      BY <2>1, CallChanges
    <2>3. Ready(call[t].op.side)
      BY <2>1 DEF PredicateHolds
    <2>4. \A s \in {"put", "take"} : t \in Signals(s) => s = call[t].op.side
      BY <2>1 DEF Signals
    <2> QED
      BY <1>c, <1>m, <2>1, <2>2, <2>3, <2>4
  <1>7. CASE NotifyOne(t)
    <2>1. call[t].pc = "notify" /\ queue' = queue
      BY <1>7 DEF NotifyOne
    <2>2. Room(side)' = Room(side)
      BY <2>1, RoomSame
    <2>3. CASE Returns(t)
      <3>1. others /\ call'[t].pc = "idle"
        BY <2>3, CallChanges
      <3>2. Waiting(side)' \subseteq Waiting(side)
        BY <3>1 DEF Waiting
      <3>3. CASE t \notin Signals(side)
        BY <1>i, <1>k, <2>2, <3>1, <3>2, <3>3
      <3>4. CASE t \in Signals(side)
        <4>1. side = Other(call[t].op.side)
          BY <1>c, <2>1, <3>4 DEF Signals, Other
        <4>2. Waiting(side) # {}
          BY <3>2
        <4>3. PICK u \in Waiting(side) :
                  call' = [call EXCEPT ![t] = NotCalling, ![u].pc = "lock"]
          BY <1>7, <4>1, <4>2 DEF NotifyOne
        <4>4. call'[u].pc = "lock" /\ u # t /\ call[u].pc = "waiting"
          BY <1>c, <2>1, <4>3 DEF Waiting, Calls
        <4>5. u \in QueueThreads
          BY <4>3 DEF Waiting
        <4> QED
          BY <3>1, <4>4, <4>5
      <3> QED
        BY <3>3, <3>4
    <2>4. CASE ~ Returns(t)
      <3>1. PICK u \in Waiting(Other(call[t].op.side)) :
                call' = [call EXCEPT ![t] = NotCalling, ![u].pc = "lock"]
        BY <1>7, <2>4 DEF NotifyOne
      <3>2. /\ u \in QueueThreads /\ u # t
            /\ call[u].pc = "waiting" /\ call[u].op.side = Other(call[t].op.side)
        BY <2>1, <3>1 DEF Waiting
      <3>3. /\ call'[u].pc = "lock" /\ call'[u].op = call[u].op
            /\ call'[t].pc = "idle"
            /\ \A w \in QueueThreads \ {t, u} : call'[w] = call[w]
        BY <1>c, <3>1, <3>2 DEF NotCalling, Calls
      <3>4. Waiting(side)' \subseteq Waiting(side)
        BY <3>2, <3>3 DEF Waiting
      <3>5. Cardinality(Signals(side)) >= Room(side)
        BY <1>0, <3>4 DEF SignalsSuffice
      <3>6. CASE side = Other(call[t].op.side)
        <4>1. t \in Signals(side) /\ u \notin Signals(side)
          BY <1>c, <2>1, <3>2, <3>6 DEF Signals, Other
        <4>2. t \notin Signals(side)' /\ u \in Signals(side)'
          BY <3>2, <3>3, <3>6 DEF Signals
        <4>3. Signals(side)' = (Signals(side) \ {t}) \cup {u}
          <5>1. \A w \in QueueThreads \ {t, u} : w \in Signals(side)' <=> w \in Signals(side)
            BY <3>3 DEF Signals
          <5>2. Signals(side) \subseteq QueueThreads /\ Signals(side)' \subseteq QueueThreads
            BY DEF Signals
          <5> QED
            BY <4>1, <4>2, <5>1, <5>2
        <4>4. IsFiniteSet(Signals(side)) /\ Cardinality(Signals(side)) \in Nat
          BY SignalsFinite
        <4>5. /\ IsFiniteSet(Signals(side) \ {t})
              /\ Cardinality(Signals(side) \ {t}) = Cardinality(Signals(side)) - 1
          BY <4>1, <4>4, FS_RemoveElement
        <4>6. Cardinality(Signals(side)') = Cardinality(Signals(side) \ {t}) + 1
          BY <4>1, <4>3, <4>5, FS_AddElement
        <4> QED
          BY <2>2, <3>5, <4>4, <4>5, <4>6
      <3>7. CASE side # Other(call[t].op.side)
        <4>1. t \notin Signals(side) /\ u \notin Signals(side)
          BY <1>c, <2>1, <3>2, <3>7 DEF Signals, Other
        <4>2. t \notin Signals(side)' /\ u \notin Signals(side)'
          BY <3>2, <3>3, <3>7 DEF Signals
        <4>3. Signals(side)' = Signals(side)
          <5>1. \A w \in QueueThreads \ {t, u} : w \in Signals(side)' <=> w \in Signals(side)
            BY <3>3 DEF Signals
          <5>2. Signals(side) \subseteq QueueThreads /\ Signals(side)' \subseteq QueueThreads
            BY DEF Signals
          <5> QED
            BY <4>1, <4>2, <5>1, <5>2
        <4> QED
          BY <2>2, <3>5, <4>3
      <3> QED
        BY <3>6, <3>7
    <2> QED
      BY <2>3, <2>4
  <1>8. CASE Try(t)
    <2>1. PICK op \in program[t] :
              /\ Ready(op.side)
              /\ IF op.side = "put" THEN Push ELSE Pop
              /\ call' = [call EXCEPT ![t].pc = "notify", ![t].op = op]
      BY <1>8 DEF Try
    <2>2. op.side \in {"put", "take"}
      BY <2>1 DEF QueueTypeOK, QueueFunctions
    <2>3. others /\ call[t].pc = "idle" /\ call'[t].pc = "notify" /\ call'[t].op = op
      BY <1>8, <1>c, <2>1 DEF Try, Calls
    <2>4. \A s \in {"put", "take"} : t \notin Signals(s)
      BY <2>3 DEF Signals
    <2> QED
      BY <1>m, <2>1, <2>2, <2>3, <2>4
  <1> QED
    BY <1>1, <1>2, <1>3, <1>4, <1>5, <1>6, <1>7, <1>8 DEF ThreadStep

-----------------------------------------------------------------------------
(* QueueIInv is an invariant of the queue.                                 *)
THEOREM QueueInvariance == QueueSpec => []QueueIInv
  <1>1. QueueInit => QueueIInv
    <2> SUFFICES ASSUME QueueInit PROVE QueueIInv
      OBVIOUS
    <2>1. QueueTypeOK
      <3>1. program \in [QueueThreads -> SUBSET QueueFunctions]
        BY BoundedBlockingQueueAssumption DEF QueueInit, QueueFunctions
      <3>2. call \in [QueueThreads -> Calls]
        BY NotCallingType DEF QueueInit
      <3>3. queue \in Seq(Nat) /\ popped \in Seq(Nat) /\ pushed \in Nat
        BY DEF QueueInit
      <3>4. closed \in BOOLEAN /\ (closing # "no" => closed)
        BY DEF QueueInit
      <3> QED
        BY <3>1, <3>2, <3>3, <3>4 DEF QueueTypeOK
    <2>2. \A t \in QueueThreads : call[t].pc = "idle"
      BY DEF QueueInit, NotCalling
    <2>3. Exclusive /\ PredicateHolds /\ SignalsSuffice
      BY <2>2 DEF Exclusive, PredicateHolds, SignalsSuffice, Waiting
    <2>4. Numbered
      BY BoundedBlockingQueueAssumption DEF QueueInit, Numbered
    <2> QED
      BY <2>1, <2>3, <2>4 DEF QueueIInv
  <1>2. QueueIInv /\ [QueueNext]_queueVars => QueueIInv'
    <2> SUFFICES ASSUME QueueIInv, [QueueNext]_queueVars PROVE QueueIInv'
      OBVIOUS
    <2>i. QueueTypeOK /\ Exclusive /\ PredicateHolds /\ Numbered /\ SignalsSuffice
      BY DEF QueueIInv
    <2>1. CASE \E t \in QueueThreads : ThreadStep(t)
      BY <2>1, <2>i, ThreadStepType, ThreadStepExclusive, ThreadStepSignals DEF QueueIInv
    <2>2. CASE Close \/ notifyBlockingThread
      <3>1. QueueTypeOK' /\ Numbered' /\ Exclusive' /\ PredicateHolds'
        BY <2>2, <2>i, CloseStepType, CloseStepExclusive
      <3>2. closed'
        BY <2>2, <2>i DEF QueueTypeOK, Close, notifyBlockingThread
      <3>3. SignalsSuffice'
        BY <3>2 DEF SignalsSuffice
      <3> QED
        BY <3>1, <3>3 DEF QueueIInv
    <2>3. CASE UNCHANGED queueVars
      <3>1. QueueTypeOK' /\ Numbered'
        BY <2>i, <2>3 DEF queueVars, QueueTypeOK, Numbered
      <3>2. Exclusive' /\ PredicateHolds'
        BY <2>i, <2>3 DEF queueVars, Exclusive, PredicateHolds, Ready, isFull, isEmpty
      <3>3. SignalsSuffice'
        BY <2>i, <2>3 DEF queueVars, SignalsSuffice, Waiting, Signals, Room
      <3> QED
        BY <3>1, <3>2, <3>3 DEF QueueIInv
    <2> QED
      BY <2>1, <2>2, <2>3 DEF QueueNext
  <1> QED
    BY <1>1, <1>2, PTL DEF QueueSpec

(* Elements leave put() and take() once each and in order, and there are   *)
(* never more of them than maxQueueSize_, whatever the threads do between  *)
(* being woken and having the mutex.                                       *)
THEOREM ElementsKept == QueueSpec => []QueueKeepsElements
  <1>1. QueueIInv => QueueKeepsElements
    <2> SUFFICES ASSUME QueueTypeOK, Numbered PROVE QueueKeepsElements
      BY DEF QueueIInv
    <2> DEFINE all == [i \in 1 .. pushed |-> i]
    <2>1. /\ queue \in Seq(Nat) /\ popped \in Seq(Nat) /\ pushed \in Nat
          /\ Len(queue) \in Nat /\ Len(popped) \in Nat
      BY LenProperties DEF QueueTypeOK
    <2>2. all \in Seq(Nat) /\ Len(all) = pushed
      BY <2>1
    <2>3. /\ popped \o queue \in Seq(Nat)
          /\ Len(popped \o queue) = Len(popped) + Len(queue)
          /\ \A i \in 1 .. Len(popped) + Len(queue) :
                (popped \o queue)[i] = IF i <= Len(popped) THEN popped[i]
                                       ELSE queue[i - Len(popped)]
      BY <2>1, ConcatProperties
    <2>4. \A i \in 1 .. pushed : (popped \o queue)[i] = all[i]
      <3> TAKE i \in 1 .. pushed
      <3>1. i \in 1 .. Len(popped) + Len(queue)
        BY DEF Numbered
      <3>2. CASE i <= Len(popped)
        <4>1. i \in 1 .. Len(popped)
          BY <2>1, <3>2
        <4> QED
          BY <2>3, <3>1, <3>2, <4>1 DEF Numbered
      <3>3. CASE ~ (i <= Len(popped))
        <4>1. i - Len(popped) \in 1 .. Len(queue)
          BY <2>1, <3>1, <3>3
        <4>2. queue[i - Len(popped)] = Len(popped) + (i - Len(popped))
          BY <4>1 DEF Numbered
        <4> QED
          BY <2>1, <2>3, <3>1, <3>3, <4>2
      <3> QED
        BY <3>2, <3>3
    <2>5. popped \o queue = all
      <3>1. Len(popped \o queue) = pushed
        BY <2>3 DEF Numbered
      <3> HIDE DEF all
      <3> QED
        BY <2>2, <2>3, <2>4, <3>1, SeqEqual
    <2> QED
      BY <2>5 DEF QueueKeepsElements, Numbered
  <1> QED
    BY <1>1, QueueInvariance, PTL

(* While p() is false, notify_one() is not lost: no thread sleeps in put() *)
(* or take() for what is there unless a signal for its side is on its way  *)
(* or an awake thread of its side will take it.                            *)
THEOREM SignalsArrive == QueueSpec => []QueueSignalled
  <1>1. QueueIInv => QueueSignalled
    <2> SUFFICES ASSUME QueueTypeOK, Numbered, SignalsSuffice,
                        NEW side \in {"put", "take"},
                        ~ closed, Waiting(side) # {}, Ready(side)
                 PROVE  Signals(side) # {}
      BY DEF QueueIInv, QueueSignalled, Signals
    <2>1. Room(side) \in Nat /\ Room(side) # 0
      BY RoomType
    <2>2. Cardinality(Signals(side)) >= Room(side)
      BY DEF SignalsSuffice
    <2>3. Cardinality({}) = 0
      BY FS_EmptySet
    <2> QED
      BY <2>1, <2>2, <2>3
  <1> QED
    BY <1>1, QueueInvariance, PTL

-----------------------------------------------------------------------------
(* The pipeline of handlers.  The pointers represent the list s: the head  *)
(* is its first handler, every handler points to the one behind it, and a  *)
(* handler outside points nowhere.                                         *)

Represents(head, links, s) ==
    /\ s \in Seq(Handlers)
    /\ \A i, j \in 1 .. Len(s) : s[i] = s[j] => i = j
    /\ head = IF s = << >> THEN nullptr ELSE s[1]
    /\ links \in [Handlers -> Handlers \cup {nullptr}]
    /\ \A i \in 1 .. Len(s) : links[s[i]] = IF i = Len(s) THEN nullptr ELSE s[i + 1]
    /\ \A h \in Handlers : (\A i \in 1 .. Len(s) : s[i] # h) => links[h] = nullptr

PipelineIInv == /\ \E s : Represents(headChannelHandler, next, s)
                /\ current \in Handlers \cup {nullptr}

(* A list without repetition is no longer than there are handlers.         *)
LEMMA ListIsShort ==
    ASSUME NEW s \in Seq(Handlers), \A i, j \in 1 .. Len(s) : s[i] = s[j] => i = j
    PROVE  Len(s) <= Cardinality(Handlers) /\ Len(s) \in Nat /\ Cardinality(Handlers) \in Nat
  <1>0. IsFiniteSet(Handlers)
    BY PipelineAssumption
  <1>1. Len(s) \in Nat /\ s \in [1 .. Len(s) -> Handlers]
    BY LenProperties
  <1>2. s \in Injection(1 .. Len(s), Handlers)
    BY <1>1 DEF Injection, IsInjective
  <1>3. Cardinality(1 .. Len(s)) <= Cardinality(Handlers)
    BY <1>0, <1>2, FS_Injection
  <1>4. Cardinality(1 .. Len(s)) = Len(s)
    BY <1>1, FS_Interval
  <1>5. Cardinality(Handlers) \in Nat
    BY <1>0, FS_CardinalityType
  <1> QED
    BY <1>1, <1>3, <1>4, <1>5

(* Walks(f, h, links, n): f follows links from h, for n steps.             *)
Walks(f, h, links, n) ==
    f = [k \in 1 .. n |-> IF k = 1 THEN h
                          ELSE IF f[k - 1] = nullptr THEN nullptr ELSE links[f[k - 1]]]

LEMMA WalksUnique ==
    ASSUME NEW f, NEW g, NEW h, NEW links, NEW n \in Nat,
           Walks(f, h, links, n), Walks(g, h, links, n)
    PROVE  f = g
  <1>1. /\ DOMAIN f = 1 .. n /\ DOMAIN g = 1 .. n
        /\ f = [k \in 1 .. n |-> f[k]] /\ g = [k \in 1 .. n |-> g[k]]
        /\ \A k \in 1 .. n : f[k] = IF k = 1 THEN h ELSE IF f[k - 1] = nullptr THEN nullptr ELSE links[f[k - 1]]
        /\ \A k \in 1 .. n : g[k] = IF k = 1 THEN h ELSE IF g[k - 1] = nullptr THEN nullptr ELSE links[g[k - 1]]
    BY DEF Walks
  <1> DEFINE T == {k \in Nat : k \in 1 .. n => f[k] = g[k]}
  <1>2. 0 \in T
    OBVIOUS
  <1>3. \A k \in Nat : k \in T => k + 1 \in T
    <2> SUFFICES ASSUME NEW k \in Nat, k \in T, k + 1 \in 1 .. n
                 PROVE  f[k + 1] = g[k + 1]
      OBVIOUS
    <2>1. CASE k = 0
      BY <1>1, <2>1
    <2>2. CASE k # 0
      <3>1. k \in 1 .. n /\ k + 1 # 1 /\ (k + 1) - 1 = k
        BY <2>2
      <3>2. f[k] = g[k]
        <4>1. k \in 1 .. n => f[k] = g[k]
          BY k \in T
        <4> QED
          BY <3>1, <4>1
      <3> PICK m : m = k + 1
        OBVIOUS
      <3>3. m \in 1 .. n /\ m # 1 /\ m - 1 = k
        BY <3>1
      <3> HIDE DEF T
      <3>4. /\ f[m] = IF f[m - 1] = nullptr THEN nullptr ELSE links[f[m - 1]]
            /\ g[m] = IF g[m - 1] = nullptr THEN nullptr ELSE links[g[m - 1]]
        BY <1>1, <3>3
      <3>5. f[m] = g[m]
        BY <3>2, <3>3, <3>4
      <3> QED
        BY <3>5
    <2> QED
      BY <2>1, <2>2
  <1>4. Nat \subseteq T
    <2> HIDE DEF T
    <2> QED
      BY <1>2, <1>3, Induction
  <1>5. \A k \in 1 .. n : f[k] = g[k]
    BY <1>4
  <1> QED
    BY <1>1, <1>5

(* Following next_ from the head shows the list.                           *)
LEMMA FromHead ==
    ASSUME NEW head, NEW links, NEW s, Represents(head, links, s)
    PROVE  From(head, links) = s
  <1> DEFINE n == Cardinality(Handlers) + 1
             g == [k \in 1 .. n |-> IF k <= Len(s) THEN s[k] ELSE nullptr]
             F == CHOOSE f : f = [k \in 1 .. n |->
                        IF k = 1 THEN head
                        ELSE IF f[k - 1] = nullptr THEN nullptr ELSE links[f[k - 1]]]
  <1>1. /\ s \in Seq(Handlers) /\ Len(s) \in Nat /\ n \in Nat /\ Len(s) < n
        /\ s \in [1 .. Len(s) -> Handlers] /\ (s = << >> <=> Len(s) = 0)
    <2>1. s \in Seq(Handlers) /\ Len(s) <= Cardinality(Handlers) /\ Len(s) \in Nat /\ Cardinality(Handlers) \in Nat
      BY ListIsShort DEF Represents
    <2> QED
      BY <2>1, LenProperties, EmptySeq
  <1>2. \A k \in 1 .. Len(s) : s[k] # nullptr /\ k \in 1 .. n
    BY <1>1, PipelineAssumption
  <1>3. Walks(g, head, links, n)
    <2> SUFFICES ASSUME NEW k \in 1 .. n
                 PROVE  g[k] = IF k = 1 THEN head
                               ELSE IF g[k - 1] = nullptr THEN nullptr ELSE links[g[k - 1]]
      BY DEF Walks
    <2>1. CASE k = 1
      <3>1. g[1] = IF 1 <= Len(s) THEN s[1] ELSE nullptr
        BY <2>1
      <3> QED
        <4>1. s = << >> <=> ~ (1 <= Len(s))
          BY <1>1
        <4> QED
          BY <2>1, <3>1, <4>1 DEF Represents
    <2>2. CASE k # 1
      <3>1. k - 1 \in 1 .. n /\ k - 1 \in Nat /\ k \in Nat
        BY <1>1, <2>2
      <3>2. g[k - 1] = IF k - 1 <= Len(s) THEN s[k - 1] ELSE nullptr
        BY <3>1
      <3>3. g[k] = IF k <= Len(s) THEN s[k] ELSE nullptr
        OBVIOUS
      <3> HIDE DEF g, n
      <3>4. CASE k - 1 <= Len(s)
        <4>1. k - 1 \in 1 .. Len(s)
          BY <1>1, <2>2, <3>1, <3>4
        <4>2. links[s[k - 1]] = IF k - 1 = Len(s) THEN nullptr ELSE s[(k - 1) + 1]
          BY <4>1 DEF Represents
        <4>3. (k - 1) + 1 = k /\ (k <= Len(s) <=> k - 1 # Len(s))
          BY <1>1, <3>1, <4>1
        <4> QED
          BY <1>2, <2>2, <3>2, <3>3, <3>4, <4>1, <4>2, <4>3
      <3>5. CASE ~ (k - 1 <= Len(s))
        <4>1. ~ (k <= Len(s))
          BY <1>1, <3>1, <3>5
        <4> QED
          BY <2>2, <3>2, <3>3, <3>5, <4>1
      <3> QED
        BY <3>4, <3>5
    <2> QED
      BY <2>1, <2>2
  <1>4. Walks(F, head, links, n)
    <2>1. \E f : f = [k \in 1 .. n |->
                        IF k = 1 THEN head
                        ELSE IF f[k - 1] = nullptr THEN nullptr ELSE links[f[k - 1]]]
      <3> HIDE DEF g, n
      <3> QED
        BY <1>3 DEF Walks
    <2> HIDE DEF n
    <2> QED
      BY <2>1 DEF Walks
  <1>5. F = g
    <2> HIDE DEF F, g, n
    <2> QED
      BY <1>1, <1>3, <1>4, WalksUnique
  <1>6. From(head, links) = [k \in {k \in DOMAIN F : F[k] # nullptr} |-> F[k]]
    BY DEF From
  <1>7. {k \in DOMAIN g : g[k] # nullptr} = 1 .. Len(s)
    BY <1>1, <1>2
  <1>8. \A k \in 1 .. Len(s) : g[k] = s[k]
    BY <1>1, <1>2
  <1>9. From(head, links) = [k \in 1 .. Len(s) |-> g[k]]
    <2> HIDE DEF F, g, n
    <2> QED
      BY <1>5, <1>6, <1>7
  <1>10. [k \in 1 .. Len(s) |-> g[k]] = s
    <2> HIDE DEF F, g, n
    <2> QED
      BY <1>1, <1>8
  <1> QED
    BY <1>9, <1>10

LEMMA RemoveAtIs ==
    ASSUME NEW S, NEW s \in Seq(S), NEW i \in 1 .. Len(s)
    PROVE  /\ RemoveAt(s, i) \in Seq(S) /\ Len(s) \in Nat /\ Len(RemoveAt(s, i)) = Len(s) - 1
           /\ \A j \in 1 .. Len(s) - 1 : RemoveAt(s, i)[j] = IF j < i THEN s[j] ELSE s[j + 1]
  <1>0. PICK n, a, b : n = Len(s) /\ a = SubSeq(s, 1, i - 1) /\ b = SubSeq(s, i + 1, n)
    OBVIOUS
  <1>1. n \in Nat /\ i \in 1 .. n /\ i \in Nat
    BY <1>0, LenProperties
  <1>2. \A j \in 1 .. n : s[j] \in S
    BY <1>0, ElementOfSeq
  <1>3. a \in Seq(S) /\ Len(a) = i - 1 /\ \A j \in 1 .. i - 1 : a[j] = s[j]
    <2>1. \A j \in 1 .. i - 1 : s[j] \in S
      BY <1>1, <1>2
    <2> QED
      BY <1>0, <1>1, <2>1, SubSeqProperties
  <1>4. b \in Seq(S) /\ Len(b) = n - i /\ \A j \in 1 .. n - i : b[j] = s[i + j]
    <2>1. \A j \in i + 1 .. n : s[j] \in S
      BY <1>1, <1>2
    <2> QED
      BY <1>0, <1>1, <2>1, SubSeqProperties
  <1>5. /\ a \o b \in Seq(S) /\ Len(a \o b) = n - 1
        /\ \A j \in 1 .. n - 1 : (a \o b)[j] = IF j <= i - 1 THEN a[j] ELSE b[j - (i - 1)]
    <2>1. /\ a \o b \in Seq(S) /\ Len(a \o b) = Len(a) + Len(b)
          /\ \A j \in 1 .. Len(a) + Len(b) : (a \o b)[j] = IF j <= Len(a) THEN a[j] ELSE b[j - Len(a)]
      BY <1>3, <1>4, ConcatProperties
    <2>2. (i - 1) + (n - i) = n - 1
      BY <1>1
    <2>3. Len(a) = i - 1 /\ Len(b) = n - i
      BY <1>3, <1>4
    <2> QED
      BY <2>1, <2>2, <2>3
  <1>6. ASSUME NEW j \in 1 .. n - 1
        PROVE  (a \o b)[j] = IF j < i THEN s[j] ELSE s[j + 1]
    <2>1. CASE j < i
      <3>1. j \in 1 .. i - 1 /\ j <= i - 1
        BY <1>1, <2>1
      <3> QED
        BY <1>3, <1>5, <2>1, <3>1
    <2>2. CASE ~ (j < i)
      <3>1. /\ j - (i - 1) \in 1 .. n - i /\ ~ (j <= i - 1)
            /\ i + (j - (i - 1)) = j + 1
        BY <1>1, <2>2
      <3> QED
        BY <1>4, <1>5, <2>2, <3>1
    <2> QED
      BY <2>1, <2>2
  <1> QED
    BY <1>0, <1>1, <1>5, <1>6 DEF RemoveAt

(* What every use of a represented list needs.                             *)
LEMMA ListFacts ==
    ASSUME NEW head, NEW links, NEW s, Represents(head, links, s)
    PROVE  /\ s \in Seq(Handlers) /\ Len(s) \in Nat /\ (s = << >> <=> Len(s) = 0)
           /\ \A i \in 1 .. Len(s) : s[i] \in Handlers /\ s[i] # nullptr
           /\ \A h \in Handlers : h # nullptr
           /\ head = nullptr <=> s = << >>
           /\ s # << >> => head = s[1] /\ 1 \in 1 .. Len(s) /\ Len(s) \in 1 .. Len(s)
  <1>1. s \in Seq(Handlers)
    BY DEF Represents
  <1>2. Len(s) \in Nat /\ (s = << >> <=> Len(s) = 0)
    BY <1>1, LenProperties, EmptySeq
  <1>3. \A i \in 1 .. Len(s) : s[i] \in Handlers
    BY <1>1, ElementOfSeq
  <1>4. \A h \in Handlers : h # nullptr
    BY PipelineAssumption
  <1>5. s # << >> => head = s[1] /\ 1 \in 1 .. Len(s) /\ Len(s) \in 1 .. Len(s)
    BY <1>2 DEF Represents
  <1>6. s = << >> => head = nullptr
    BY DEF Represents
  <1> QED
    BY <1>1, <1>2, <1>3, <1>4, <1>5, <1>6

(* links without the i-th handler of s, which then points nowhere.         *)
Unlinked(links, s, i) ==
    [h \in Handlers |-> IF h = s[i] THEN nullptr
                        ELSE IF i # 1 /\ h = s[i - 1] THEN links[s[i]] ELSE links[h]]

LEMMA UnlinkRepresents ==
    ASSUME NEW head, NEW links, NEW s, Represents(head, links, s), NEW i \in 1 .. Len(s)
    PROVE  Represents(IF i = 1 THEN links[head] ELSE head, Unlinked(links, s, i), RemoveAt(s, i))
  <1> PICK n, t, more : n = Len(s) /\ t = RemoveAt(s, i) /\ more = Unlinked(links, s, i)
    OBVIOUS
  <1>1. /\ n \in Nat /\ i \in 1 .. n /\ i \in Nat /\ s # << >> /\ head = s[1]
        /\ \A j \in 1 .. n : s[j] \in Handlers /\ s[j] # nullptr
    BY ListFacts
  <1>2. /\ t \in Seq(Handlers) /\ Len(t) = n - 1
        /\ \A j \in 1 .. n - 1 : t[j] = IF j < i THEN s[j] ELSE s[j + 1]
    <2>1. s \in Seq(Handlers)
      BY DEF Represents
    <2>2. /\ RemoveAt(s, i) \in Seq(Handlers) /\ Len(RemoveAt(s, i)) = Len(s) - 1
          /\ \A j \in 1 .. Len(s) - 1 : RemoveAt(s, i)[j] = IF j < i THEN s[j] ELSE s[j + 1]
      BY <2>1, RemoveAtIs
    <2> QED
      BY <2>2
  <1>3. \A j \in 1 .. n - 1 : \/ j < i /\ t[j] = s[j] /\ j \in 1 .. n
                              \/ j >= i /\ t[j] = s[j + 1] /\ j + 1 \in 1 .. n
    BY <1>1, <1>2
  <1>4. /\ \A j, k \in 1 .. n : s[j] = s[k] => j = k
        /\ links \in [Handlers -> Handlers \cup {nullptr}]
        /\ \A j \in 1 .. n : links[s[j]] = IF j = n THEN nullptr ELSE s[j + 1]
        /\ \A h \in Handlers : (\A j \in 1 .. n : s[j] # h) => links[h] = nullptr
    BY DEF Represents
  <1>5. \A j, k \in 1 .. Len(t) : t[j] = t[k] => j = k
    BY <1>1, <1>2, <1>3, <1>4
  <1>6. more \in [Handlers -> Handlers \cup {nullptr}]
    <2>1. links[s[i]] \in Handlers \cup {nullptr}
      BY <1>1, <1>4
    <2> QED
      BY <1>4, <2>1 DEF Unlinked
  <1>7. (IF i = 1 THEN links[head] ELSE head) = IF t = << >> THEN nullptr ELSE t[1]
    <2>0. t = << >> <=> n - 1 = 0
      BY <1>2, EmptySeq
    <2>1. CASE i = 1
      <3>1. links[s[1]] = IF 1 = n THEN nullptr ELSE s[2]
        BY <1>1, <1>4
      <3>2. CASE n = 1
        BY <1>1, <2>0, <2>1, <3>1, <3>2
      <3>3. CASE n # 1
        <4>1. 1 \in 1 .. n - 1
          BY <1>1, <3>3
        <4>2. t[1] = s[2]
          BY <1>2, <2>1, <4>1
        <4> QED
          BY <1>1, <2>0, <2>1, <3>1, <3>3, <4>2
      <3> QED
        BY <3>2, <3>3
    <2>2. CASE i # 1
      <3>1. 1 \in 1 .. n - 1 /\ 1 < i
        BY <1>1, <2>2
      <3>2. t[1] = s[1]
        BY <1>2, <3>1
      <3> QED
        BY <1>1, <2>0, <2>2, <3>1, <3>2
    <2> QED
      BY <2>1, <2>2
  <1>8. ASSUME NEW j \in 1 .. n - 1
        PROVE  more[t[j]] = IF j = n - 1 THEN nullptr ELSE t[j + 1]
    <2>1. CASE j < i /\ t[j] = s[j] /\ j \in 1 .. n
      <3>1. t[j] \in Handlers /\ t[j] # s[i]
        BY <1>1, <1>4, <2>1
      <3>2. CASE j = i - 1
        <4>1. more[t[j]] = links[s[i]]
          BY <1>1, <2>1, <3>1, <3>2 DEF Unlinked
        <4>2. links[s[i]] = IF i = n THEN nullptr ELSE s[i + 1]
          BY <1>1, <1>4
        <4>3. CASE i = n
          BY <1>1, <3>2, <4>1, <4>2, <4>3
        <4>4. CASE i # n
          <5>1. i \in 1 .. n - 1 /\ j + 1 = i /\ j # n - 1
            BY <1>1, <3>2, <4>4
          <5>2. t[i] = s[i + 1]
            BY <1>2, <5>1
          <5> QED
            BY <4>1, <4>2, <4>4, <5>1, <5>2
        <4> QED
          BY <4>3, <4>4
      <3>3. CASE j # i - 1
        <4>1. i # 1 => s[j] # s[i - 1]
          <5>1. i # 1 => i - 1 \in 1 .. n
            BY <1>1
          <5> QED
            BY <1>4, <2>1, <3>3, <5>1
        <4>2. more[t[j]] = links[s[j]]
          BY <2>1, <3>1, <4>1 DEF Unlinked
        <4>3. links[s[j]] = s[j + 1] /\ j + 1 < i /\ j + 1 \in 1 .. n - 1 /\ j # n - 1
          BY <1>1, <1>4, <2>1, <3>3
        <4>4. t[j + 1] = s[j + 1]
          BY <1>2, <4>3
        <4> QED
          BY <4>2, <4>3, <4>4
      <3> QED
        BY <3>2, <3>3
    <2>2. CASE j >= i /\ t[j] = s[j + 1] /\ j + 1 \in 1 .. n
      <3>1. t[j] \in Handlers /\ t[j] # s[i]
        BY <1>1, <1>4, <2>2
      <3>2. i # 1 => t[j] # s[i - 1]
        <4>1. i # 1 => i - 1 \in 1 .. n /\ i - 1 # j + 1
          BY <1>1, <2>2
        <4> QED
          BY <1>4, <2>2, <4>1
      <3>3. more[t[j]] = links[s[j + 1]]
        BY <2>2, <3>1, <3>2 DEF Unlinked
      <3>4. links[s[j + 1]] = IF j + 1 = n THEN nullptr ELSE s[(j + 1) + 1]
        BY <1>4, <2>2
      <3>5. CASE j = n - 1
        BY <1>1, <3>3, <3>4, <3>5
      <3>6. CASE j # n - 1
        <4>1. j + 1 # n /\ j + 1 \in 1 .. n - 1 /\ ~ (j + 1 < i)
          BY <1>1, <2>2, <3>6
        <4>2. t[j + 1] = s[(j + 1) + 1]
          BY <1>2, <4>1
        <4> QED
          BY <3>3, <3>4, <3>6, <4>1, <4>2
      <3> QED
        BY <3>5, <3>6
    <2> QED
      BY <1>3, <2>1, <2>2
  <1>9. ASSUME NEW h \in Handlers, \A j \in 1 .. n - 1 : t[j] # h
        PROVE  more[h] = nullptr
    <2>1. CASE h = s[i]
      BY <2>1 DEF Unlinked
    <2>2. CASE h # s[i]
      <3>1. \A j \in 1 .. n : s[j] # h
        <4> SUFFICES ASSUME NEW j \in 1 .. n, s[j] = h
                     PROVE  FALSE
          OBVIOUS
        <4>1. CASE j < i
          <5>1. j \in 1 .. n - 1
            BY <1>1, <4>1
          <5> QED
            BY <1>2, <1>9, <4>1, <5>1
        <4>2. CASE j > i
          <5>1. j - 1 \in 1 .. n - 1 /\ ~ (j - 1 < i) /\ (j - 1) + 1 = j
            BY <1>1, <4>2
          <5> QED
            BY <1>2, <1>9, <5>1
        <4>3. CASE j = i
          BY <2>2, <4>3
        <4> QED
          BY <1>1, <4>1, <4>2, <4>3
      <3>2. i # 1 => h # s[i - 1]
        BY <1>1, <3>1
      <3>3. more[h] = links[h]
        BY <2>2, <3>2 DEF Unlinked
      <3> QED
        BY <1>4, <3>1, <3>3
    <2> QED
      BY <2>1, <2>2
  <1>10. Represents(IF i = 1 THEN links[head] ELSE head, more, t)
    BY <1>2, <1>5, <1>6, <1>7, <1>8, <1>9 DEF Represents
  <1> QED
    BY <1>10

LEMMA AddFirstRepresents ==
    ASSUME NEW head, NEW links, NEW s, Represents(head, links, s),
           NEW h \in Handlers, \A i \in 1 .. Len(s) : s[i] # h
    PROVE  Represents(h, IF head = nullptr THEN links ELSE [links EXCEPT ![h] = head], <<h>> \o s)
  <1>0. PICK n, t, more : /\ n = Len(s) /\ t = <<h>> \o s
                          /\ more = IF head = nullptr THEN links ELSE [links EXCEPT ![h] = head]
    OBVIOUS
  <1>1. /\ n \in Nat /\ s \in Seq(Handlers) /\ (head = nullptr <=> n = 0)
        /\ n # 0 => head = s[1] /\ head \in Handlers
        /\ \A j \in 1 .. n : s[j] \in Handlers /\ s[j] # nullptr
    BY <1>0, ListFacts
  <1>2. /\ t \in Seq(Handlers) /\ Len(t) = n + 1 /\ t[1] = h /\ t # << >>
        /\ \A j \in 2 .. n + 1 : t[j] = s[j - 1] /\ j - 1 \in 1 .. n
    <2>1. <<h>> \in Seq(Handlers) /\ Len(<<h>>) = 1 /\ <<h>>[1] = h
      OBVIOUS
    <2>2. PICK one \in Seq(Handlers) : one = <<h>> /\ Len(one) = 1 /\ one[1] = h
      BY <2>1
    <2>3. /\ one \o s \in Seq(Handlers) /\ Len(one \o s) = Len(one) + Len(s)
          /\ \A j \in 1 .. Len(one) + Len(s) : (one \o s)[j] = IF j <= Len(one) THEN one[j] ELSE s[j - Len(one)]
      BY <1>1, ConcatProperties
    <2>4. /\ t \in Seq(Handlers) /\ Len(t) = 1 + n
          /\ \A j \in 1 .. 1 + n : t[j] = IF j <= 1 THEN one[j] ELSE s[j - 1]
      BY <1>0, <2>2, <2>3
    <2>5. t # << >>
      BY <1>1, <2>4, EmptySeq
    <2> QED
      BY <1>1, <2>2, <2>4, <2>5
  <1>3. /\ \A j, k \in 1 .. n : s[j] = s[k] => j = k
        /\ links \in [Handlers -> Handlers \cup {nullptr}]
        /\ \A j \in 1 .. n : links[s[j]] = IF j = n THEN nullptr ELSE s[j + 1]
        /\ \A g \in Handlers : (\A j \in 1 .. n : s[j] # g) => links[g] = nullptr
        /\ \A i \in 1 .. n : s[i] # h
    BY <1>0 DEF Represents
  <1>4. \A j, k \in 1 .. n + 1 : t[j] = t[k] => j = k
    <2>1. \A j \in 1 .. n + 1 : j = 1 \/ j \in 2 .. n + 1
      BY <1>1
    <2>2. \A j, k \in 2 .. n + 1 : t[j] = t[k] => j - 1 = k - 1
      BY <1>2, <1>3
    <2>3. \A j \in 2 .. n + 1 : t[j] # t[1]
      BY <1>2, <1>3
    <2>4. \A j, k \in 2 .. n + 1 : j - 1 = k - 1 => j = k
      BY <1>1
    <2> QED
      BY <2>1, <2>2, <2>3, <2>4, Zenon
  <1>5. more \in [Handlers -> Handlers \cup {nullptr}]
    BY <1>0, <1>1, <1>3
  <1>6. /\ more[h] = IF n = 0 THEN nullptr ELSE s[1]
        /\ \A g \in Handlers : g # h => more[g] = links[g]
    BY <1>0, <1>1, <1>3
  <1>7. ASSUME NEW j \in 1 .. n + 1
        PROVE  more[t[j]] = IF j = n + 1 THEN nullptr ELSE t[j + 1]
    <2>1. CASE j = 1
      <3>1. CASE n = 0
        BY <1>2, <1>6, <2>1, <3>1
      <3>2. CASE n # 0
        <4>1. 2 \in 2 .. n + 1 /\ 1 # n + 1
          BY <1>1, <3>2
        <4>2. t[2] = s[1]
          BY <1>2, <4>1
        <4> QED
          BY <1>2, <1>6, <2>1, <3>2, <4>1, <4>2
      <3> QED
        BY <3>1, <3>2
    <2>2. CASE j # 1
      <3>1. j \in 2 .. n + 1
        BY <1>1, <2>2
      <3>2. PICK k \in 1 .. n : k = j - 1 /\ t[j] = s[k]
        BY <1>2, <3>1
      <3>3. more[t[j]] = links[s[k]]
        BY <1>1, <1>3, <1>6, <3>2
      <3>4. links[s[k]] = IF k = n THEN nullptr ELSE s[k + 1]
        BY <1>3
      <3>5. k = n <=> j = n + 1
        BY <1>1, <3>2
      <3>6. CASE k # n
        <4>1. j + 1 \in 2 .. n + 1 /\ (j + 1) - 1 = k + 1
          BY <1>1, <3>2, <3>6
        <4>2. t[j + 1] = s[k + 1]
          BY <1>2, <4>1
        <4> QED
          BY <3>3, <3>4, <3>5, <3>6, <4>2
      <3> QED
        BY <3>3, <3>4, <3>5, <3>6
    <2> QED
      BY <2>1, <2>2
  <1>8. ASSUME NEW g \in Handlers, \A j \in 1 .. n + 1 : t[j] # g
        PROVE  more[g] = nullptr
    <2>1. g # h
      <3>1. 1 \in 1 .. n + 1
        BY <1>1
      <3> QED
        BY <1>2, <1>8, <3>1
    <2>2. \A j \in 1 .. n : s[j] # g
      <3> TAKE j \in 1 .. n
      <3>1. j + 1 \in 1 .. n + 1 /\ j + 1 \in 2 .. n + 1 /\ (j + 1) - 1 = j
        BY <1>1
      <3> QED
        BY <1>2, <1>8, <3>1
    <2> QED
      BY <1>3, <1>6, <2>1, <2>2
  <1>9. Represents(h, more, t)
    BY <1>2, <1>4, <1>5, <1>7, <1>8 DEF Represents
  <1> QED
    BY <1>0, <1>9

LEMMA AddLastRepresents ==
    ASSUME NEW head, NEW links, NEW s, Represents(head, links, s),
           NEW h \in Handlers, \A i \in 1 .. Len(s) : s[i] # h
    PROVE  Represents(IF head = nullptr THEN h ELSE head,
                      IF head = nullptr THEN links ELSE [links EXCEPT ![s[Len(s)]] = h],
                      s \o <<h>>)
  <1>0. PICK n, t, more : /\ n = Len(s) /\ t = s \o <<h>>
                          /\ more = IF head = nullptr THEN links ELSE [links EXCEPT ![s[Len(s)]] = h]
    OBVIOUS
  <1>1. /\ n \in Nat /\ s \in Seq(Handlers) /\ (head = nullptr <=> n = 0)
        /\ n # 0 => head = s[1] /\ n \in 1 .. n
        /\ \A j \in 1 .. n : s[j] \in Handlers /\ s[j] # nullptr
    BY <1>0, ListFacts
  <1>2. /\ t \in Seq(Handlers) /\ Len(t) = n + 1 /\ t[n + 1] = h /\ t # << >>
        /\ \A j \in 1 .. n : t[j] = s[j]
    <2>1. t = Append(s, h)
      BY <1>0, <1>1, AppendIsConcat
    <2>2. t \in Seq(Handlers) /\ Len(t) = n + 1 /\ t[n + 1] = h /\ \A j \in 1 .. n : t[j] = s[j]
      BY <1>0, <1>1, <2>1, AppendProperties
    <2> QED
      BY <1>1, <2>2, EmptySeq
  <1>3. /\ \A j, k \in 1 .. n : s[j] = s[k] => j = k
        /\ links \in [Handlers -> Handlers \cup {nullptr}]
        /\ \A j \in 1 .. n : links[s[j]] = IF j = n THEN nullptr ELSE s[j + 1]
        /\ \A g \in Handlers : (\A j \in 1 .. n : s[j] # g) => links[g] = nullptr
        /\ \A i \in 1 .. n : s[i] # h
    BY <1>0 DEF Represents
  <1>4. \A j, k \in 1 .. n + 1 : t[j] = t[k] => j = k
    <2>1. \A j \in 1 .. n + 1 : j = n + 1 \/ j \in 1 .. n
      BY <1>1
    <2>2. \A j, k \in 1 .. n : t[j] = t[k] => j = k
      BY <1>2, <1>3
    <2>3. \A j \in 1 .. n : t[j] # t[n + 1]
      BY <1>2, <1>3
    <2> QED
      BY <2>1, <2>2, <2>3, Zenon
  <1>5. more \in [Handlers -> Handlers \cup {nullptr}]
    BY <1>0, <1>1, <1>3
  <1>6. /\ n # 0 => more[s[n]] = h
        /\ \A g \in Handlers : (n = 0 \/ g # s[n]) => more[g] = links[g]
    BY <1>0, <1>1, <1>3
  <1>7. ASSUME NEW j \in 1 .. n + 1
        PROVE  more[t[j]] = IF j = n + 1 THEN nullptr ELSE t[j + 1]
    <2>1. CASE j = n + 1
      <3>1. links[h] = nullptr /\ t[j] = h
        BY <1>2, <1>3, <2>1
      <3>2. n = 0 \/ h # s[n]
        BY <1>1, <1>3
      <3> QED
        BY <1>6, <2>1, <3>1, <3>2
    <2>2. CASE j \in 1 .. n /\ j # n /\ j + 1 \in 1 .. n /\ j # n + 1 /\ n # 0
      <3>1. s[j] # s[n] /\ s[j] \in Handlers
        BY <1>1, <1>3, <2>2
      <3>2. more[s[j]] = s[j + 1]
        BY <1>3, <1>6, <2>2, <3>1
      <3> QED
        BY <1>2, <2>2, <3>2
    <2>3. CASE j = n /\ n # 0
      <3>1. n # n + 1 /\ n \in 1 .. n
        BY <1>1, <2>3
      <3> QED
        BY <1>2, <1>6, <2>3, <3>1
    <2>4. \/ j = n + 1
          \/ j = n /\ n # 0
          \/ j \in 1 .. n /\ j # n /\ j + 1 \in 1 .. n /\ j # n + 1 /\ n # 0
      BY <1>1
    <2> QED
      BY <2>1, <2>2, <2>3, <2>4
  <1>8. ASSUME NEW g \in Handlers, \A j \in 1 .. n + 1 : t[j] # g
        PROVE  more[g] = nullptr
    <2>1. \A j \in 1 .. n : s[j] # g
      <3> TAKE j \in 1 .. n
      <3>1. j \in 1 .. n + 1
        BY <1>1
      <3> QED
        BY <1>2, <1>8, <3>1
    <2>2. n = 0 \/ g # s[n]
      BY <1>1, <2>1
    <2> QED
      BY <1>3, <1>6, <2>1, <2>2
  <1>9. (IF head = nullptr THEN h ELSE head) = t[1]
    <2>1. CASE n = 0
      BY <1>1, <1>2, <2>1
    <2>2. CASE n # 0
      <3>1. 1 \in 1 .. n
        BY <1>1, <2>2
      <3> QED
        BY <1>1, <1>2, <2>2, <3>1
    <2> QED
      BY <2>1, <2>2
  <1>10. Represents(IF head = nullptr THEN h ELSE head, more, t)
    BY <1>2, <1>4, <1>5, <1>7, <1>8, <1>9 DEF Represents
  <1> QED
    BY <1>0, <1>10

(* findChannelHandlerPrev() and findLastPrev().                            *)
LEMMA PrevIs ==
    ASSUME NEW s, Represents(headChannelHandler, next, s), NEW wanted,
           headChannelHandler \notin wanted
    PROVE  \/ /\ \A i \in 1 .. Len(s) : s[i] \notin wanted
              /\ findChannelHandlerPrev(wanted) = nullptr
           \/ \E i \in 2 .. Len(s) :
                 /\ s[i] \in wanted /\ \A j \in 1 .. Len(s) : s[j] \in wanted => i <= j
                 /\ findChannelHandlerPrev(wanted) = s[i - 1]
  <1> DEFINE found == {i \in 2 .. Len(s) : s[i] \in wanted}
  <1>0. findChannelHandlerPrev(wanted)
          = IF found = {} THEN nullptr ELSE s[(CHOOSE i \in found : \A j \in found : i <= j) - 1]
    <2>1. pipeline = s
      BY FromHead DEF pipeline
    <2> QED
      BY <2>1 DEF findChannelHandlerPrev
  <1>1. s[1] = headChannelHandler \/ s = << >>
    BY ListFacts
  <1>l. Len(s) \in Nat
    BY ListFacts
  <1>2. \A j \in 1 .. Len(s) : s[j] \in wanted => j \in found
    <2> TAKE j \in 1 .. Len(s)
    <2>1. s # << >>
      BY <1>l, ListFacts
    <2>2. CASE j = 1
      BY <1>1, <2>1, <2>2
    <2>3. CASE j # 1
      BY <1>l, <2>3
    <2> QED
      BY <2>2, <2>3
  <1>3. CASE found = {}
    BY <1>0, <1>2, <1>3
  <1>4. CASE found # {}
    <2>1. \E i \in found : \A j \in found : i <= j
      <3>1. found \subseteq Nat
        BY <1>l
      <3> HIDE DEF found
      <3> QED
        BY <1>4, <3>1, LeastNat
    <2>2. PICK i : i = CHOOSE k \in found : \A j \in found : k <= j
      OBVIOUS
    <2>3. i \in found /\ \A j \in found : i <= j
      <3> HIDE DEF found
      <3> QED
        BY <2>1, <2>2
    <2>4. findChannelHandlerPrev(wanted) = s[i - 1]
      <3> HIDE DEF found
      <3> QED
        BY <1>0, <1>4, <2>2
    <2> QED
      BY <1>2, <2>3, <2>4
  <1> QED
    BY <1>3, <1>4

-----------------------------------------------------------------------------
(* What a remove function does to the pointers.                            *)

Takes(s, function, i) ==
    /\ headChannelHandler' = IF i = 1 THEN next[headChannelHandler] ELSE headChannelHandler
    /\ next' = Unlinked(next, s, i)
    /\ returned' = <<function, s[i]>>

LEMMA UnlinkHeadIs ==
    ASSUME NEW s, Represents(headChannelHandler, next, s), headChannelHandler # nullptr
    PROVE  /\ 1 \in 1 .. Len(s) /\ headChannelHandler = s[1]
           /\ unlinkHead => /\ headChannelHandler' = next[headChannelHandler]
                            /\ next' = Unlinked(next, s, 1)
  <1>1. 1 \in 1 .. Len(s) /\ headChannelHandler = s[1] /\ s[1] \in Handlers
    BY ListFacts
  <1>2. next \in [Handlers -> Handlers \cup {nullptr}]
    BY DEF Represents
  <1>3. [next EXCEPT ![s[1]] = nullptr] = Unlinked(next, s, 1)
    BY <1>1, <1>2 DEF Unlinked
  <1> QED
    BY <1>1, <1>3 DEF unlinkHead

LEMMA UnlinkBehindIs ==
    ASSUME NEW s, Represents(headChannelHandler, next, s), NEW i \in 2 .. Len(s)
    PROVE  /\ i \in 1 .. Len(s) /\ i # 1 /\ next[s[i - 1]] = s[i] /\ s[i - 1] # nullptr
           /\ [next EXCEPT ![s[i - 1]] = next[s[i]], ![s[i]] = nullptr] = Unlinked(next, s, i)
           /\ i = Len(s) => [next EXCEPT ![s[i - 1]] = nullptr] = Unlinked(next, s, i)
  <1>1. /\ Len(s) \in Nat /\ i \in 1 .. Len(s) /\ i - 1 \in 1 .. Len(s) /\ i # 1 /\ i - 1 # Len(s)
        /\ (i - 1) + 1 = i /\ i - 1 # i
    BY ListFacts
  <1>2. /\ s[i] \in Handlers /\ s[i - 1] \in Handlers /\ s[i - 1] # nullptr
    BY <1>1, ListFacts
  <1>3. /\ next \in [Handlers -> Handlers \cup {nullptr}] /\ s[i - 1] # s[i]
        /\ next[s[i - 1]] = s[i] /\ next[s[i]] = IF i = Len(s) THEN nullptr ELSE s[i + 1]
    <2>1. next[s[i - 1]] = IF i - 1 = Len(s) THEN nullptr ELSE s[(i - 1) + 1]
      BY <1>1 DEF Represents
    <2> QED
      BY <1>1, <2>1 DEF Represents
  <1>4. [next EXCEPT ![s[i - 1]] = next[s[i]], ![s[i]] = nullptr] = Unlinked(next, s, i)
    BY <1>1, <1>2, <1>3 DEF Unlinked
  <1>5. i = Len(s) => [next EXCEPT ![s[i - 1]] = nullptr] = Unlinked(next, s, i)
    BY <1>1, <1>2, <1>3 DEF Unlinked
  <1> QED
    BY <1>1, <1>2, <1>3, <1>4, <1>5

LEMMA RemoveOneOfTakes ==
    ASSUME NEW s, Represents(headChannelHandler, next, s), headChannelHandler # nullptr,
           NEW function, NEW wanted, RemoveOneOf(function, wanted)
    PROVE  \/ /\ \A i \in 1 .. Len(s) : s[i] \notin wanted
              /\ Nothing(function)
           \/ \E i \in 1 .. Len(s) : /\ s[i] \in wanted
                                      /\ \A j \in 1 .. Len(s) : s[j] \in wanted => i <= j
                                      /\ Takes(s, function, i)
  <1>0. Len(s) \in Nat
    BY ListFacts
  <1>1. CASE headChannelHandler \in wanted
    <2>1. unlinkHead /\ returned' = <<function, headChannelHandler>>
      BY <1>1 DEF RemoveOneOf
    <2>2. /\ 1 \in 1 .. Len(s) /\ headChannelHandler = s[1]
          /\ headChannelHandler' = next[headChannelHandler] /\ next' = Unlinked(next, s, 1)
      BY <2>1, UnlinkHeadIs
    <2>3. Takes(s, function, 1)
      BY <2>1, <2>2 DEF Takes
    <2>4. \A j \in 1 .. Len(s) : 1 <= j
      BY <1>0
    <2> QED
      BY <1>1, <2>2, <2>3, <2>4
  <1>2. CASE headChannelHandler \notin wanted
    <2>1. IF findChannelHandlerPrev(wanted) = nullptr THEN Nothing(function)
          ELSE /\ unlinkChannelHandler(findChannelHandlerPrev(wanted), next[findChannelHandlerPrev(wanted)])
               /\ returned' = <<function, next[findChannelHandlerPrev(wanted)]>>
      BY <1>2 DEF RemoveOneOf
    <2>2. CASE /\ \A i \in 1 .. Len(s) : s[i] \notin wanted
               /\ findChannelHandlerPrev(wanted) = nullptr
      BY <2>1, <2>2
    <2>3. CASE \E i \in 2 .. Len(s) :
                 /\ s[i] \in wanted /\ \A j \in 1 .. Len(s) : s[j] \in wanted => i <= j
                 /\ findChannelHandlerPrev(wanted) = s[i - 1]
      <3>1. PICK i \in 2 .. Len(s) :
                 /\ s[i] \in wanted /\ \A j \in 1 .. Len(s) : s[j] \in wanted => i <= j
                 /\ findChannelHandlerPrev(wanted) = s[i - 1]
        BY <2>3
      <3>2. /\ i \in 1 .. Len(s) /\ i # 1 /\ next[s[i - 1]] = s[i] /\ s[i - 1] # nullptr
            /\ [next EXCEPT ![s[i - 1]] = next[s[i]], ![s[i]] = nullptr] = Unlinked(next, s, i)
        BY UnlinkBehindIs
      <3>3. unlinkChannelHandler(s[i - 1], s[i]) /\ returned' = <<function, s[i]>>
        BY <2>1, <3>1, <3>2
      <3>4. Takes(s, function, i)
        BY <3>2, <3>3 DEF Takes, unlinkChannelHandler
      <3> QED
        BY <3>1, <3>2, <3>4
    <2> QED
      BY <1>2, <2>2, <2>3, PrevIs
  <1> QED
    BY <1>1, <1>2

-----------------------------------------------------------------------------
(* Every step of the pointers is a step of the list.                       *)

LEMMA NowIs ==
    ASSUME NEW s, Represents(headChannelHandler, next, s)
    PROVE  pipeline = s
  BY FromHead DEF pipeline

LEMMA ThenIs ==
    ASSUME NEW t, Represents(headChannelHandler', next', t)
    PROVE  pipeline' = t
  BY FromHead DEF pipeline

LEMMA TakesStep ==
    ASSUME NEW s, Represents(headChannelHandler, next, s), NEW function, NEW places,
           NEW i \in 1 .. Len(s), i \in places, \A j \in places : i <= j,
           Takes(s, function, i), UNCHANGED current
    PROVE  /\ List!TakeOut(function, places)
           /\ \E t : Represents(headChannelHandler', next', t)
  <1>1. Represents(headChannelHandler', next', RemoveAt(s, i))
    BY UnlinkRepresents DEF Takes
  <1>2. pipeline' = RemoveAt(s, i)
    BY <1>1, ThenIs
  <1>3. pipeline = s
    BY NowIs
  <1>4. returned' = <<function, s[i]>>
    BY DEF Takes
  <1>5. pipeline' = List!RemoveAt(s, i)
    BY <1>2 DEF RemoveAt, List!RemoveAt
  <1>6. List!TakeOut(function, places)
    BY <1>3, <1>4, <1>5 DEF List!TakeOut
  <1> QED
    BY <1>1, <1>6

LEMMA NothingStep ==
    ASSUME NEW s, Represents(headChannelHandler, next, s), NEW function,
           Nothing(function), UNCHANGED current
    PROVE  /\ List!TakeOut(function, {})
           /\ \E t : Represents(headChannelHandler', next', t)
  <1>1. headChannelHandler' = headChannelHandler /\ next' = next /\ returned' = <<function, nullptr>>
    BY DEF Nothing
  <1>2. Represents(headChannelHandler', next', s)
    BY <1>1
  <1>3. pipeline' = s /\ pipeline = s
    BY <1>2, NowIs, ThenIs
  <1>4. List!TakeOut(function, {})
    BY <1>1, <1>3 DEF List!TakeOut
  <1> QED
    BY <1>2, <1>4

LEMMA AddFirstStep ==
    ASSUME NEW s, Represents(headChannelHandler, next, s), NEW h \in Handlers,
           ~ Contains(pipeline, h), addFirst(h)
    PROVE  List!Insert(h) /\ \E t : Represents(headChannelHandler', next', t)
  <1>1. pipeline = s
    BY NowIs
  <1>2. \A i \in 1 .. Len(s) : s[i] # h
    BY <1>1 DEF Contains
  <1>3. Represents(h, IF headChannelHandler = nullptr THEN next
                      ELSE [next EXCEPT ![h] = headChannelHandler], <<h>> \o s)
    BY <1>2, AddFirstRepresents
  <1>4. Represents(headChannelHandler', next', <<h>> \o s)
    BY <1>3 DEF addFirst
  <1>5. pipeline' = <<h>> \o s
    BY <1>4, ThenIs
  <1>6. List!Insert(h)
    <2>1. ~ List!Contains(s, h)
      BY <1>2 DEF List!Contains
    <2>2. returned' = <<"addFirst", h>> /\ UNCHANGED current
      BY DEF addFirst
    <2> QED
      BY <1>1, <1>5, <2>1, <2>2 DEF List!Insert
  <1> QED
    BY <1>4, <1>6

LEMMA AddLastStep ==
    ASSUME NEW s, Represents(headChannelHandler, next, s), NEW h \in Handlers,
           ~ Contains(pipeline, h), addLast(h)
    PROVE  List!Insert(h) /\ \E t : Represents(headChannelHandler', next', t)
  <1>1. pipeline = s /\ findLast = s[Len(s)]
    BY NowIs DEF findLast, Last
  <1>2. \A i \in 1 .. Len(s) : s[i] # h
    BY <1>1 DEF Contains
  <1>3. Represents(IF headChannelHandler = nullptr THEN h ELSE headChannelHandler,
                   IF headChannelHandler = nullptr THEN next ELSE [next EXCEPT ![s[Len(s)]] = h],
                   s \o <<h>>)
    BY <1>2, AddLastRepresents
  <1>4. Represents(headChannelHandler', next', s \o <<h>>)
    BY <1>1, <1>3 DEF addLast
  <1>5. pipeline' = s \o <<h>>
    BY <1>4, ThenIs
  <1>6. List!Insert(h)
    <2>1. ~ List!Contains(s, h)
      BY <1>2 DEF List!Contains
    <2>2. returned' = <<"addLast", h>> /\ UNCHANGED current
      BY DEF addLast
    <2> QED
      BY <1>1, <1>5, <2>1, <2>2 DEF List!Insert
  <1> QED
    BY <1>4, <1>6

LEMMA RemoveFirstStep ==
    ASSUME NEW s, Represents(headChannelHandler, next, s), removeFirst
    PROVE  /\ List!TakeOut("removeFirst", {1} \cap 1 .. Len(pipeline))
           /\ \E t : Represents(headChannelHandler', next', t)
  <1>1. pipeline = s /\ UNCHANGED current
    BY NowIs DEF removeFirst
  <1>2. CASE headChannelHandler = nullptr
    <2>1. Nothing("removeFirst")
      BY <1>2 DEF removeFirst
    <2>2. {1} \cap 1 .. Len(s) = {}
      BY <1>2, ListFacts
    <2> QED
      BY <1>1, <2>1, <2>2, NothingStep
  <1>3. CASE headChannelHandler # nullptr
    <2>1. unlinkHead /\ returned' = <<"removeFirst", headChannelHandler>>
      BY <1>3 DEF removeFirst
    <2>2. 1 \in 1 .. Len(s) /\ Takes(s, "removeFirst", 1)
      BY <1>3, <2>1, UnlinkHeadIs DEF Takes
    <2>3. 1 \in {1} \cap 1 .. Len(s) /\ \A j \in {1} \cap 1 .. Len(s) : 1 <= j
      BY <2>2
    <2> QED
      BY <1>1, <2>2, <2>3, TakesStep
  <1> QED
    BY <1>2, <1>3

LEMMA RemoveLastStep ==
    ASSUME NEW s, Represents(headChannelHandler, next, s), removeLast
    PROVE  /\ List!TakeOut("removeLast", {Len(pipeline)} \cap 1 .. Len(pipeline))
           /\ \E t : Represents(headChannelHandler', next', t)
  <1>1. pipeline = s /\ findLast = s[Len(s)] /\ UNCHANGED current
    BY NowIs DEF removeLast, findLast, Last
  <1>2. CASE headChannelHandler = nullptr
    <2>1. Nothing("removeLast")
      BY <1>2 DEF removeLast
    <2>2. {Len(s)} \cap 1 .. Len(s) = {}
      BY <1>2, ListFacts
    <2> QED
      BY <1>1, <2>1, <2>2, NothingStep
  <1>3. CASE headChannelHandler # nullptr
    <2>1. /\ returned' = <<"removeLast", s[Len(s)]>>
          /\ IF next[headChannelHandler] = nullptr THEN unlinkHead
             ELSE /\ next' = [next EXCEPT ![findChannelHandlerPrev({s[Len(s)]})] = nullptr]
                  /\ UNCHANGED headChannelHandler
      BY <1>1, <1>3 DEF removeLast, Nothing
    <2>2. Len(s) \in Nat /\ Len(s) \in 1 .. Len(s) /\ 1 \in 1 .. Len(s) /\ headChannelHandler = s[1]
      BY <1>3, ListFacts
    <2>3. next[s[1]] = IF 1 = Len(s) THEN nullptr ELSE s[1 + 1]
      BY <2>2 DEF Represents
    <2>4. Takes(s, "removeLast", Len(s))
      <3>1. CASE Len(s) = 1
        <4>1. unlinkHead
          BY <2>1, <2>2, <2>3, <3>1
        <4> QED
          BY <1>3, <2>1, <3>1, <4>1, UnlinkHeadIs DEF Takes
      <3>2. CASE Len(s) # 1
        <4>1. 1 + 1 \in 1 .. Len(s) /\ Len(s) \in 2 .. Len(s)
          <5> PICK n : n = Len(s)
            OBVIOUS
          <5>1. n \in Nat /\ 1 \in 1 .. n /\ n # 1
            BY <2>2, <3>2
          <5>2. 1 + 1 \in 1 .. n /\ n \in 2 .. n
            BY <5>1
          <5> QED
            BY <5>2
        <4>2. next[headChannelHandler] # nullptr
          BY <2>2, <2>3, <3>2, <4>1, ListFacts
        <4>3. headChannelHandler \notin {s[Len(s)]}
          BY <2>2, <3>2 DEF Represents
        <4>4. PICK i \in 2 .. Len(s) :
                 /\ s[i] \in {s[Len(s)]} /\ findChannelHandlerPrev({s[Len(s)]}) = s[i - 1]
          BY <2>2, <4>3, PrevIs
        <4>5. i \in 1 .. Len(s) /\ s[i] = s[Len(s)]
          BY <2>2, <4>4
        <4>6. i = Len(s)
          BY <2>2, <4>5 DEF Represents
        <4>7. /\ next' = [next EXCEPT ![s[i - 1]] = nullptr] /\ UNCHANGED headChannelHandler
          BY <2>1, <4>2, <4>4
        <4>8. [next EXCEPT ![s[i - 1]] = nullptr] = Unlinked(next, s, i)
          BY <4>6, UnlinkBehindIs
        <4> QED
          BY <2>1, <3>2, <4>6, <4>7, <4>8 DEF Takes
      <3> QED
        BY <3>1, <3>2
    <2>5. /\ Len(s) \in {Len(s)} \cap 1 .. Len(s)
          /\ \A j \in {Len(s)} \cap 1 .. Len(s) : Len(s) <= j
      BY <2>2
    <2> QED
      BY <1>1, <2>2, <2>4, <2>5, TakesStep
  <1> QED
    BY <1>2, <1>3

(* removeByName() and remove(): places are those of the wanted handlers.   *)
LEMMA RemoveOneOfStep ==
    ASSUME NEW s, Represents(headChannelHandler, next, s), NEW function, NEW wanted,
           IF headChannelHandler = nullptr THEN Nothing(function) ELSE RemoveOneOf(function, wanted),
           UNCHANGED current, NEW places, places = {i \in 1 .. Len(s) : s[i] \in wanted}
    PROVE  /\ List!TakeOut(function, places)
           /\ \E t : Represents(headChannelHandler', next', t)
  <1>1. CASE places = {} /\ Nothing(function)
    BY <1>1, NothingStep
  <1>2. CASE \E i \in 1 .. Len(s) : /\ s[i] \in wanted
                                    /\ \A j \in 1 .. Len(s) : s[j] \in wanted => i <= j
                                    /\ Takes(s, function, i)
    <2>1. PICK i \in 1 .. Len(s) : /\ s[i] \in wanted
                                   /\ \A j \in 1 .. Len(s) : s[j] \in wanted => i <= j
                                   /\ Takes(s, function, i)
      BY <1>2
    <2>2. i \in places /\ \A j \in places : i <= j
      BY <2>1
    <2> QED
      BY <2>1, <2>2, TakesStep
  <1>3. CASE headChannelHandler = nullptr
    <2>1. Nothing(function)
      BY <1>3
    <2>2. places = {}
      BY <1>3, ListFacts
    <2> QED
      BY <1>1, <2>1, <2>2
  <1>4. CASE headChannelHandler # nullptr
    <2>1. RemoveOneOf(function, wanted)
      BY <1>4
    <2>2. \/ (\A i \in 1 .. Len(s) : s[i] \notin wanted) /\ Nothing(function)
          \/ \E i \in 1 .. Len(s) : /\ s[i] \in wanted
                                     /\ \A j \in 1 .. Len(s) : s[j] \in wanted => i <= j
                                     /\ Takes(s, function, i)
      BY <1>4, <2>1, RemoveOneOfTakes
    <2> QED
      BY <1>1, <1>2, <2>2
  <1> QED
    BY <1>3, <1>4

LEMMA RemoveByNameStep ==
    ASSUME NEW s, Represents(headChannelHandler, next, s), NEW name, removeByName(name)
    PROVE  /\ List!TakeOut(name, List!Named(name))
           /\ \E t : Represents(headChannelHandler', next', t)
  <1>1. pipeline = s /\ UNCHANGED current
    BY NowIs DEF removeByName
  <1>2. List!Named(name) = {i \in 1 .. Len(s) : name # "" /\ handlerName[s[i]] = name}
    BY <1>1 DEF List!Named
  <1>3. CASE name = ""
    <2>1. Nothing(name)
      BY <1>3 DEF removeByName
    <2>2. List!Named(name) = {}
      BY <1>2, <1>3
    <2> QED
      BY <1>1, <2>1, <2>2, NothingStep
  <1>4. CASE name # ""
    <2> DEFINE wanted == {h \in Handlers : handlerName[h] = name}
    <2>1. IF headChannelHandler = nullptr THEN Nothing(name) ELSE RemoveOneOf(name, wanted)
      BY <1>4 DEF removeByName
    <2>2. List!Named(name) = {i \in 1 .. Len(s) : s[i] \in wanted}
      BY <1>2, <1>4, ListFacts
    <2> HIDE DEF wanted
    <2> QED
      BY <1>1, <2>1, <2>2, RemoveOneOfStep
  <1> QED
    BY <1>3, <1>4

LEMMA RemoveStep ==
    ASSUME NEW s, Represents(headChannelHandler, next, s), NEW h, remove(h)
    PROVE  /\ List!TakeOut(h, List!Place(h))
           /\ \E t : Represents(headChannelHandler', next', t)
  <1>1. pipeline = s /\ UNCHANGED current
    BY NowIs DEF remove
  <1>2. IF headChannelHandler = nullptr THEN Nothing(h) ELSE RemoveOneOf(h, {h})
    BY DEF remove
  <1>3. List!Place(h) = {i \in 1 .. Len(s) : s[i] \in {h}}
    BY <1>1 DEF List!Place
  <1> QED
    BY <1>1, <1>2, <1>3, RemoveOneOfStep

LEMMA EventStep ==
    ASSUME NEW s, Represents(headChannelHandler, next, s), current \in Handlers \cup {nullptr},
           fire \/ fireChannel \/ Consume
    PROVE  /\ List!Begin \/ List!Go \/ List!Finish
           /\ current' \in Handlers \cup {nullptr}
           /\ \E t : Represents(headChannelHandler', next', t)
  <1>1. UNCHANGED <<headChannelHandler, next, returned>>
    BY DEF fire, fireChannel, Consume
  <1>2. Represents(headChannelHandler', next', s)
    BY <1>1
  <1>3. pipeline = s /\ pipeline' = s
    BY <1>2, NowIs, ThenIs
  <1>4. CASE fire
    <2>1. s # << >> /\ current' = s[1] /\ s[1] \in Handlers
      BY <1>4, ListFacts DEF fire
    <2>2. Head(s) = s[1]
      BY <2>1, ListFacts
    <2>3. List!Begin
      BY <1>1, <1>3, <1>4, <2>1, <2>2 DEF fire, List!Begin
    <2> QED
      BY <1>2, <2>1, <2>3
  <1>5. CASE fireChannel
    <2>1. current \in Handlers /\ current # nullptr /\ current' = next[current]
      BY <1>5 DEF fireChannel
    <2>2. next[current] \in Handlers \cup {nullptr}
      BY <2>1 DEF Represents
    <2>3. Len(s) \in Nat
      BY ListFacts
    <2>4. List!Behind(current) = {s[i + 1] : i \in {j \in 1 .. Len(s) - 1 : s[j] = current}}
      BY <1>3 DEF List!Behind
    <2>5. next[current] \in IF List!Behind(current) = {} THEN {nullptr} ELSE List!Behind(current)
      <3>1. CASE \E i \in 1 .. Len(s) - 1 : s[i] = current
        <4>1. PICK i \in 1 .. Len(s) - 1 : s[i] = current
          BY <3>1
        <4>2. i \in 1 .. Len(s) /\ i # Len(s)
          BY <2>3
        <4>3. next[current] = s[i + 1]
          BY <4>1, <4>2 DEF Represents
        <4>4. s[i + 1] \in List!Behind(current)
          BY <2>4, <4>1
        <4> QED
          BY <4>3, <4>4
      <3>2. CASE \A i \in 1 .. Len(s) - 1 : s[i] # current
        <4>1. List!Behind(current) = {}
          BY <2>4, <3>2
        <4>2. next[current] = nullptr
          <5>1. CASE \E i \in 1 .. Len(s) : s[i] = current
            <6>1. PICK i \in 1 .. Len(s) : s[i] = current
              BY <5>1
            <6>2. i = Len(s)
              BY <2>3, <3>2, <6>1
            <6> QED
              BY <6>1, <6>2 DEF Represents
          <5>2. CASE \A i \in 1 .. Len(s) : s[i] # current
            BY <2>1, <5>2 DEF Represents
          <5> QED
            BY <5>1, <5>2
        <4> QED
          BY <4>1, <4>2
      <3> QED
        BY <3>1, <3>2
    <2>6. List!Go
      BY <1>1, <1>3, <2>1, <2>5 DEF List!Go
    <2> QED
      BY <1>2, <2>1, <2>2, <2>6
  <1>6. CASE Consume
    <2>1. current' = nullptr
      BY <1>6 DEF Consume
    <2>2. List!Finish
      BY <1>1, <1>3, <2>1 DEF List!Finish
    <2> QED
      BY <1>2, <2>1, <2>2
  <1> QED
    BY <1>4, <1>5, <1>6

LEMMA PipelineStarts == PipelineInit => PipelineIInv /\ List!ListInit
  <1> SUFFICES ASSUME PipelineInit
               PROVE  PipelineIInv /\ List!ListInit
    OBVIOUS
  <1>1. Represents(headChannelHandler, next, << >>)
    <2>1. << >> \in Seq(Handlers) /\ Len(<< >>) = 0
      OBVIOUS
    <2>2. next \in [Handlers -> Handlers \cup {nullptr}] /\ \A h \in Handlers : next[h] = nullptr
      BY DEF PipelineInit
    <2> QED
      BY <2>1, <2>2 DEF PipelineInit, Represents
  <1>2. pipeline = << >>
    BY <1>1, NowIs
  <1> QED
    BY <1>1, <1>2 DEF PipelineInit, PipelineIInv, List!ListInit

LEMMA PipelineSteps ==
    ASSUME PipelineIInv, [PipelineNext]_pipelineVars
    PROVE  PipelineIInv' /\ [List!ListNext]_(List!listVars)
  <1>1. PICK s : Represents(headChannelHandler, next, s)
    BY DEF PipelineIInv
  <1>2. current \in Handlers \cup {nullptr}
    BY DEF PipelineIInv
  <1>3. ASSUME \E t : Represents(headChannelHandler', next', t),
               current' \in Handlers \cup {nullptr}
        PROVE  PipelineIInv'
    BY <1>3 DEF PipelineIInv
  <1>4. ASSUME NEW h \in Handlers, ~ Contains(pipeline, h), addFirst(h) \/ addLast(h)
        PROVE  PipelineIInv' /\ [List!ListNext]_(List!listVars)
    <2>1. List!Insert(h) /\ \E t : Represents(headChannelHandler', next', t)
      BY <1>1, <1>4, AddFirstStep, AddLastStep
    <2>2. UNCHANGED current
      BY <1>4 DEF addFirst, addLast
    <2> QED
      BY <1>2, <1>3, <2>1, <2>2 DEF List!ListNext
  <1>5. ASSUME NEW h \in Handlers, remove(h)
        PROVE  PipelineIInv' /\ [List!ListNext]_(List!listVars)
    <2>1. List!TakeOut(h, List!Place(h)) /\ \E t : Represents(headChannelHandler', next', t)
      BY <1>1, <1>5, RemoveStep
    <2>2. UNCHANGED current
      BY <1>5 DEF remove
    <2> QED
      BY <1>2, <1>3, <2>1, <2>2 DEF List!ListNext
  <1>6. ASSUME NEW name \in HandlerNames, removeByName(name)
        PROVE  PipelineIInv' /\ [List!ListNext]_(List!listVars)
    <2>1. List!TakeOut(name, List!Named(name)) /\ \E t : Represents(headChannelHandler', next', t)
      BY <1>1, <1>6, RemoveByNameStep
    <2>2. UNCHANGED current
      BY <1>6 DEF removeByName
    <2> QED
      BY <1>2, <1>3, <2>1, <2>2 DEF List!ListNext
  <1>7. CASE removeFirst
    <2>1. /\ List!TakeOut("removeFirst", {1} \cap 1 .. Len(pipeline))
          /\ \E t : Represents(headChannelHandler', next', t)
      BY <1>1, <1>7, RemoveFirstStep
    <2>2. UNCHANGED current
      BY <1>7 DEF removeFirst
    <2> QED
      BY <1>2, <1>3, <2>1, <2>2 DEF List!ListNext
  <1>8. CASE removeLast
    <2>1. /\ List!TakeOut("removeLast", {Len(pipeline)} \cap 1 .. Len(pipeline))
          /\ \E t : Represents(headChannelHandler', next', t)
      BY <1>1, <1>8, RemoveLastStep
    <2>2. UNCHANGED current
      BY <1>8 DEF removeLast
    <2> QED
      BY <1>2, <1>3, <2>1, <2>2 DEF List!ListNext
  <1>9. CASE fire \/ fireChannel \/ Consume
    <2>1. /\ List!Begin \/ List!Go \/ List!Finish
          /\ current' \in Handlers \cup {nullptr}
          /\ \E t : Represents(headChannelHandler', next', t)
      BY <1>1, <1>2, <1>9, EventStep
    <2> QED
      BY <1>3, <2>1 DEF List!ListNext
  <1>10. CASE UNCHANGED pipelineVars
    <2>1. /\ headChannelHandler' = headChannelHandler /\ next' = next
          /\ current' = current /\ returned' = returned
      BY <1>10 DEF pipelineVars
    <2>2. pipeline' = pipeline
      BY <2>1 DEF pipeline
    <2>3. \E t : Represents(headChannelHandler', next', t)
      BY <1>1, <2>1
    <2> QED
      BY <1>2, <1>3, <2>1, <2>2, <2>3 DEF List!listVars
  <1> QED
    BY <1>4, <1>5, <1>6, <1>7, <1>8, <1>9, <1>10 DEF PipelineNext

(* Whatever handlers do to the pipeline, even while an event is with them, *)
(* the head and the next_ pointers of ChannelHandlerPipeline.cpp represent *)
(* a list without repetition, and a handler outside it points nowhere.     *)
THEOREM PipelineInvariance == PipelineSpec => []PipelineIInv
  <1>1. PipelineInit => PipelineIInv
    BY PipelineStarts
  <1>2. PipelineIInv /\ [PipelineNext]_pipelineVars => PipelineIInv'
    BY PipelineSteps
  <1> QED
    BY <1>1, <1>2, PTL DEF PipelineSpec

(* ChannelHandlerPipeline.cpp implements the list of handlers: each of its *)
(* functions and of the handlers' fireChannel...() calls is the step of    *)
(* HandlerList of that name.                                               *)
THEOREM PipelineIsList == PipelineSpec => ListSpec
  <1>1. PipelineInit => List!ListInit
    BY PipelineStarts
  <1>2. PipelineIInv /\ [PipelineNext]_pipelineVars => [List!ListNext]_(List!listVars)
    BY PipelineSteps
  <1> QED
    BY <1>1, <1>2, PipelineInvariance, PTL DEF PipelineSpec, ListSpec, List!ListSpec

-----------------------------------------------------------------------------
(* Recursions of the form f[i] = base * f[i - 1] + c[i].                   *)

Adds(f, a, base, c, n) ==
    f[0] = a /\ \A i \in 1 .. n : f[i] = base * f[i - 1] + c[i]

LEMMA ProductNat ==
    ASSUME NEW a \in Nat, NEW b \in Nat
    PROVE  a * b \in Nat
  OBVIOUS

LEMMA AddsExists ==
    ASSUME NEW n \in Nat, NEW a \in Nat, NEW base \in Nat, NEW c,
           \A i \in 1 .. n : c[i] \in Nat
    PROVE  \E f \in [0 .. n -> Nat] : Adds(f, a, base, c, n)
  <1> DEFINE T == {m \in Nat : m <= n => \E f \in [0 .. m -> Nat] : Adds(f, a, base, c, m)}
  <1>1. 0 \in T
    <2>1. [i \in 0 .. 0 |-> a] \in [0 .. 0 -> Nat] /\ Adds([i \in 0 .. 0 |-> a], a, base, c, 0)
      BY DEF Adds
    <2> QED
      BY <2>1
  <1>2. \A m \in Nat : m \in T => m + 1 \in T
    <2> SUFFICES ASSUME NEW m \in Nat, m \in T, m + 1 <= n
                 PROVE  \E f \in [0 .. m + 1 -> Nat] : Adds(f, a, base, c, m + 1)
      OBVIOUS
    <2>1. PICK f \in [0 .. m -> Nat] : Adds(f, a, base, c, m)
      BY m \in T
    <2>2. PICK x \in Nat : x = base * f[m] + c[m + 1]
      <3>1. f[m] \in Nat /\ c[m + 1] \in Nat
        OBVIOUS
      <3>2. base * f[m] \in Nat
        BY <3>1, ProductNat
      <3> QED
        BY <3>1, <3>2
    <2> DEFINE g == [i \in 0 .. m + 1 |-> IF i = m + 1 THEN x ELSE f[i]]
    <2>3. \A i \in 0 .. m + 1 : i = m + 1 \/ i \in 0 .. m
      OBVIOUS
    <2>4. g \in [0 .. m + 1 -> Nat]
      BY <2>3
    <2>5. g[0] = a
      BY <2>1 DEF Adds
    <2>6. ASSUME NEW i \in 1 .. m + 1
          PROVE  g[i] = base * g[i - 1] + c[i]
      <3>1. CASE i = m + 1
        <4>1. i - 1 = m /\ g[m] = f[m] /\ g[m + 1] = x
          BY <3>1
        <4> HIDE DEF g
        <4> QED
          BY <2>2, <3>1, <4>1
      <3>2. CASE i # m + 1
        <4>1. i \in 1 .. m /\ i - 1 \in 0 .. m /\ g[i] = f[i] /\ g[i - 1] = f[i - 1]
          BY <3>2
        <4>2. f[i] = base * f[i - 1] + c[i]
          BY <2>1, <4>1 DEF Adds
        <4> HIDE DEF g
        <4> QED
          BY <4>1, <4>2
      <3> QED
        BY <3>1, <3>2
    <2>7. Adds(g, a, base, c, m + 1)
      <3> HIDE DEF g
      <3> QED
        BY <2>5, <2>6 DEF Adds
    <2> HIDE DEF g
    <2> QED
      BY <2>4, <2>7
  <1>3. Nat \subseteq T
    <2> HIDE DEF T
    <2> QED
      BY <1>1, <1>2, Induction
  <1>4. n \in T
    <2> HIDE DEF T
    <2> QED
      BY <1>3
  <1>5. n <= n => \E f \in [0 .. n -> Nat] : Adds(f, a, base, c, n)
    BY <1>4
  <1> QED
    BY <1>5

LEMMA AddsUnique ==
    ASSUME NEW n \in Nat, NEW a, NEW base, NEW c, NEW f, NEW g,
           Adds(f, a, base, c, n), Adds(g, a, base, c, n)
    PROVE  \A i \in 0 .. n : f[i] = g[i]
  <1> DEFINE T == {m \in Nat : m <= n => f[m] = g[m]}
  <1>1. 0 \in T
    BY DEF Adds
  <1>2. \A m \in Nat : m \in T => m + 1 \in T
    <2> SUFFICES ASSUME NEW m \in Nat, m \in T, m + 1 <= n
                 PROVE  f[m + 1] = g[m + 1]
      OBVIOUS
    <2>1. f[m] = g[m]
      OBVIOUS
    <2>2. PICK i \in 1 .. n : i = m + 1 /\ i - 1 = m
      OBVIOUS
    <2> HIDE DEF T
    <2>3. f[i] = base * f[i - 1] + c[i] /\ g[i] = base * g[i - 1] + c[i]
      BY DEF Adds
    <2> QED
      BY <2>1, <2>2, <2>3
  <1>3. Nat \subseteq T
    <2> HIDE DEF T
    <2> QED
      BY <1>1, <1>2, Induction
  <1> QED
    BY <1>3

(* The function that a recursive definition of this form defines.          *)
Summed(a, base, c, n) ==
    CHOOSE f : f = [i \in 0 .. n |-> IF i = 0 THEN a ELSE base * f[i - 1] + c[i]]

LEMMA SummedIs ==
    ASSUME NEW n \in Nat, NEW a \in Nat, NEW base \in Nat, NEW c,
           \A i \in 1 .. n : c[i] \in Nat
    PROVE  /\ Summed(a, base, c, n) \in [0 .. n -> Nat]
           /\ Adds(Summed(a, base, c, n), a, base, c, n)
  <1>1. PICK f \in [0 .. n -> Nat] : Adds(f, a, base, c, n)
    BY AddsExists
  <1>2. f = [i \in 0 .. n |-> IF i = 0 THEN a ELSE base * f[i - 1] + c[i]]
    <2>1. \A i \in 0 .. n : i = 0 \/ i \in 1 .. n
      OBVIOUS
    <2> QED
      BY <1>1, <2>1 DEF Adds
  <1>3. PICK g : g = Summed(a, base, c, n)
    OBVIOUS
  <1>4. g = [i \in 0 .. n |-> IF i = 0 THEN a ELSE base * g[i - 1] + c[i]]
    BY <1>2, <1>3 DEF Summed
  <1>5. Adds(g, a, base, c, n)
    BY <1>4 DEF Adds
  <1>6. \A i \in 0 .. n : g[i] = f[i]
    BY <1>1, <1>5, AddsUnique
  <1>7. g \in [0 .. n -> Nat]
    BY <1>4, <1>6
  <1> QED
    BY <1>3, <1>5, <1>7

(* The powers of base, as calculateNewCapacity() finds those of 2.         *)
Powers(base, n) == CHOOSE f : f = [k \in 0 .. n |-> IF k = 0 THEN 1 ELSE base * f[k - 1]]

LEMMA PowersAre ==
    ASSUME NEW n \in Nat, NEW base \in Nat
    PROVE  /\ Powers(base, n) \in [0 .. n -> Nat] /\ Powers(base, n)[0] = 1
           /\ \A k \in 1 .. n : Powers(base, n)[k] = base * Powers(base, n)[k - 1]
  <1>1. PICK c : c = [k \in 1 .. n |-> 0]
    OBVIOUS
  <1>2. \A k \in 1 .. n : c[k] \in Nat /\ c[k] = 0
    BY <1>1
  <1>3. PICK f \in [0 .. n -> Nat] : Adds(f, 1, base, c, n)
    BY <1>2, AddsExists
  <1>4. \A k \in 0 .. n : k = 0 \/ (k \in 1 .. n /\ k - 1 \in 0 .. n)
    OBVIOUS
  <1>5. \A k \in 1 .. n : f[k] = base * f[k - 1]
    <2> TAKE k \in 1 .. n
    <2>1. f[k - 1] \in Nat
      BY <1>4
    <2>2. base * f[k - 1] \in Nat
      BY <2>1, ProductNat
    <2>3. f[k] = base * f[k - 1] + c[k]
      BY <1>3 DEF Adds
    <2> QED
      BY <1>2, <2>2, <2>3
  <1>6. f = [k \in 0 .. n |-> IF k = 0 THEN 1 ELSE base * f[k - 1]]
    BY <1>3, <1>4, <1>5 DEF Adds
  <1>7. PICK g : g = Powers(base, n)
    OBVIOUS
  <1>8. g = [k \in 0 .. n |-> IF k = 0 THEN 1 ELSE base * g[k - 1]]
    BY <1>6, <1>7 DEF Powers
  <1>9. g[0] = 1 /\ \A k \in 1 .. n : g[k] = base * g[k - 1]
    BY <1>8
  <1> DEFINE T == {m \in Nat : m <= n => g[m] = f[m]}
  <1>10. 0 \in T
    BY <1>3, <1>9 DEF Adds
  <1>11. \A m \in Nat : m \in T => m + 1 \in T
    <2> SUFFICES ASSUME NEW m \in Nat, m \in T, m + 1 <= n
                 PROVE  g[m + 1] = f[m + 1]
      OBVIOUS
    <2>1. g[m] = f[m]
      OBVIOUS
    <2>2. PICK k \in 1 .. n : k = m + 1 /\ k - 1 = m
      OBVIOUS
    <2> HIDE DEF T
    <2> QED
      BY <1>5, <1>9, <2>1, <2>2
  <1>12. Nat \subseteq T
    <2> HIDE DEF T
    <2> QED
      BY <1>10, <1>11, Induction
  <1>13. \A k \in 0 .. n : g[k] = f[k]
    BY <1>12
  <1>14. g \in [0 .. n -> Nat]
    <2> HIDE DEF T
    <2> QED
      BY <1>8, <1>13
  <1> QED
    BY <1>7, <1>9, <1>14

LEMMA ProductGrows ==
    ASSUME NEW base \in Nat, base >= 2, NEW x \in Nat
    PROVE  base * x >= 2 * x
  <1>1. PICK d \in Nat : base = 2 + d
    <2>1. base - 2 \in Nat /\ base = 2 + (base - 2)
      OBVIOUS
    <2> QED
      BY <2>1
  <1>2. PICK y \in Nat, z \in Nat, p \in Nat : y = d * x /\ z = 2 * x /\ p = base * x
    BY ProductNat
  <1>3. p = z + y
    BY <1>1, <1>2
  <1>4. p >= z
    BY <1>3
  <1> QED
    BY <1>2, <1>4

LEMMA PowersGrow ==
    ASSUME NEW n \in Nat, NEW base \in Nat, base >= 2
    PROVE  \A k \in 0 .. n : Powers(base, n)[k] \in Nat /\ Powers(base, n)[k] > k
  <1>1. PICK f \in [0 .. n -> Nat] : /\ f = Powers(base, n) /\ f[0] = 1
                                     /\ \A k \in 1 .. n : f[k] = base * f[k - 1]
    BY PowersAre
  <1> DEFINE T == {m \in Nat : m <= n => f[m] > m}
  <1>2. 0 \in T
    BY <1>1
  <1>3. \A m \in Nat : m \in T => m + 1 \in T
    <2> SUFFICES ASSUME NEW m \in Nat, m \in T, m + 1 <= n
                 PROVE  f[m + 1] > m + 1
      OBVIOUS
    <2>1. f[m] > m /\ f[m] \in Nat
      OBVIOUS
    <2>2. PICK k \in 1 .. n : k = m + 1 /\ k - 1 = m
      OBVIOUS
    <2>3. f[k] = base * f[m]
      BY <1>1, <2>2
    <2> HIDE DEF T
    <2>4. base * f[m] >= 2 * f[m]
      BY <2>1, ProductGrows
    <2> QED
      BY <2>1, <2>2, <2>3, <2>4
  <1>4. Nat \subseteq T
    <2> HIDE DEF T
    <2> QED
      BY <1>2, <1>3, Induction
  <1> QED
    BY <1>1, <1>4

(* calculateNewCapacity() returns as much as is asked for.                 *)
LEMMA NewCapacityIsEnough ==
    ASSUME NEW target \in Nat
    PROVE  calculateNewCapacity(target) \in Nat /\ calculateNewCapacity(target) >= target
  <1> DEFINE doubled == Powers(2, target)
             enough == {k \in 0 .. target : doubled[k] >= target}
             least == CHOOSE k \in enough : \A j \in enough : k <= j
  <1>1. calculateNewCapacity(target) = IF target = 0 THEN 0 ELSE doubled[least]
    BY DEF calculateNewCapacity, Powers
  <1>2. \A k \in 0 .. target : doubled[k] \in Nat /\ doubled[k] > k
    BY PowersGrow
  <1>3. target \in enough
    BY <1>2
  <1>4. \E k \in enough : \A j \in enough : k <= j
    <2>1. enough \subseteq Nat
      OBVIOUS
    <2> HIDE DEF enough
    <2> QED
      BY <1>3, <2>1, LeastNat
  <1>5. least \in enough
    <2> HIDE DEF enough
    <2> QED
      BY <1>4
  <1>6. doubled[least] \in Nat /\ doubled[least] >= target
    <2> HIDE DEF least, doubled
    <2> QED
      BY <1>2, <1>5
  <1> QED
    <2> HIDE DEF least, doubled
    <2> QED
      BY <1>1, <1>6

-----------------------------------------------------------------------------
(* Bytes and integers.                                                     *)

Bytes == 0 .. MaxProduced

LEMMA BaseIs ==
    /\ Base \in Nat \ {0} /\ Bytes = 0 .. Base - 1
    /\ \A x \in Bytes : x \in Nat /\ x < Base
  BY ByteBufferAssumption DEF Base, Bytes

LEMMA ReverseIs ==
    ASSUME NEW S, NEW s \in Seq(S)
    PROVE  /\ Reverse(s) \in Seq(S) /\ Len(Reverse(s)) = Len(s) /\ Len(s) \in Nat
           /\ \A i \in 1 .. Len(s) : Reverse(s)[i] = s[Len(s) - i + 1] /\ Len(s) - i + 1 \in 1 .. Len(s)
           /\ Reverse(Reverse(s)) = s
  <1>1. PICK n \in Nat : n = Len(s)
    BY LenProperties
  <1>2. \A i \in 1 .. n : s[i] \in S /\ n - i + 1 \in 1 .. n /\ n - (n - i + 1) + 1 = i
    BY <1>1, ElementOfSeq
  <1>3. PICK t : t = [i \in 1 .. n |-> s[n - i + 1]]
    OBVIOUS
  <1>4. t \in [1 .. n -> S]
    BY <1>2, <1>3
  <1>5. t \in Seq(S) /\ Len(t) = n
    BY <1>4
  <1>6. Reverse(s) = t
    BY <1>1, <1>3 DEF Reverse
  <1>7. Reverse(t) = [i \in 1 .. n |-> t[n - i + 1]]
    BY <1>5 DEF Reverse
  <1>8. \A i \in 1 .. n : t[n - i + 1] = s[i]
    BY <1>2, <1>3
  <1>9. s = [i \in 1 .. n |-> s[i]]
    BY <1>1, LenProperties
  <1>10. Reverse(t) = s
    BY <1>7, <1>8, <1>9
  <1>11. \A i \in 1 .. n : t[i] = s[n - i + 1]
    BY <1>3
  <1> QED
    BY <1>1, <1>2, <1>5, <1>6, <1>10, <1>11

LEMMA DivisionIs ==
    ASSUME NEW b \in Nat, NEW x \in Nat, NEW r \in Nat, r < b
    PROVE  (b * x + r) \div b = x /\ (b * x + r) % b = r
  OBVIOUS

(* What is left of a value before each byte that ToMemory stores.          *)
Shifted(value, n) == CHOOSE f : f = [i \in 1 .. n |-> IF i = 1 THEN value ELSE f[i - 1] \div Base]

(* An integer that is made of bytes is stored as these bytes.              *)
LEMMA MemoryKeepsBytes ==
    ASSUME NEW bytes \in Seq(Bytes)
    PROVE  ToMemory(FromMemory(bytes), Len(bytes)) = bytes
  <1>1. PICK n, c, sum, value : /\ n = Len(bytes) /\ c = Reverse(bytes)
                                /\ sum = Summed(0, Base, c, n) /\ value = FromMemory(bytes)
    OBVIOUS
  <1>2. /\ n \in Nat /\ c \in Seq(Bytes) /\ Len(c) = n
        /\ \A i \in 1 .. n : c[i] = bytes[n - i + 1] /\ n - i + 1 \in 1 .. n
    BY <1>1, ReverseIs
  <1>3. \A i \in 1 .. n : c[i] \in Nat /\ c[i] < Base
    BY <1>2, ElementOfSeq, BaseIs
  <1>4. sum \in [0 .. n -> Nat] /\ sum[0] = 0 /\ \A i \in 1 .. n : sum[i] = Base * sum[i - 1] + c[i]
    <2>1. Base \in Nat /\ 0 \in Nat
      BY BaseIs
    <2>2. /\ Summed(0, Base, c, n) \in [0 .. n -> Nat]
          /\ Adds(Summed(0, Base, c, n), 0, Base, c, n)
      BY <1>2, <1>3, <2>1, SummedIs
    <2> QED
      BY <1>1, <2>2 DEF Adds
  <1>5. value = sum[n]
    BY <1>1 DEF FromMemory, Summed
  <1>6. \A i \in 1 .. n : /\ sum[i] \div Base = sum[i - 1] /\ sum[i] % Base = c[i]
    <2> TAKE i \in 1 .. n
    <2>1. sum[i - 1] \in Nat /\ c[i] \in Nat /\ c[i] < Base /\ Base \in Nat
      BY <1>2, <1>3, <1>4, BaseIs
    <2>2. sum[i] = Base * sum[i - 1] + c[i]
      BY <1>4
    <2>3. PICK x \in Nat, r \in Nat : x = sum[i - 1] /\ r = c[i] /\ r < Base
      BY <2>1
    <2>4. (Base * x + r) \div Base = x /\ (Base * x + r) % Base = r
      BY <2>1, <2>3, DivisionIs
    <2> QED
      BY <2>2, <2>3, <2>4
  <1>7. PICK rest : rest = Shifted(value, n)
    OBVIOUS
  <1>8. ToMemory(value, n) = [i \in 1 .. n |-> rest[i] % Base]
    <2>1. ToMemory(value, n) = [i \in 1 .. n |-> Shifted(value, n)[i] % Base]
      BY Zenon DEF ToMemory, Shifted
    <2> QED
      BY <1>7, <2>1
  <1>9. rest = [i \in 1 .. n |-> IF i = 1 THEN value ELSE rest[i - 1] \div Base]
    <2>1. PICK f : f = [i \in 1 .. n |-> sum[n - i + 1]]
      OBVIOUS
    <2>2. ASSUME NEW i \in 1 .. n
          PROVE  f[i] = IF i = 1 THEN value ELSE f[i - 1] \div Base
      <3>1. CASE i = 1
        <4>1. n - i + 1 = n
          BY <1>2, <3>1
        <4> QED
          BY <1>5, <2>1, <3>1, <4>1
      <3>2. CASE i # 1
        <4>1. PICK j \in 1 .. n : j = n - i + 2 /\ j - 1 = n - i + 1 /\ j = n - (i - 1) + 1 /\ i - 1 \in 1 .. n
          BY <1>2, <3>2
        <4>2. f[i] = sum[j - 1] /\ f[i - 1] = sum[j]
          BY <2>1, <4>1
        <4> QED
          BY <1>6, <3>2, <4>2
      <3> QED
        BY <3>1, <3>2
    <2>3. f = [i \in 1 .. n |-> IF i = 1 THEN value ELSE f[i - 1] \div Base]
      BY <2>1, <2>2
    <2> QED
      BY <1>7, <2>3 DEF Shifted
  <1>10. \A i \in 1 .. n : rest[i] = sum[n - i + 1]
    <2> DEFINE T == {i \in Nat : i \in 1 .. n => rest[i] = sum[n - i + 1]}
    <2>1. 0 \in T
      OBVIOUS
    <2>2. \A i \in Nat : i \in T => i + 1 \in T
      <3> SUFFICES ASSUME NEW i \in Nat, i \in T, i + 1 \in 1 .. n
                   PROVE  rest[i + 1] = sum[n - (i + 1) + 1]
        OBVIOUS
      <3>1. CASE i = 0
        <4>1. n - (i + 1) + 1 = n /\ i + 1 = 1
          BY <1>2, <3>1
        <4> HIDE DEF T
        <4>2. rest[1] = value
          BY <1>9, <4>1
        <4> QED
          BY <1>5, <4>1, <4>2
      <3>2. CASE i # 0
        <4>1. rest[i] = sum[n - i + 1]
          BY <1>2, <3>2
        <4> HIDE DEF T
        <4>2. PICK j \in 1 .. n : j = i + 1 /\ j # 1 /\ j - 1 = i
          BY <3>2
        <4>3. rest[j] = rest[j - 1] \div Base
          BY <1>9, <4>2
        <4>4. n - i + 1 \in 1 .. n /\ (n - i + 1) - 1 = n - (i + 1) + 1
          BY <1>2, <3>2
        <4>5. sum[n - i + 1] \div Base = sum[n - (i + 1) + 1]
          BY <1>6, <4>4
        <4> QED
          BY <4>1, <4>2, <4>3, <4>5
      <3> QED
        BY <3>1, <3>2
    <2>3. Nat \subseteq T
      <3> HIDE DEF T
      <3> QED
        BY <2>1, <2>2, Induction
    <2> QED
      BY <2>3
  <1>11. \A i \in 1 .. n : rest[i] % Base = bytes[i]
    <2> TAKE i \in 1 .. n
    <2>1. n - i + 1 \in 1 .. n /\ n - (n - i + 1) + 1 = i
      BY <1>2
    <2> QED
      BY <1>2, <1>6, <1>10, <2>1
  <1>12. bytes = [i \in 1 .. n |-> bytes[i]]
    BY <1>1, LenProperties
  <1>13. ToMemory(value, n) = bytes
    BY <1>8, <1>11, <1>12
  <1> QED
    BY <1>1, <1>13

(* writeInt16() and so on store the most significant byte first ...        *)
LEMMA HtobeStores ==
    ASSUME NEW bytes \in Seq(Bytes)
    PROVE  ToMemory(htobe(FromMemory(Reverse(bytes)), Len(bytes)), Len(bytes)) = bytes
  <1>1. PICK r \in Seq(Bytes) : r = Reverse(bytes) /\ Len(r) = Len(bytes) /\ Reverse(r) = bytes
    BY ReverseIs
  <1>2. ToMemory(FromMemory(r), Len(r)) = r
    BY MemoryKeepsBytes
  <1>3. htobe(FromMemory(r), Len(r)) = FromMemory(bytes)
    BY <1>1, <1>2 DEF htobe
  <1> QED
    BY <1>1, <1>3, MemoryKeepsBytes

(* ... and readInt16() and so on read it that way.                         *)
LEMMA BetohReads ==
    ASSUME NEW bytes \in Seq(Bytes)
    PROVE  betoh(FromMemory(bytes), Len(bytes)) = Fifo!BigEndian(bytes)
  <1>1. PICK r \in Seq(Bytes) : r = Reverse(bytes) /\ Len(r) = Len(bytes) /\ Reverse(r) = bytes
    BY ReverseIs
  <1>2. betoh(FromMemory(bytes), Len(bytes)) = FromMemory(r)
    BY <1>1, MemoryKeepsBytes DEF betoh, htobe
  <1>3. FromMemory(r) = Summed(0, Base, bytes, Len(bytes))[Len(bytes)]
    BY <1>1 DEF FromMemory, Summed
  <1>4. Fifo!BigEndian(bytes) = Summed(0, Base, bytes, Len(bytes))[Len(bytes)]
    BY DEF Fifo!BigEndian, Summed
  <1> QED
    BY <1>2, <1>3, <1>4

-----------------------------------------------------------------------------
(* ByteBuffer: the inductive invariant.                                    *)

BufferRecords == [array : Seq(Bytes), readerIndex : Nat, writerIndex : Nat]

BufferOK(b) == /\ b \in BufferRecords
               /\ b.readerIndex <= b.writerIndex /\ b.writerIndex <= Len(b.array)

BufferIInv == /\ buffers \in [Buffers -> BufferRecords]
              /\ \A b \in Buffers : BufferOK(buffers[b])
              /\ produced \in 0 .. MaxProduced

LEMMA BufferParts ==
    ASSUME NEW b, BufferOK(b)
    PROVE  \E a \in Seq(Bytes), n \in Nat, r \in Nat, w \in Nat :
               /\ b = [array |-> a, readerIndex |-> r, writerIndex |-> w]
               /\ b.array = a /\ b.readerIndex = r /\ b.writerIndex = w
               /\ n = Len(a) /\ r <= w /\ w <= n /\ w - r \in Nat /\ n - w \in Nat
               /\ a = [i \in 1 .. n |-> a[i]] /\ DOMAIN a = 1 .. n
               /\ \A i \in 1 .. n : a[i] \in Bytes
  <1>1. /\ b.array \in Seq(Bytes) /\ b.readerIndex \in Nat /\ b.writerIndex \in Nat
        /\ b = [array |-> b.array, readerIndex |-> b.readerIndex, writerIndex |-> b.writerIndex]
        /\ b.readerIndex <= b.writerIndex /\ b.writerIndex <= Len(b.array)
    BY DEF BufferOK, BufferRecords
  <1>2. PICK a \in Seq(Bytes), n, r \in Nat, w \in Nat :
            a = b.array /\ n = Len(a) /\ r = b.readerIndex /\ w = b.writerIndex
    BY <1>1
  <1>3. n \in Nat /\ a \in [1 .. n -> Bytes] /\ DOMAIN a = 1 .. n
    BY <1>2, LenProperties
  <1>4. r <= w /\ w <= n /\ w - r \in Nat /\ n - w \in Nat
    BY <1>1, <1>2, <1>3
  <1>5. a = [i \in 1 .. n |-> a[i]] /\ \A i \in 1 .. n : a[i] \in Bytes
    BY <1>3
  <1> QED
    BY <1>1, <1>2, <1>3, <1>4, <1>5

LEMMA FunctionIsSeq ==
    ASSUME NEW S, NEW n \in Nat, NEW f \in [1 .. n -> S]
    PROVE  f \in Seq(S) /\ Len(f) = n
  OBVIOUS

LEMMA MakeBuffer ==
    ASSUME NEW a \in Seq(Bytes), NEW r \in Nat, NEW w \in Nat, r <= w, w <= Len(a),
           NEW b, b = [array |-> a, readerIndex |-> r, writerIndex |-> w]
    PROVE  BufferOK(b)
  BY DEF BufferOK, BufferRecords

(* What a reader can see is the array between the two indices.             *)
LEMMA ContentsOf ==
    ASSUME NEW b, BufferOK(b)
    PROVE  /\ contents(b) \in Seq(Bytes) /\ Len(contents(b)) = b.writerIndex - b.readerIndex
           /\ \A i \in 1 .. b.writerIndex - b.readerIndex :
                 contents(b)[i] = b.array[b.readerIndex + i] /\ contents(b)[i] \in Bytes
  <1>1. PICK a \in Seq(Bytes), n \in Nat, r \in Nat, w \in Nat :
               /\ b = [array |-> a, readerIndex |-> r, writerIndex |-> w]
               /\ b.array = a /\ b.readerIndex = r /\ b.writerIndex = w
               /\ n = Len(a) /\ r <= w /\ w <= n
               /\ DOMAIN a = 1 .. n
               /\ \A i \in 1 .. n : a[i] \in Bytes
    BY BufferParts
  <1>2. contents(b) = [i \in 1 .. w - r |-> IF r + i \in DOMAIN a THEN a[r + i] ELSE 0]
    BY <1>1 DEF contents, Memory, readableBytes
  <1>3. \A i \in 1 .. w - r : r + i \in 1 .. n
    BY <1>1
  <1>4. contents(b) = [i \in 1 .. w - r |-> a[r + i]]
    BY <1>1, <1>2, <1>3
  <1>5. w - r \in Nat /\ contents(b) \in [1 .. w - r -> Bytes]
    BY <1>1, <1>3, <1>4
  <1>6. contents(b) \in Seq(Bytes) /\ Len(contents(b)) = w - r
    BY <1>5, FunctionIsSeq
  <1>7. \A i \in 1 .. w - r : contents(b)[i] = a[r + i] /\ contents(b)[i] \in Bytes
    BY <1>4, <1>5
  <1> QED
    BY <1>1, <1>6, <1>7

LEMMA ContentsType ==
    ASSUME NEW b, BufferOK(b)
    PROVE  /\ contents(b) \in Seq(Bytes) /\ Len(contents(b)) = readableBytes(b)
           /\ readableBytes(b) \in Nat /\ writableBytes(b) \in Nat /\ b.readerIndex \in Nat
           /\ capacity(b) \in Nat
  <1>1. PICK a \in Seq(Bytes), n \in Nat, r \in Nat, w \in Nat :
               /\ b.array = a /\ b.readerIndex = r /\ b.writerIndex = w
               /\ n = Len(a) /\ w - r \in Nat /\ n - w \in Nat
    BY BufferParts
  <1>2. contents(b) \in Seq(Bytes) /\ Len(contents(b)) = b.writerIndex - b.readerIndex
    BY ContentsOf
  <1> QED
    BY <1>1, <1>2 DEF readableBytes, writableBytes, capacity

LEMMA ConstructedOK ==
    ASSUME NEW n \in Nat
    PROVE  BufferOK(Constructed(n)) /\ contents(Constructed(n)) = << >>
  <1>1. PICK a : a = Zeros(n)
    OBVIOUS
  <1>2. a \in [1 .. n -> Bytes]
    BY <1>1, ByteBufferAssumption DEF Zeros, Bytes
  <1>3. a \in Seq(Bytes) /\ Len(a) = n
    BY <1>2, FunctionIsSeq
  <1>4. PICK b : b = [array |-> a, readerIndex |-> 0, writerIndex |-> 0]
    OBVIOUS
  <1>5. BufferOK(b)
    BY <1>3, <1>4, MakeBuffer
  <1>6. Len(contents(b)) = 0 /\ contents(b) \in Seq(Bytes)
    BY <1>4, <1>5, ContentsType DEF readableBytes
  <1>7. contents(b) = << >>
    BY <1>6, EmptySeq
  <1> QED
    BY <1>1, <1>4, <1>5, <1>7 DEF Constructed

(* adjustCapacity() keeps what is readable, when the capacity is enough.   *)
LEMMA AdjustCapacityKeeps ==
    ASSUME NEW b, BufferOK(b), NEW newCapacity \in Nat, readableBytes(b) <= newCapacity
    PROVE  /\ BufferOK(adjustCapacity(b, newCapacity))
           /\ contents(adjustCapacity(b, newCapacity)) = contents(b)
           /\ writableBytes(adjustCapacity(b, newCapacity)) = newCapacity - readableBytes(b)
  <1>1. PICK s, k, z, m, a, d : /\ s = contents(b) /\ k = Len(s) /\ m = newCapacity - k
                                /\ z = Zeros(m) /\ a = s \o z /\ d = adjustCapacity(b, newCapacity)
    OBVIOUS
  <1>2. s \in Seq(Bytes) /\ k = readableBytes(b) /\ k \in Nat
    BY <1>1, ContentsType
  <1>3. m \in Nat /\ k + m = newCapacity
    BY <1>1, <1>2
  <1>4. z \in Seq(Bytes) /\ Len(z) = m
    <2>1. z \in [1 .. m -> Bytes]
      BY <1>1, ByteBufferAssumption DEF Zeros, Bytes
    <2> QED
      BY <1>3, <2>1, FunctionIsSeq
  <1>5. /\ a \in Seq(Bytes) /\ Len(a) = newCapacity
        /\ \A i \in 1 .. newCapacity : a[i] = IF i <= k THEN s[i] ELSE z[i - k]
    <2>1. /\ s \o z \in Seq(Bytes) /\ Len(s \o z) = Len(s) + Len(z)
          /\ \A i \in 1 .. Len(s) + Len(z) : (s \o z)[i] = IF i <= Len(s) THEN s[i] ELSE z[i - Len(s)]
      BY <1>2, <1>4, ConcatProperties
    <2> QED
      BY <1>1, <1>3, <1>4, <2>1
  <1>6. d = [array |-> a, readerIndex |-> 0, writerIndex |-> k]
    BY <1>1 DEF adjustCapacity
  <1>7. BufferOK(d)
    <2>1. 0 \in Nat /\ 0 <= k /\ k <= newCapacity
      BY <1>2, <1>3
    <2> QED
      BY <1>2, <1>5, <1>6, <2>1, MakeBuffer
  <1>8. contents(d) = s
    <2>1. DOMAIN a = 1 .. newCapacity /\ \A i \in 1 .. newCapacity : a[i] \in Bytes
      BY <1>5, LenProperties, ElementOfSeq
    <2>2. /\ contents(d) \in Seq(Bytes) /\ Len(contents(d)) = k - 0
          /\ \A i \in 1 .. k - 0 : contents(d)[i] = a[0 + i]
      <3>1. d.array = a /\ d.readerIndex = 0 /\ d.writerIndex = k
        BY <1>6
      <3> QED
        BY <1>7, <3>1, ContentsOf
    <2>3. \A i \in 1 .. k : contents(d)[i] = s[i]
      <3> TAKE i \in 1 .. k
      <3>1. i \in 1 .. newCapacity /\ i <= k /\ i \in 1 .. k - 0 /\ 0 + i = i
        BY <1>2, <1>3
      <3> QED
        BY <1>5, <2>2, <3>1
    <2>4. Len(contents(d)) = Len(s)
      BY <1>1, <1>2, <2>2
    <2> QED
      BY <1>1, <1>2, <2>2, <2>3, <2>4, SeqEqual
  <1>9. writableBytes(d) = newCapacity - k
    BY <1>5, <1>6 DEF writableBytes, capacity
  <1> QED
    BY <1>1, <1>2, <1>7, <1>8, <1>9

(* ensureWritable() makes the room that is asked for.                      *)
LEMMA EnsureWritableKeeps ==
    ASSUME NEW b, BufferOK(b), NEW n \in Nat
    PROVE  /\ BufferOK(ensureWritable(b, n))
           /\ contents(ensureWritable(b, n)) = contents(b)
           /\ n <= writableBytes(ensureWritable(b, n))
  <1>1. CASE ~ (writableBytes(b) < n)
    <2>1. ensureWritable(b, n) = b
      BY <1>1 DEF ensureWritable
    <2> QED
      BY <1>1, <2>1, ContentsType
  <1>2. CASE writableBytes(b) < n
    <2>1. PICK c : c = NewCapacity(b, n) /\ ensureWritable(b, n) = adjustCapacity(b, c)
      BY <1>2 DEF ensureWritable
    <2>2. /\ b.readerIndex \in Nat /\ b.writerIndex \in Nat /\ capacity(b) \in Nat
          /\ b.readerIndex <= b.writerIndex /\ b.writerIndex <= capacity(b)
          /\ readableBytes(b) = b.writerIndex - b.readerIndex
          /\ writableBytes(b) = capacity(b) - b.writerIndex
      BY ContentsType DEF BufferOK, BufferRecords, capacity, readableBytes, writableBytes
    <2>3. c \in Nat /\ readableBytes(b) + n <= c
      <3>1. CASE capacity(b) = 0
        <4>1. c = calculateNewCapacity(n)
          BY <2>1, <3>1 DEF NewCapacity
        <4>2. c \in Nat /\ c >= n
          BY <4>1, NewCapacityIsEnough
        <4> QED
          BY <2>2, <3>1, <4>2
      <3>2. CASE capacity(b) # 0 /\ writableBytes(b) + discardReadBytes(b) < n
        <4>1. c = calculateNewCapacity(b.writerIndex + n)
          BY <2>1, <3>2 DEF NewCapacity
        <4>2. c \in Nat /\ c >= b.writerIndex + n
          <5>1. b.writerIndex + n \in Nat
            BY <2>2
          <5> QED
            BY <4>1, <5>1, NewCapacityIsEnough
        <4> QED
          BY <2>2, <4>2
      <3>3. CASE capacity(b) # 0 /\ ~ (writableBytes(b) + discardReadBytes(b) < n)
        <4>1. c = capacity(b)
          BY <2>1, <3>3 DEF NewCapacity
        <4>2. ~ (capacity(b) - b.writerIndex + b.readerIndex < n)
          BY <2>2, <3>3 DEF discardReadBytes
        <4> QED
          BY <2>2, <4>1, <4>2
      <3> QED
        BY <3>1, <3>2, <3>3
    <2>4. readableBytes(b) <= c /\ n <= c - readableBytes(b)
      BY <2>2, <2>3
    <2> QED
      BY <2>1, <2>3, <2>4, AdjustCapacityKeeps
  <1> QED
    BY <1>1, <1>2

(* memcpy() into the room behind the writer index appends.                 *)
LEMMA StoredAppends ==
    ASSUME NEW b, BufferOK(b), NEW data \in Seq(Bytes), Len(data) <= writableBytes(b)
    PROVE  BufferOK(Stored(b, data)) /\ contents(Stored(b, data)) = contents(b) \o data
  <1>1. PICK a \in Seq(Bytes), n \in Nat, r \in Nat, w \in Nat :
               /\ b = [array |-> a, readerIndex |-> r, writerIndex |-> w]
               /\ b.array = a /\ b.readerIndex = r /\ b.writerIndex = w
               /\ n = Len(a) /\ r <= w /\ w <= n /\ w - r \in Nat /\ n - w \in Nat
               /\ DOMAIN a = 1 .. n
               /\ \A i \in 1 .. n : a[i] \in Bytes
    BY BufferParts
  <1>2. PICK k \in Nat : k = Len(data) /\ k <= n - w /\ \A i \in 1 .. k : data[i] \in Bytes
    BY <1>1, LenProperties, ElementOfSeq DEF writableBytes, capacity
  <1>3. PICK x, d, s : /\ x = [i \in 1 .. n |-> IF i - w \in 1 .. k THEN data[i - w] ELSE a[i]]
                       /\ d = Stored(b, data) /\ s = contents(b)
    OBVIOUS
  <1>4. x \in [1 .. n -> Bytes]
    BY <1>1, <1>2, <1>3
  <1>5. x \in Seq(Bytes) /\ Len(x) = n /\ DOMAIN x = 1 .. n /\ \A i \in 1 .. n : x[i] \in Bytes
    BY <1>4, FunctionIsSeq
  <1>6. d = [array |-> x, readerIndex |-> r, writerIndex |-> w + k]
    BY <1>1, <1>2, <1>3 DEF Stored
  <1>7. w + k \in Nat /\ r <= w + k /\ w + k <= n /\ (w + k) - r = (w - r) + k
    BY <1>1, <1>2
  <1>8. BufferOK(d)
    BY <1>5, <1>6, <1>7, MakeBuffer
  <1>9. /\ contents(d) \in Seq(Bytes) /\ Len(contents(d)) = (w - r) + k
        /\ \A i \in 1 .. (w - r) + k : contents(d)[i] = x[r + i] /\ r + i \in 1 .. n
    <2>1. PICK v \in Nat : v = w + k /\ r <= v /\ v <= n /\ v - r = (w - r) + k
      BY <1>7
    <2>2. d = [array |-> x, readerIndex |-> r, writerIndex |-> v]
      BY <1>6, <2>1
    <2>3. /\ contents(d) \in Seq(Bytes) /\ Len(contents(d)) = v - r
          /\ \A i \in 1 .. v - r : contents(d)[i] = x[r + i] /\ r + i \in 1 .. n
      <3>1. d.array = x /\ d.readerIndex = r /\ d.writerIndex = v
        BY <2>2
      <3>2. /\ contents(d) \in Seq(Bytes) /\ Len(contents(d)) = v - r
            /\ \A i \in 1 .. v - r : contents(d)[i] = x[r + i]
        BY <1>8, <3>1, ContentsOf
      <3>3. \A i \in 1 .. v - r : r + i \in 1 .. n
        BY <1>1, <2>1
      <3> QED
        BY <3>2, <3>3
    <2> QED
      BY <2>1, <2>3
  <1>10. /\ s \in Seq(Bytes) /\ Len(s) = w - r
         /\ \A i \in 1 .. w - r : s[i] = a[r + i]
    BY <1>1, <1>3, ContentsOf
  <1>11. /\ s \o data \in Seq(Bytes) /\ Len(s \o data) = (w - r) + k
         /\ \A i \in 1 .. (w - r) + k : (s \o data)[i] = IF i <= w - r THEN s[i] ELSE data[i - (w - r)]
    <2>1. /\ s \o data \in Seq(Bytes) /\ Len(s \o data) = Len(s) + Len(data)
          /\ \A i \in 1 .. Len(s) + Len(data) :
                (s \o data)[i] = IF i <= Len(s) THEN s[i] ELSE data[i - Len(s)]
      BY <1>10, ConcatProperties
    <2>2. Len(s) = w - r /\ Len(data) = k
      BY <1>2, <1>10
    <2> QED
      BY <2>1, <2>2
  <1>12. ASSUME NEW i \in 1 .. (w - r) + k
         PROVE  contents(d)[i] = (s \o data)[i]
    <2>1. contents(d)[i] = IF (r + i) - w \in 1 .. k THEN data[(r + i) - w] ELSE a[r + i]
      BY <1>3, <1>9
    <2>2. CASE i <= w - r
      <3>1. i \in 1 .. w - r /\ (r + i) - w \notin 1 .. k
        BY <1>1, <1>2, <2>2
      <3> QED
        BY <1>10, <1>11, <2>1, <2>2, <3>1
    <2>3. CASE ~ (i <= w - r)
      <3>1. (r + i) - w \in 1 .. k /\ (r + i) - w = i - (w - r)
        BY <1>1, <1>2, <2>3
      <3> QED
        BY <1>11, <2>1, <2>3, <3>1
    <2> QED
      BY <2>2, <2>3
  <1>13. contents(d) = s \o data
    <2>1. PICK t \in Seq(Bytes) : /\ t = s \o data /\ Len(t) = Len(contents(d))
                                  /\ \A i \in 1 .. Len(contents(d)) : contents(d)[i] = t[i]
      BY <1>9, <1>11, <1>12
    <2>2. contents(d) = t
      BY <1>9, <2>1, SeqEqual
    <2> QED
      BY <2>1, <2>2
  <1> QED
    BY <1>3, <1>8, <1>13

LEMMA WriteBytesAppends ==
    ASSUME NEW b, BufferOK(b), NEW data \in Seq(Bytes)
    PROVE  BufferOK(writeBytes(b, data)) /\ contents(writeBytes(b, data)) = contents(b) \o data
  <1>1. PICK d : d = ensureWritable(b, Len(data))
    OBVIOUS
  <1>2. Len(data) \in Nat
    BY LenProperties
  <1>3. BufferOK(d) /\ contents(d) = contents(b) /\ Len(data) <= writableBytes(d)
    BY <1>1, <1>2, EnsureWritableKeeps
  <1>4. BufferOK(Stored(d, data)) /\ contents(Stored(d, data)) = contents(d) \o data
    BY <1>3, StoredAppends
  <1> QED
    BY <1>1, <1>3, <1>4 DEF writeBytes

(* setReaderIndex() and adjustReaderIndex() drop the bytes in front.       *)
LEMMA SetReaderIndexDrops ==
    ASSUME NEW b, BufferOK(b), NEW n \in Nat, n <= readableBytes(b)
    PROVE  /\ BufferOK(setReaderIndex(b, b.readerIndex + n))
           /\ contents(setReaderIndex(b, b.readerIndex + n))
                = SubSeq(contents(b), n + 1, Len(contents(b)))
  <1>1. PICK a \in Seq(Bytes), m \in Nat, r \in Nat, w \in Nat :
               /\ b = [array |-> a, readerIndex |-> r, writerIndex |-> w]
               /\ b.array = a /\ b.readerIndex = r /\ b.writerIndex = w
               /\ m = Len(a) /\ r <= w /\ w <= m /\ w - r \in Nat /\ m - w \in Nat
               /\ DOMAIN a = 1 .. m
               /\ \A i \in 1 .. m : a[i] \in Bytes
    BY BufferParts
  <1>2. PICK v \in Nat : v = r + n /\ v <= w /\ w - v = (w - r) - n /\ n <= w - r
    BY <1>1 DEF readableBytes
  <1>3. PICK x, d, s : /\ x = [i \in 1 .. m |-> IF i <= v THEN 0 ELSE a[i]]
                       /\ d = setReaderIndex(b, b.readerIndex + n) /\ s = contents(b)
    OBVIOUS
  <1>4. x \in [1 .. m -> Bytes]
    BY <1>1, <1>3, ByteBufferAssumption DEF Bytes
  <1>5. x \in Seq(Bytes) /\ Len(x) = m /\ DOMAIN x = 1 .. m /\ \A i \in 1 .. m : x[i] \in Bytes
    BY <1>4, FunctionIsSeq
  <1>6. d = [array |-> x, readerIndex |-> v, writerIndex |-> w]
    BY <1>1, <1>2, <1>3 DEF setReaderIndex
  <1>7. BufferOK(d)
    BY <1>1, <1>2, <1>5, <1>6, MakeBuffer
  <1>8. /\ contents(d) \in Seq(Bytes) /\ Len(contents(d)) = w - v
        /\ \A i \in 1 .. w - v : contents(d)[i] = x[v + i]
    <2>1. d.array = x /\ d.readerIndex = v /\ d.writerIndex = w
      BY <1>6
    <2> QED
      BY <1>7, <2>1, ContentsOf
  <1>9. /\ s \in Seq(Bytes) /\ Len(s) = w - r
        /\ \A i \in 1 .. w - r : s[i] = a[r + i] /\ s[i] \in Bytes
    BY <1>1, <1>3, ContentsOf
  <1>10. PICK t : t = SubSeq(s, n + 1, w - r)
    OBVIOUS
  <1>11. t \in Seq(Bytes) /\ Len(t) = w - v /\ \A i \in 1 .. w - v : t[i] = s[n + i]
    <2>1. PICK from \in Int, to \in Int : from = n + 1 /\ to = w - r
      BY <1>1
    <2>2. \A i \in from .. to : s[i] \in Bytes
      BY <1>1, <1>9, <2>1
    <2>3. /\ SubSeq(s, from, to) \in Seq(Bytes)
          /\ Len(SubSeq(s, from, to)) = IF from <= to THEN to - from + 1 ELSE 0
          /\ \A i \in 1 .. to - from + 1 : SubSeq(s, from, to)[i] = s[from + i - 1]
      BY <2>2, SubSeqProperties
    <2>4. to - from + 1 = w - v /\ (~ (from <= to) => w - v = 0)
      BY <1>1, <1>2, <2>1
    <2>5. \A i \in 1 .. w - v : from + i - 1 = n + i
      BY <1>1, <1>2, <2>1
    <2>6. t = SubSeq(s, from, to)
      BY <1>10, <2>1
    <2> QED
      BY <2>3, <2>4, <2>5, <2>6
  <1>12. ASSUME NEW i \in 1 .. w - v
         PROVE  contents(d)[i] = t[i]
    <2>1. n + i \in 1 .. w - r /\ r + (n + i) = v + i /\ ~ (v + i <= v) /\ v + i \in 1 .. m
      BY <1>1, <1>2
    <2> QED
      BY <1>3, <1>8, <1>9, <1>11, <2>1
  <1>13. contents(d) = t
    BY <1>8, <1>11, <1>12, SeqEqual
  <1> QED
    BY <1>3, <1>7, <1>9, <1>10, <1>13

LEMMA AdjustReaderIndexDrops ==
    ASSUME NEW b, BufferOK(b), NEW n \in Nat, n <= readableBytes(b)
    PROVE  /\ BufferOK(adjustReaderIndex(b, n))
           /\ contents(adjustReaderIndex(b, n)) = SubSeq(contents(b), n + 1, Len(contents(b)))
  <1>1. CASE readableBytes(b) > n
    BY <1>1, SetReaderIndexDrops DEF adjustReaderIndex
  <1>2. CASE ~ (readableBytes(b) > n)
    <2>1. PICK s \in Seq(Bytes) : s = contents(b) /\ Len(s) = n
      BY <1>2, ContentsType
    <2>2. adjustReaderIndex(b, n) = Constructed(capacity(b)) /\ capacity(b) \in Nat
      BY <1>2, ContentsType DEF adjustReaderIndex, clear, Constructed
    <2>3. BufferOK(adjustReaderIndex(b, n)) /\ contents(adjustReaderIndex(b, n)) = << >>
      BY <2>2, ConstructedOK
    <2>4. SubSeq(s, n + 1, n) = << >>
      <3>1. n + 1 \in Int /\ ~ (n + 1 <= n) /\ \A i \in n + 1 .. n : s[i] \in Bytes
        OBVIOUS
      <3>2. SubSeq(s, n + 1, n) \in Seq(Bytes) /\ Len(SubSeq(s, n + 1, n)) = 0
        BY <3>1, SubSeqProperties
      <3> QED
        BY <3>2, EmptySeq
    <2> QED
      BY <2>1, <2>3, <2>4
  <1> QED
    BY <1>1, <1>2

(* What is copied out is what is readable.                                 *)
LEMMA MemoryReads ==
    ASSUME NEW b, BufferOK(b), NEW n \in Nat, n <= readableBytes(b)
    PROVE  /\ Memory(b, b.readerIndex, n) = SubSeq(contents(b), 1, n)
           /\ Memory(b, b.readerIndex, n) \in Seq(Bytes) /\ Len(Memory(b, b.readerIndex, n)) = n
  <1>1. PICK a \in Seq(Bytes), m \in Nat, r \in Nat, w \in Nat :
               /\ b = [array |-> a, readerIndex |-> r, writerIndex |-> w]
               /\ b.array = a /\ b.readerIndex = r /\ b.writerIndex = w
               /\ m = Len(a) /\ r <= w /\ w <= m /\ w - r \in Nat /\ m - w \in Nat
               /\ DOMAIN a = 1 .. m
               /\ \A i \in 1 .. m : a[i] \in Bytes
    BY BufferParts
  <1>2. n <= w - r /\ \A i \in 1 .. n : r + i \in 1 .. m /\ i \in 1 .. w - r
    BY <1>1 DEF readableBytes
  <1>3. PICK x, s, t : x = Memory(b, b.readerIndex, n) /\ s = contents(b) /\ t = SubSeq(s, 1, n)
    OBVIOUS
  <1>4. x = [i \in 1 .. n |-> a[r + i]]
    BY <1>1, <1>2, <1>3 DEF Memory
  <1>5. x \in [1 .. n -> Bytes]
    BY <1>1, <1>2, <1>4
  <1>6. x \in Seq(Bytes) /\ Len(x) = n /\ \A i \in 1 .. n : x[i] = a[r + i]
    BY <1>4, <1>5, FunctionIsSeq
  <1>7. \A i \in 1 .. w - r : s[i] = a[r + i]
    BY <1>1, <1>3, ContentsOf
  <1>8. t \in Seq(Bytes) /\ Len(t) = n /\ \A i \in 1 .. n : t[i] = s[i]
    <2>1. \A i \in 1 .. n : s[i] \in Bytes
      BY <1>1, <1>2, <1>7
    <2> QED
      BY <1>3, <2>1, SubSeqProperties
  <1>9. \A i \in 1 .. n : x[i] = t[i]
    BY <1>2, <1>6, <1>7, <1>8
  <1>10. x = t
    BY <1>6, <1>8, <1>9, SeqEqual
  <1> QED
    BY <1>3, <1>6, <1>10

-----------------------------------------------------------------------------
(* Every call on a ByteBuffer is a step of the queue of bytes.             *)

LEMMA BufferChanges ==
    ASSUME BufferIInv, NEW b \in Buffers, NEW d, BufferOK(d),
           buffers' = [buffers EXCEPT ![b] = d], produced' \in 0 .. MaxProduced
    PROVE  /\ BufferIInv'
           /\ readable' = [readable EXCEPT ![b] = contents(d)]
           /\ readable'[b] = contents(d) /\ readable[b] = contents(buffers[b])
           /\ BufferOK(buffers[b])
  <1>1. /\ buffers \in [Buffers -> BufferRecords]
        /\ \A c \in Buffers : BufferOK(buffers[c])
    BY DEF BufferIInv
  <1>2. d \in BufferRecords
    BY DEF BufferOK
  <1>3. \A c \in Buffers : buffers'[c] = IF c = b THEN d ELSE buffers[c]
    BY <1>1
  <1>4. buffers' \in [Buffers -> BufferRecords]
    BY <1>1, <1>2
  <1>5. \A c \in Buffers : BufferOK(buffers'[c])
    BY <1>1, <1>3
  <1>6. BufferIInv'
    BY <1>4, <1>5 DEF BufferIInv, BufferOK
  <1>7. readable' = [c \in Buffers |-> IF c = b THEN contents(d) ELSE contents(buffers[c])]
    <2>1. readable' = [c \in Buffers |-> contents(buffers'[c])]
      BY DEF readable, contents, Memory, readableBytes
    <2>2. \A c \in Buffers : contents(buffers'[c]) = IF c = b THEN contents(d) ELSE contents(buffers[c])
      BY <1>3
    <2> QED
      BY <2>1, <2>2
  <1>8. readable = [c \in Buffers |-> contents(buffers[c])]
    BY DEF readable
  <1>9. readable' = [readable EXCEPT ![b] = contents(d)]
    BY <1>7, <1>8
  <1> QED
    BY <1>1, <1>6, <1>7, <1>8, <1>9

LEMMA ReadableIs ==
    ASSUME BufferIInv, NEW b \in Buffers
    PROVE  /\ BufferOK(buffers[b]) /\ readable[b] = contents(buffers[b])
           /\ readable[b] \in Seq(Bytes) /\ Len(readable[b]) \in Nat
           /\ Len(readable[b]) = readableBytes(buffers[b])
           /\ produced \in Nat /\ produced \in 0 .. MaxProduced
  <1>1. BufferOK(buffers[b]) /\ produced \in Nat /\ produced \in 0 .. MaxProduced
    BY ByteBufferAssumption DEF BufferIInv
  <1>2. readable[b] = contents(buffers[b])
    BY DEF readable
  <1> QED
    BY <1>1, <1>2, ContentsType

LEMMA FreshIs ==
    ASSUME BufferIInv, NEW n \in Nat, produced + n <= MaxProduced
    PROVE  /\ Fresh(n) \in Seq(Bytes) /\ Len(Fresh(n)) = n /\ produced + n \in 0 .. MaxProduced
           /\ Fresh(n) = [i \in 1 .. n |-> produced + i]
  <1>1. produced \in Nat /\ MaxProduced \in Nat
    BY ByteBufferAssumption DEF BufferIInv
  <1>2. Fresh(n) = [i \in 1 .. n |-> produced + i]
    BY DEF Fresh
  <1>3. [i \in 1 .. n |-> produced + i] \in [1 .. n -> Bytes]
    BY <1>1 DEF Bytes
  <1> QED
    BY <1>1, <1>2, <1>3, FunctionIsSeq

LEMMA PutStep ==
    ASSUME BufferIInv, NEW b \in Buffers, NEW n \in Nat, produced + n <= MaxProduced,
           NEW d, BufferOK(d), contents(d) = contents(buffers[b]) \o Fresh(n),
           buffers' = [buffers EXCEPT ![b] = d], produced' = produced + n, answer' = << >>
    PROVE  BufferIInv' /\ Fifo!FifoNext
  <1>1. /\ Fresh(n) \in Seq(Bytes) /\ Len(Fresh(n)) = n /\ produced + n \in 0 .. MaxProduced
        /\ Fresh(n) = [i \in 1 .. n |-> produced + i]
    BY FreshIs
  <1>2. /\ BufferIInv' /\ readable' = [readable EXCEPT ![b] = contents(d)]
        /\ readable'[b] = contents(d) /\ readable[b] = contents(buffers[b])
    BY <1>1, BufferChanges
  <1>3. Fifo!Put(b, n)
    <2>1. contents(d) = readable[b] \o [i \in 1 .. n |-> produced + i]
      BY <1>1, <1>2
    <2> QED
      BY <1>2, <2>1 DEF Fifo!Put
  <1>4. n \in 0 .. Len(readable'[b])
    <2>1. PICK s \in Seq(Bytes) : s = contents(buffers[b])
      BY ReadableIs
    <2>2. Len(s \o Fresh(n)) = Len(s) + n /\ Len(s) \in Nat
      BY <1>1, ConcatProperties, LenProperties
    <2> QED
      BY <1>2, <2>1, <2>2
  <1> QED
    BY <1>2, <1>3, <1>4 DEF Fifo!FifoNext

LEMMA RenewStep ==
    ASSUME BufferIInv, NEW b \in Buffers, NEW n \in Nat, produced + n <= MaxProduced,
           NEW d, BufferOK(d), contents(d) = Fresh(n),
           buffers' = [buffers EXCEPT ![b] = d], produced' = produced + n, answer' = << >>
    PROVE  BufferIInv' /\ Fifo!FifoNext
  <1>1. /\ Len(Fresh(n)) = n /\ produced + n \in 0 .. MaxProduced
        /\ Fresh(n) = [i \in 1 .. n |-> produced + i]
    BY FreshIs
  <1>2. /\ BufferIInv' /\ readable' = [readable EXCEPT ![b] = contents(d)]
        /\ readable'[b] = contents(d)
    BY <1>1, BufferChanges
  <1>3. Fifo!Renew(b, n)
    BY <1>1, <1>2 DEF Fifo!Renew
  <1>4. n \in 0 .. Len(readable'[b])
    BY <1>1, <1>2
  <1> QED
    BY <1>2, <1>3, <1>4 DEF Fifo!FifoNext

LEMMA DropStep ==
    ASSUME BufferIInv, NEW b \in Buffers, NEW n \in Nat, n <= readableBytes(buffers[b]),
           NEW d, BufferOK(d),
           contents(d) = SubSeq(contents(buffers[b]), n + 1, Len(contents(buffers[b]))),
           buffers' = [buffers EXCEPT ![b] = d], produced' = produced,
           \/ answer' = << >>
           \/ answer' = SubSeq(contents(buffers[b]), 1, n)
           \/ answer' = <<Fifo!BigEndian(SubSeq(contents(buffers[b]), 1, n))>>
    PROVE  BufferIInv' /\ Fifo!FifoNext
  <1>1. /\ produced' \in 0 .. MaxProduced /\ n \in 0 .. Len(readable[b])
    BY ReadableIs
  <1>2. /\ BufferIInv' /\ readable' = [readable EXCEPT ![b] = contents(d)]
        /\ readable[b] = contents(buffers[b])
    BY <1>1, BufferChanges
  <1>3. readable' = [readable EXCEPT ![b] = SubSeq(readable[b], n + 1, Len(readable[b]))]
    BY <1>2
  <1>4. CASE answer' = << >>
    <2>1. Fifo!Drop(b, n)
      BY <1>3, <1>4 DEF Fifo!Drop
    <2> QED
      BY <1>1, <1>2, <2>1 DEF Fifo!FifoNext
  <1>5. CASE \/ answer' = SubSeq(contents(buffers[b]), 1, n)
             \/ answer' = <<Fifo!BigEndian(SubSeq(contents(buffers[b]), 1, n))>>
    <2>1. Fifo!Get(b, n)
      BY <1>2, <1>3, <1>5 DEF Fifo!Get
    <2> QED
      BY <1>1, <1>2, <2>1 DEF Fifo!FifoNext
  <1> QED
    BY <1>4, <1>5

(* A call that throws changes nothing.                                     *)
LEMMA ThrowStep ==
    ASSUME BufferIInv, NEW b \in Buffers, UNCHANGED buffers, Silent
    PROVE  BufferIInv' /\ Fifo!FifoNext
  <1>1. produced' = produced /\ answer' = << >>
    BY DEF Silent
  <1>2. BufferIInv' /\ readable' = readable
    BY <1>1 DEF BufferIInv, readable, contents, Memory, readableBytes, BufferOK
  <1>3. PICK s : s = readable[b] /\ s \in Seq(Bytes) /\ Len(s) \in Nat
    BY ReadableIs
  <1>4. SubSeq(s, 0 + 1, Len(s)) = s
    <2>1. 0 + 1 = 1 /\ \A i \in 1 .. Len(s) : s[i] \in Bytes
      BY <1>3, ElementOfSeq
    <2>2. PICK t : t = SubSeq(s, 1, Len(s))
      OBVIOUS
    <2>3. t \in Seq(Bytes) /\ Len(t) = Len(s) /\ \A i \in 1 .. Len(s) : t[i] = s[i]
      BY <1>3, <2>1, <2>2, SubSeqProperties
    <2>4. t = s
      BY <1>3, <2>3, SeqEqual
    <2> QED
      BY <2>1, <2>2, <2>4
  <1>5. readable = [readable EXCEPT ![b] = s]
    BY <1>3 DEF readable
  <1>6. Fifo!Drop(b, 0)
    BY <1>1, <1>2, <1>3, <1>4, <1>5 DEF Fifo!Drop
  <1>7. 0 \in 0 .. Len(readable[b])
    BY <1>3
  <1> QED
    BY <1>2, <1>6, <1>7 DEF Fifo!FifoNext

LEMMA ConstructStep ==
    ASSUME BufferIInv, NEW b \in Buffers, NEW n \in Nat, Construct(b, n)
    PROVE  BufferIInv' /\ Fifo!FifoNext
  <1>1. PICK d : d = Constructed(n) /\ BufferOK(d) /\ contents(d) = << >>
    BY ConstructedOK
  <1>2. buffers' = [buffers EXCEPT ![b] = d] /\ produced' = produced + 0 /\ answer' = << >>
    BY <1>1, ReadableIs DEF Construct, Silent
  <1>3. 0 \in Nat /\ produced + 0 <= MaxProduced
    BY ReadableIs, ByteBufferAssumption
  <1>4. contents(d) = Fresh(0)
    <2>1. Fresh(0) \in Seq(Bytes) /\ Len(Fresh(0)) = 0
      BY <1>3, FreshIs
    <2> QED
      BY <1>1, <2>1, EmptySeq
  <1> QED
    BY <1>1, <1>2, <1>3, <1>4, RenewStep

LEMMA ConstructFromStep ==
    ASSUME BufferIInv, NEW b \in Buffers, NEW n \in Nat, ConstructFrom(b, n)
    PROVE  BufferIInv' /\ Fifo!FifoNext
  <1>1. PICK d : /\ d = writeBytes(Constructed(0), Fresh(n)) /\ produced + n <= MaxProduced
                 /\ buffers' = [buffers EXCEPT ![b] = d] /\ produced' = produced + n
                 /\ answer' = << >>
    BY DEF ConstructFrom
  <1>2. PICK new : new = Constructed(0) /\ BufferOK(new) /\ contents(new) = << >>
    BY ConstructedOK
  <1>3. PICK data \in Seq(Bytes) : data = Fresh(n)
    BY <1>1, FreshIs
  <1>4. BufferOK(writeBytes(new, data)) /\ contents(writeBytes(new, data)) = contents(new) \o data
    BY <1>2, WriteBytesAppends
  <1>5. << >> \o data = data
    BY ConcatEmptySeq
  <1>6. BufferOK(d) /\ contents(d) = Fresh(n)
    BY <1>1, <1>2, <1>3, <1>4, <1>5
  <1> QED
    BY <1>1, <1>6, RenewStep

LEMMA WriteBytesStep ==
    ASSUME BufferIInv, NEW b \in Buffers, NEW n \in Nat, WriteBytes(b, n)
    PROVE  BufferIInv' /\ Fifo!FifoNext
  <1>1. CASE OutOfMemory(buffers[b], n)
    <2>1. UNCHANGED buffers /\ Silent
      BY <1>1 DEF WriteBytes
    <2> QED
      BY <2>1, ThrowStep
  <1>2. CASE ~ OutOfMemory(buffers[b], n)
    <2>1. PICK d : /\ d = writeBytes(buffers[b], Fresh(n)) /\ produced + n <= MaxProduced
                   /\ buffers' = [buffers EXCEPT ![b] = d] /\ produced' = produced + n
                   /\ answer' = << >>
      BY <1>2 DEF WriteBytes
    <2>2. BufferOK(buffers[b]) /\ Fresh(n) \in Seq(Bytes)
      BY <2>1, FreshIs, ReadableIs
    <2>3. BufferOK(d) /\ contents(d) = contents(buffers[b]) \o Fresh(n)
      BY <2>1, <2>2, WriteBytesAppends
    <2> QED
      BY <2>1, <2>3, PutStep
  <1> QED
    BY <1>1, <1>2

LEMMA WriteIntStep ==
    ASSUME BufferIInv, NEW b \in Buffers, NEW size \in Nat, WriteInt(b, size)
    PROVE  BufferIInv' /\ Fifo!FifoNext
  <1>1. CASE OutOfMemory(buffers[b], size)
    <2>1. UNCHANGED buffers /\ Silent
      BY <1>1 DEF WriteInt
    <2> QED
      BY <2>1, ThrowStep
  <1>2. CASE ~ OutOfMemory(buffers[b], size)
    <2>1. produced + size <= MaxProduced
      BY DEF WriteInt
    <2>2. PICK data \in Seq(Bytes) : data = Fresh(size) /\ Len(data) = size
      BY <2>1, FreshIs
    <2>3. ToMemory(htobe(FromMemory(Reverse(data)), size), size) = data
      BY <2>2, HtobeStores
    <2>4. PICK d : d = writeBytes(buffers[b], data)
      OBVIOUS
    <2>5. /\ buffers' = [buffers EXCEPT ![b] = d] /\ produced' = produced + size
          /\ answer' = << >>
      BY <1>2, <2>2, <2>3, <2>4 DEF WriteInt
    <2>6. BufferOK(buffers[b])
      BY ReadableIs
    <2>7. BufferOK(d) /\ contents(d) = contents(buffers[b]) \o data
      BY <2>4, <2>6, WriteBytesAppends
    <2> QED
      BY <2>1, <2>2, <2>5, <2>7, PutStep
  <1> QED
    BY <1>1, <1>2

LEMMA WriteFromChannelStep ==
    ASSUME BufferIInv, NEW b \in Buffers, NEW length \in Nat, WriteFromChannel(b, length)
    PROVE  BufferIInv' /\ Fifo!FifoNext
  <1>1. PICK n \in 0 .. length :
               /\ produced + n <= MaxProduced
               /\ buffers' = [buffers EXCEPT ![b] = Stored(ensureWritable(buffers[b], length), Fresh(n))]
               /\ produced' = produced + n
    BY DEF WriteFromChannel
  <1>2. n \in Nat /\ n <= length /\ answer' = << >>
    BY DEF WriteFromChannel
  <1>3. PICK e, d : e = ensureWritable(buffers[b], length) /\ d = Stored(e, Fresh(n))
    OBVIOUS
  <1>4. BufferOK(e) /\ contents(e) = contents(buffers[b]) /\ length <= writableBytes(e)
    BY <1>3, EnsureWritableKeeps, ReadableIs
  <1>5. Fresh(n) \in Seq(Bytes) /\ Len(Fresh(n)) = n
    BY <1>1, <1>2, FreshIs
  <1>6. Len(Fresh(n)) <= writableBytes(e)
    <2>1. writableBytes(e) \in Nat
      BY <1>4, ContentsType
    <2> QED
      BY <1>2, <1>4, <1>5, <2>1
  <1>7. BufferOK(d) /\ contents(d) = contents(buffers[b]) \o Fresh(n)
    BY <1>3, <1>4, <1>5, <1>6, StoredAppends
  <1>8. buffers' = [buffers EXCEPT ![b] = d]
    BY <1>1, <1>3
  <1> QED
    BY <1>1, <1>2, <1>7, <1>8, PutStep

LEMMA MemoryType ==
    ASSUME NEW b, BufferOK(b), NEW from \in Nat, NEW n \in Nat
    PROVE  Memory(b, from, n) \in Seq(Bytes) /\ Len(Memory(b, from, n)) = n
  <1>1. PICK a \in Seq(Bytes) : a = b.array /\ \A i \in DOMAIN a : a[i] \in Bytes
    <2>1. b.array \in Seq(Bytes)
      BY DEF BufferOK, BufferRecords
    <2>2. \A i \in DOMAIN b.array : b.array[i] \in Bytes
      BY <2>1, LenProperties, ElementOfSeq
    <2> QED
      BY <2>1, <2>2
  <1>2. Memory(b, from, n) \in [1 .. n -> Bytes]
    BY <1>1, ByteBufferAssumption DEF Memory, Bytes
  <1> QED
    BY <1>2, FunctionIsSeq

LEMMA WriteByteBufferStep ==
    ASSUME BufferIInv, NEW b \in Buffers, NEW other \in Buffers \ {b}, WriteByteBuffer(b, other)
    PROVE  BufferIInv' /\ Fifo!FifoNext
  <1>1. /\ BufferOK(buffers[b]) /\ BufferOK(buffers[other])
        /\ readableBytes(buffers[other]) \in Nat /\ buffers[b].readerIndex \in Nat
        /\ Len(readable[other]) = readableBytes(buffers[other])
        /\ readable[b] = contents(buffers[b]) /\ produced \in Nat
    BY ReadableIs, ContentsType
  <1>2. PICK data : data = Memory(buffers[other], buffers[b].readerIndex, readableBytes(buffers[other]))
    OBVIOUS
  <1>3. data \in Seq(Bytes) /\ Len(data) = Len(readable[other]) /\ Len(data) \in Nat
    BY <1>1, <1>2, MemoryType
  <1>4. PICK d : d = writeBytes(buffers[b], data)
    OBVIOUS
  <1>5. /\ produced + Len(data) <= MaxProduced /\ buffers' = [buffers EXCEPT ![b] = d]
        /\ produced' = produced + Len(data) /\ answer' = << >>
    BY <1>2, <1>4 DEF WriteByteBuffer
  <1>6. BufferOK(d) /\ contents(d) = contents(buffers[b]) \o data
    BY <1>1, <1>3, <1>4, WriteBytesAppends
  <1>7. produced' \in 0 .. MaxProduced
    BY <1>1, <1>3, <1>5, ByteBufferAssumption
  <1>8. /\ BufferIInv' /\ readable' = [readable EXCEPT ![b] = contents(d)]
        /\ readable'[b] = contents(d)
    BY <1>5, <1>6, <1>7, BufferChanges
  <1>9. PICK s, t : s \in Seq(Bytes) /\ s = readable[b] /\ t = s \o data
    BY ReadableIs
  <1>10. readable'[b] = t
    BY <1>1, <1>6, <1>8, <1>9
  <1>11. /\ t \in Seq(Bytes) /\ Len(t) = Len(s) + Len(data) /\ Len(s) \in Nat
         /\ \A i \in 1 .. Len(s) : t[i] = s[i] /\ t[i] \in Bytes
    <2>1. /\ s \o data \in Seq(Bytes) /\ Len(s \o data) = Len(s) + Len(data)
          /\ \A i \in 1 .. Len(s) + Len(data) : (s \o data)[i] = IF i <= Len(s) THEN s[i] ELSE data[i - Len(s)]
      <3>1. s \in Seq(Bytes) /\ data \in Seq(Bytes)
        BY <1>3, <1>9
      <3> QED
        BY <3>1, ConcatProperties
    <2>2. Len(s) \in Nat /\ \A i \in 1 .. Len(s) : s[i] \in Bytes
      BY <1>9, LenProperties, ElementOfSeq
    <2>3. \A i \in 1 .. Len(s) : i \in 1 .. Len(s) + Len(data) /\ i <= Len(s)
      BY <1>3, <2>2
    <2> QED
      BY <1>9, <2>1, <2>2, <2>3
  <1>12. SubSeq(t, 1, Len(s)) = s
    <2>1. PICK u : u = SubSeq(t, 1, Len(s))
      OBVIOUS
    <2>2. u \in Seq(Bytes) /\ Len(u) = Len(s) /\ \A i \in 1 .. Len(s) : u[i] = t[i]
      BY <1>11, <2>1, SubSeqProperties
    <2>3. u = s
      BY <1>9, <1>11, <2>2, SeqEqual
    <2> QED
      BY <2>1, <2>3
  <1>13. \A c \in Buffers \ {b} : readable'[c] = readable[c]
    BY <1>8 DEF readable
  <1>14. Fifo!PutOther(b, other)
    BY <1>3, <1>5, <1>9, <1>10, <1>11, <1>12, <1>13 DEF Fifo!PutOther
  <1> QED
    BY <1>8, <1>14 DEF Fifo!FifoNext

LEMMA ReadBytesStep ==
    ASSUME BufferIInv, NEW b \in Buffers, NEW n \in Nat, ReadBytes(b, n)
    PROVE  BufferIInv' /\ Fifo!FifoNext
  <1>1. BufferOK(buffers[b]) /\ readableBytes(buffers[b]) \in Nat
    BY ReadableIs, ContentsType
  <1>2. CASE readableBytes(buffers[b]) < n
    <2>1. UNCHANGED buffers /\ Silent
      BY <1>2 DEF ReadBytes
    <2> QED
      BY <2>1, ThrowStep
  <1>3. CASE ~ (readableBytes(buffers[b]) < n)
    <2>1. PICK d : /\ d = adjustReaderIndex(buffers[b], n)
                   /\ buffers' = [buffers EXCEPT ![b] = d] /\ produced' = produced
                   /\ answer' = Memory(buffers[b], buffers[b].readerIndex, n)
      BY <1>3 DEF ReadBytes
    <2>2. n <= readableBytes(buffers[b])
      BY <1>1, <1>3
    <2>3. /\ BufferOK(d)
          /\ contents(d) = SubSeq(contents(buffers[b]), n + 1, Len(contents(buffers[b])))
      BY <1>1, <2>1, <2>2, AdjustReaderIndexDrops
    <2>4. answer' = SubSeq(contents(buffers[b]), 1, n)
      BY <1>1, <2>1, <2>2, MemoryReads
    <2> QED
      BY <2>1, <2>2, <2>3, <2>4, DropStep
  <1> QED
    BY <1>2, <1>3

LEMMA ReadIntStep ==
    ASSUME BufferIInv, NEW b \in Buffers, NEW size \in Nat, ReadInt(b, size)
    PROVE  BufferIInv' /\ Fifo!FifoNext
  <1>1. BufferOK(buffers[b]) /\ readableBytes(buffers[b]) \in Nat
    BY ReadableIs, ContentsType
  <1>2. CASE readableBytes(buffers[b]) < size
    <2>1. UNCHANGED buffers /\ Silent
      BY <1>2 DEF ReadInt
    <2> QED
      BY <2>1, ThrowStep
  <1>3. CASE ~ (readableBytes(buffers[b]) < size)
    <2>1. size <= readableBytes(buffers[b])
      BY <1>1, <1>3
    <2>2. PICK bytes \in Seq(Bytes) : /\ bytes = Memory(buffers[b], buffers[b].readerIndex, size)
                                      /\ Len(bytes) = size
                                      /\ bytes = SubSeq(contents(buffers[b]), 1, size)
      BY <1>1, <2>1, MemoryReads
    <2>3. PICK d : /\ d = adjustReaderIndex(buffers[b], size)
                   /\ buffers' = [buffers EXCEPT ![b] = d] /\ produced' = produced
                   /\ answer' = <<betoh(FromMemory(bytes), size)>>
      BY <1>3, <2>2 DEF ReadInt
    <2>4. answer' = <<Fifo!BigEndian(SubSeq(contents(buffers[b]), 1, size))>>
      BY <2>2, <2>3, BetohReads
    <2>5. /\ BufferOK(d)
          /\ contents(d) = SubSeq(contents(buffers[b]), size + 1, Len(contents(buffers[b])))
      BY <1>1, <2>1, <2>3, AdjustReaderIndexDrops
    <2> QED
      BY <2>1, <2>3, <2>4, <2>5, DropStep
  <1> QED
    BY <1>2, <1>3

LEMMA SetReaderIndexStep ==
    ASSUME BufferIInv, NEW b \in Buffers, NEW n \in Nat, SetReaderIndex(b, n)
    PROVE  BufferIInv' /\ Fifo!FifoNext
  <1>1. PICK d : /\ d = setReaderIndex(buffers[b], buffers[b].readerIndex + n)
                 /\ n <= readableBytes(buffers[b])
                 /\ buffers' = [buffers EXCEPT ![b] = d] /\ produced' = produced /\ answer' = << >>
    BY DEF SetReaderIndex, Silent
  <1>2. /\ BufferOK(d)
        /\ contents(d) = SubSeq(contents(buffers[b]), n + 1, Len(contents(buffers[b])))
    BY <1>1, ReadableIs, SetReaderIndexDrops
  <1> QED
    BY <1>1, <1>2, DropStep

LEMMA CopyStep ==
    ASSUME BufferIInv, NEW b \in Buffers, NEW other \in Buffers \ {b}, CopyFrom(b, other)
    PROVE  BufferIInv' /\ Fifo!FifoNext
  <1>1. /\ buffers' = [buffers EXCEPT ![b] = buffers[other]] /\ produced' = produced
        /\ answer' = << >>
    BY DEF CopyFrom, Silent
  <1>2. BufferOK(buffers[other]) /\ readable[other] = contents(buffers[other]) /\ produced' \in 0 .. MaxProduced
    BY <1>1, ReadableIs
  <1>3. BufferIInv' /\ readable' = [readable EXCEPT ![b] = contents(buffers[other])]
    BY <1>1, <1>2, BufferChanges
  <1>4. Fifo!Copy(b, other)
    BY <1>1, <1>2, <1>3 DEF Fifo!Copy
  <1> QED
    BY <1>3, <1>4 DEF Fifo!FifoNext

(* The same for a call that changes two buffers.                           *)
LEMMA BothChange ==
    ASSUME BufferIInv, NEW b \in Buffers, NEW other \in Buffers \ {b},
           NEW d, BufferOK(d), NEW e, BufferOK(e),
           buffers' \in [Buffers -> BufferRecords],
           \A c \in Buffers : buffers'[c] = IF c = other THEN e ELSE IF c = b THEN d ELSE buffers[c],
           produced' = produced
    PROVE  /\ BufferIInv'
           /\ readable' = [readable EXCEPT ![b] = contents(d), ![other] = contents(e)]
  <1>1. \A c \in Buffers : BufferOK(buffers[c])
    BY DEF BufferIInv
  <1>5. \A c \in Buffers : BufferOK(buffers'[c])
    BY <1>1
  <1>6. BufferIInv'
    BY <1>5 DEF BufferIInv, BufferOK
  <1>7. readable' = [c \in Buffers |-> contents(buffers'[c])]
    BY DEF readable, contents, Memory, readableBytes
  <1>8. \A c \in Buffers : contents(buffers'[c])
             = IF c = other THEN contents(e) ELSE IF c = b THEN contents(d) ELSE contents(buffers[c])
    <2> TAKE c \in Buffers
    <2>1. CASE c = other
      BY <2>1
    <2>2. CASE c # other /\ c = b
      BY <2>2
    <2>3. CASE c # other /\ c # b
      BY <2>3
    <2> QED
      BY <2>1, <2>2, <2>3
  <1>9. readable = [c \in Buffers |-> contents(buffers[c])]
    BY DEF readable
  <1>10. readable' = [readable EXCEPT ![b] = contents(d), ![other] = contents(e)]
    BY <1>7, <1>8, <1>9
  <1> QED
    BY <1>6, <1>10

LEMMA MoveStep ==
    ASSUME BufferIInv, NEW b \in Buffers, NEW other \in Buffers \ {b}, MoveFrom(b, other)
    PROVE  BufferIInv' /\ Fifo!FifoNext
  <1>1. PICK e : e = Constructed(0) /\ BufferOK(e) /\ contents(e) = << >>
    BY ConstructedOK
  <1>2. /\ buffers' = [buffers EXCEPT ![b] = buffers[other], ![other] = e] /\ produced' = produced
        /\ answer' = << >>
    BY <1>1 DEF MoveFrom, Silent
  <1>3. BufferOK(buffers[other]) /\ readable[other] = contents(buffers[other])
    BY ReadableIs
  <1>4. /\ BufferIInv'
        /\ readable' = [readable EXCEPT ![b] = contents(buffers[other]), ![other] = contents(e)]
    <2>1. PICK d : d = buffers[other] /\ BufferOK(d)
      BY <1>3
    <2>2. /\ buffers' \in [Buffers -> BufferRecords]
          /\ \A c \in Buffers : buffers'[c] = IF c = other THEN e ELSE IF c = b THEN d ELSE buffers[c]
      BY <1>1, <1>2, <2>1 DEF BufferIInv, BufferOK
    <2>3. produced' = produced /\ BufferOK(d) /\ BufferOK(e)
      BY <1>1, <1>2, <2>1
    <2>4. /\ BufferIInv'
          /\ readable' = [readable EXCEPT ![b] = contents(d), ![other] = contents(e)]
      BY <2>2, <2>3, BothChange
    <2> QED
      BY <2>1, <2>4
  <1>5. Fifo!Move(b, other)
    BY <1>1, <1>2, <1>3, <1>4 DEF Fifo!Move
  <1> QED
    BY <1>4, <1>5 DEF Fifo!FifoNext

LEMMA SwapStep ==
    ASSUME BufferIInv, NEW b \in Buffers, NEW other \in Buffers \ {b}, SwapWith(b, other)
    PROVE  BufferIInv' /\ Fifo!FifoNext
  <1>1. /\ buffers' = [buffers EXCEPT ![b] = buffers[other], ![other] = buffers[b]]
        /\ produced' = produced /\ answer' = << >>
    BY DEF SwapWith, Silent
  <1>2. /\ BufferOK(buffers[other]) /\ readable[other] = contents(buffers[other])
        /\ BufferOK(buffers[b]) /\ readable[b] = contents(buffers[b])
    BY ReadableIs
  <1>3. /\ BufferIInv'
        /\ readable' = [readable EXCEPT ![b] = contents(buffers[other]), ![other] = contents(buffers[b])]
    <2>1. PICK d, e : d = buffers[other] /\ BufferOK(d) /\ e = buffers[b] /\ BufferOK(e)
      BY <1>2
    <2>2. /\ buffers' \in [Buffers -> BufferRecords]
          /\ \A c \in Buffers : buffers'[c] = IF c = other THEN e ELSE IF c = b THEN d ELSE buffers[c]
      BY <1>1, <2>1 DEF BufferIInv, BufferOK
    <2>3. produced' = produced /\ BufferOK(d) /\ BufferOK(e)
      BY <1>1, <2>1
    <2>4. /\ BufferIInv'
          /\ readable' = [readable EXCEPT ![b] = contents(d), ![other] = contents(e)]
      BY <2>2, <2>3, BothChange
    <2> QED
      BY <2>1, <2>4
  <1>4. Fifo!Swap(b, other)
    BY <1>1, <1>2, <1>3 DEF Fifo!Swap
  <1> QED
    BY <1>3, <1>4 DEF Fifo!FifoNext

LEMMA BuffersStart == BufferInit => BufferIInv /\ Fifo!FifoInit
  <1> SUFFICES ASSUME BufferInit
               PROVE  BufferIInv /\ Fifo!FifoInit
    OBVIOUS
  <1>1. PICK e : e = Constructed(0) /\ BufferOK(e) /\ contents(e) = << >>
    BY ConstructedOK
  <1>2. buffers = [b \in Buffers |-> e] /\ produced = 0 /\ answer = << >>
    BY <1>1 DEF BufferInit
  <1>3. e \in BufferRecords
    BY <1>1 DEF BufferOK
  <1>4. BufferIInv
    BY <1>1, <1>2, <1>3, ByteBufferAssumption DEF BufferIInv
  <1>5. readable = [b \in Buffers |-> << >>]
    BY <1>1, <1>2 DEF readable
  <1> QED
    BY <1>2, <1>4, <1>5 DEF Fifo!FifoInit

LEMMA BufferSteps ==
    ASSUME BufferIInv, [BufferNext]_bufferVars
    PROVE  BufferIInv' /\ [Fifo!FifoNext]_(Fifo!fifoVars)
  <1>1. CASE BufferNext
    <2>1. PICK b \in Buffers :
              \/ \E n \in Capacities : Construct(b, n)
              \/ \E n \in DataLengths :
                    \/ ConstructFrom(b, n) \/ WriteBytes(b, n) \/ WriteFromChannel(b, n)
                    \/ ReadBytes(b, n) \/ SetReaderIndex(b, n)
              \/ \E size \in IntSizes : WriteInt(b, size) \/ ReadInt(b, size)
              \/ \E other \in Buffers \ {b} :
                    \/ WriteByteBuffer(b, other) \/ CopyFrom(b, other)
                    \/ MoveFrom(b, other) \/ SwapWith(b, other)
      BY <1>1 DEF BufferNext
    <2>2. ASSUME NEW n \in Capacities, Construct(b, n)
          PROVE  BufferIInv' /\ Fifo!FifoNext
      BY <2>2, ConstructStep, ByteBufferAssumption
    <2>3. ASSUME NEW n \in DataLengths,
                 \/ ConstructFrom(b, n) \/ WriteBytes(b, n) \/ WriteFromChannel(b, n)
                 \/ ReadBytes(b, n) \/ SetReaderIndex(b, n)
          PROVE  BufferIInv' /\ Fifo!FifoNext
      <3>1. n \in Nat
        BY ByteBufferAssumption
      <3> QED
        BY <2>3, <3>1, ConstructFromStep, WriteBytesStep, WriteFromChannelStep, ReadBytesStep,
           SetReaderIndexStep
    <2>4. ASSUME NEW size \in IntSizes, WriteInt(b, size) \/ ReadInt(b, size)
          PROVE  BufferIInv' /\ Fifo!FifoNext
      <3>1. size \in Nat
        BY ByteBufferAssumption
      <3> QED
        BY <2>4, <3>1, WriteIntStep, ReadIntStep
    <2>5. ASSUME NEW other \in Buffers \ {b},
                 \/ WriteByteBuffer(b, other) \/ CopyFrom(b, other)
                 \/ MoveFrom(b, other) \/ SwapWith(b, other)
          PROVE  BufferIInv' /\ Fifo!FifoNext
      BY <2>5, WriteByteBufferStep, CopyStep, MoveStep, SwapStep
    <2>6. BufferIInv' /\ Fifo!FifoNext
      BY <2>1, <2>2, <2>3, <2>4, <2>5
    <2> QED
      BY <2>6
  <1>2. CASE UNCHANGED bufferVars
    <2>1. buffers' = buffers /\ produced' = produced /\ answer' = answer
      BY <1>2 DEF bufferVars
    <2>2. BufferIInv' /\ readable' = readable
      BY <2>1 DEF BufferIInv, readable, contents, Memory, readableBytes, BufferOK
    <2> QED
      BY <2>1, <2>2 DEF Fifo!fifoVars
  <1> QED
    BY <1>1, <1>2

(* Whatever calls are made on ByteBuffers, the reader index never passes   *)
(* the writer index and the writer index never passes the capacity, so no  *)
(* access of ByteBuffer.cpp by a checked length leaves the array.          *)
THEOREM BufferInvariance == BufferSpec => []BufferIInv
  <1>1. BufferInit => BufferIInv
    BY BuffersStart
  <1>2. BufferIInv /\ [BufferNext]_bufferVars => BufferIInv'
    BY BufferSteps
  <1> QED
    BY <1>1, <1>2, PTL DEF BufferSpec

(* ByteBuffer.cpp implements the queue of bytes: what is read is what was  *)
(* written, each byte once and in order, and integers are in network       *)
(* order, through every growth, compaction, copy, move and swap.           *)
THEOREM BufferIsFifo == BufferSpec => FifoSpec
  <1>1. BufferInit => Fifo!FifoInit
    BY BuffersStart
  <1>2. BufferIInv /\ [BufferNext]_bufferVars => [Fifo!FifoNext]_(Fifo!fifoVars)
    BY BufferSteps
  <1> QED
    BY <1>1, <1>2, BufferInvariance, PTL DEF BufferSpec, FifoSpec, Fifo!FifoSpec

-----------------------------------------------------------------------------
(* Numerals.                                                               *)

LEMMA PowersAgree ==
    ASSUME NEW base \in Nat, NEW n \in Nat, NEW m \in Nat
    PROVE  \A i \in Nat : i <= n /\ i <= m => Powers(base, n)[i] = Powers(base, m)[i]
  <1>1. PICK f, g : /\ f = Powers(base, n) /\ f[0] = 1 /\ \A k \in 1 .. n : f[k] = base * f[k - 1]
                    /\ g = Powers(base, m) /\ g[0] = 1 /\ \A k \in 1 .. m : g[k] = base * g[k - 1]
    BY PowersAre
  <1> DEFINE T == {i \in Nat : i <= n /\ i <= m => f[i] = g[i]}
  <1>2. 0 \in T
    BY <1>1
  <1>3. \A i \in Nat : i \in T => i + 1 \in T
    <2> SUFFICES ASSUME NEW i \in Nat, i \in T, i + 1 <= n, i + 1 <= m
                 PROVE  f[i + 1] = g[i + 1]
      OBVIOUS
    <2>1. f[i] = g[i]
      OBVIOUS
    <2>2. PICK k \in Nat : k = i + 1 /\ k - 1 = i /\ k \in 1 .. n /\ k \in 1 .. m
      OBVIOUS
    <2> HIDE DEF T
    <2> QED
      BY <1>1, <2>1, <2>2
  <1>4. Nat \subseteq T
    <2> HIDE DEF T
    <2> QED
      BY <1>2, <1>3, Induction
  <1>5. \A i \in Nat : i <= n /\ i <= m => f[i] = g[i]
    BY <1>4
  <1> QED
    BY <1>1, <1>5

LEMMA PowerIs ==
    ASSUME NEW base \in Nat, base >= 2
    PROVE  /\ Power(base, 0) = 1
           /\ \A n \in Nat : /\ Power(base, n) \in Nat /\ Power(base, n) > n
                             /\ Power(base, n + 1) = base * Power(base, n)
  <1>1. \A n \in Nat : Power(base, n) = Powers(base, n)[n]
    BY DEF Power, Powers
  <1>2. Power(base, 0) = 1
    BY <1>1, PowersAre
  <1>3. \A n \in Nat : Power(base, n) \in Nat /\ Power(base, n) > n
    <2> TAKE n \in Nat
    <2>1. n \in 0 .. n
      OBVIOUS
    <2> QED
      BY <1>1, <2>1, PowersGrow
  <1>4. ASSUME NEW n \in Nat
        PROVE  Power(base, n + 1) = base * Power(base, n)
    <2>1. PICK m \in Nat : m = n + 1 /\ m - 1 = n /\ m \in 1 .. m /\ n <= m
      OBVIOUS
    <2>2. Powers(base, m)[m] = base * Powers(base, m)[m - 1]
      BY <2>1, PowersAre
    <2>3. Powers(base, m)[n] = Powers(base, n)[n]
      BY <2>1, PowersAgree
    <2>4. Power(base, m) = Powers(base, m)[m] /\ Power(base, n) = Powers(base, n)[n]
      BY <1>1
    <2>5. Power(base, m) = base * Power(base, n)
      BY <2>1, <2>2, <2>3, <2>4
    <2> QED
      BY <2>1, <2>5
  <1> QED
    BY <1>2, <1>3, <1>4

(* The number of digits of a value: the least that is enough.              *)
IsPlaces(v, base, k) == /\ k \in Nat \ {0} /\ v < Power(base, k)
                        /\ \A j \in Nat \ {0} : v < Power(base, j) => k <= j

LEMMA PlacesExist ==
    ASSUME NEW base \in Nat, base >= 2, NEW v \in Nat
    PROVE  \E k : IsPlaces(v, base, k)
  <1> DEFINE K == {k \in Nat \ {0} : v < Power(base, k)}
  <1>1. v + 1 \in Nat \ {0} /\ Power(base, v + 1) \in Nat /\ Power(base, v + 1) > v + 1
    BY PowerIs
  <1>2. v + 1 \in K
    BY <1>1
  <1>3. PICK k \in K : \A j \in K : k <= j
    <2>1. K \subseteq Nat
      OBVIOUS
    <2> HIDE DEF K
    <2> QED
      BY <1>2, <2>1, LeastNat
  <1> QED
    BY <1>3 DEF IsPlaces

LEMMA PlacesUnique ==
    ASSUME NEW base, NEW v, NEW k, NEW j, IsPlaces(v, base, k), IsPlaces(v, base, j)
    PROVE  k = j
  BY DEF IsPlaces

LEMMA DivDiv ==
    ASSUME NEW a \in Nat \ {0}, NEW b \in Nat \ {0}, NEW n \in Nat
    PROVE  (n \div a) \div b = n \div (a * b)
  OBVIOUS

LEMMA DivLess ==
    ASSUME NEW a \in Nat \ {0}, NEW b \in Nat, NEW n \in Nat
    PROVE  n \div a < b <=> n < a * b
  OBVIOUS

LEMMA DivType ==
    ASSUME NEW a \in Nat \ {0}, NEW n \in Nat
    PROVE  n \div a \in Nat /\ n % a \in Nat /\ (a >= 2 /\ n >= 1 => n \div a < n)
  OBVIOUS

(* A value of one digit, and a value of more.                              *)
LEMMA PlacesOfDigit ==
    ASSUME NEW base \in Nat, base >= 2, NEW v \in Nat, v < base
    PROVE  IsPlaces(v, base, 1)
  <1>1. Power(base, 0) = 1 /\ Power(base, 0 + 1) = base * Power(base, 0)
    BY PowerIs
  <1>2. 0 + 1 = 1 /\ base * 1 = base
    OBVIOUS
  <1>3. Power(base, 1) = base
    BY <1>1, <1>2
  <1> QED
    BY <1>3 DEF IsPlaces

LEMMA PlacesOfMore ==
    ASSUME NEW base \in Nat, base >= 2, NEW v \in Nat, v >= base, NEW k,
           IsPlaces(v \div base, base, k)
    PROVE  IsPlaces(v, base, k + 1)
  <1>1. /\ k \in Nat \ {0} /\ v \div base < Power(base, k)
        /\ \A j \in Nat \ {0} : v \div base < Power(base, j) => k <= j
    BY DEF IsPlaces
  <1>2. \A j \in Nat : v \div base < Power(base, j) <=> v < Power(base, j + 1)
    <2> TAKE j \in Nat
    <2>1. PICK p \in Nat : p = Power(base, j) /\ Power(base, j + 1) = base * p
      BY PowerIs
    <2>2. v \div base < p <=> v < base * p
      BY DivLess
    <2> QED
      BY <2>1, <2>2
  <1>3. v < Power(base, k + 1)
    BY <1>1, <1>2
  <1>4. ASSUME NEW j \in Nat \ {0}, v < Power(base, j)
        PROVE  k + 1 <= j
    <2>1. CASE j = 1
      <3>1. Power(base, 0) = 1 /\ Power(base, 0 + 1) = base * Power(base, 0)
        BY PowerIs
      <3>2. 0 + 1 = 1 /\ base * 1 = base
        OBVIOUS
      <3>3. Power(base, 1) = base
        BY <3>1, <3>2
      <3> QED
        BY <1>4, <2>1, <3>3
    <2>2. CASE j # 1
      <3>1. PICK i \in Nat \ {0} : j = i + 1
        <4>1. j - 1 \in Nat \ {0} /\ j = (j - 1) + 1
          BY <2>2
        <4> QED
          BY <4>1
      <3>2. v \div base < Power(base, i)
        BY <1>2, <1>4, <3>1
      <3>3. k <= i
        BY <1>1, <3>2
      <3> QED
        BY <1>1, <3>1, <3>3
    <2> QED
      BY <2>1, <2>2
  <1> QED
    BY <1>1, <1>3, <1>4 DEF IsPlaces

Places(v, base) == CHOOSE k : IsPlaces(v, base, k)

(* The digits of v by place value, the least significant one first.        *)
Low(v, base) == [i \in 1 .. Places(v, base) |-> Digit((v \div Power(base, i - 1)) % base)]

LEMMA PlacesIs ==
    ASSUME NEW base \in Nat, base >= 2, NEW v \in Nat
    PROVE  IsPlaces(v, base, Places(v, base)) /\ Places(v, base) \in Nat \ {0}
  BY PlacesExist DEF Places, IsPlaces

LEMMA DigitType ==
    ASSUME NEW base \in Nat, base >= 2, NEW v \in Nat, NEW n \in Nat
    PROVE  Digit((v \div Power(base, n)) % base) \in Nat
  <1>1. PICK p \in Nat \ {0} : p = Power(base, n)
    BY PowerIs
  <1>2. PICK q \in Nat : q = v \div p
    BY DivType
  <1>3. q % base \in Nat
    BY DivType
  <1> QED
    BY <1>1, <1>2, <1>3 DEF Digit

LEMMA LowOfDigit ==
    ASSUME NEW base \in Nat, base >= 2, NEW v \in Nat, v < base
    PROVE  Low(v, base) = <<Digit(v)>>
  <1>1. Places(v, base) = 1
    BY PlacesOfDigit, PlacesIs, PlacesUnique
  <1>2. Power(base, 0) = 1
    BY PowerIs
  <1>3. (v \div 1) % base = v
    OBVIOUS
  <1>4. \A i \in 1 .. 1 : Digit((v \div Power(base, i - 1)) % base) = Digit(v)
    <2> TAKE i \in 1 .. 1
    <2>1. i - 1 = 0
      OBVIOUS
    <2> QED
      BY <1>2, <1>3, <2>1
  <1>5. Low(v, base) = [i \in 1 .. 1 |-> Digit(v)]
    BY <1>1, <1>4 DEF Low
  <1> QED
    BY <1>5

LEMMA LowOfMore ==
    ASSUME NEW base \in Nat, base >= 2, NEW v \in Nat, v >= base
    PROVE  Low(v, base) = <<Digit(v % base)>> \o Low(v \div base, base)
  <1>1. PICK w \in Nat : w = v \div base
    BY DivType
  <1>2. PICK k \in Nat \ {0} : k = Places(w, base) /\ IsPlaces(w, base, k)
    BY PlacesIs
  <1>3. Places(v, base) = k + 1
    <2>1. IsPlaces(v, base, k + 1)
      BY <1>1, <1>2, PlacesOfMore
    <2> QED
      BY <2>1, PlacesIs, PlacesUnique
  <1>4. PICK low : low = Low(w, base)
    OBVIOUS
  <1>5. /\ low = [i \in 1 .. k |-> Digit((w \div Power(base, i - 1)) % base)]
        /\ low \in [1 .. k -> Nat]
    <2>1. low = [i \in 1 .. k |-> Digit((w \div Power(base, i - 1)) % base)]
      BY <1>2, <1>4 DEF Low
    <2>2. \A i \in 1 .. k : Digit((w \div Power(base, i - 1)) % base) \in Nat
      <3> TAKE i \in 1 .. k
      <3>1. i - 1 \in Nat
        OBVIOUS
      <3> QED
        BY <3>1, DigitType
    <2> QED
      BY <2>1, <2>2
  <1>6. low \in Seq(Nat) /\ Len(low) = k
    BY <1>5, FunctionIsSeq
  <1>7. PICK d : d = Digit(v % base)
    OBVIOUS
  <1>8. /\ <<d>> \o low = [i \in 1 .. k + 1 |-> IF i = 1 THEN d ELSE low[i - 1]]
    <2>1. Len(<<d>>) = 1 /\ <<d>>[1] = d
      OBVIOUS
    <2> QED
      BY <1>6, <2>1
  <1>9. ASSUME NEW i \in 1 .. k + 1
        PROVE  Digit((v \div Power(base, i - 1)) % base) = IF i = 1 THEN d ELSE low[i - 1]
    <2>1. CASE i = 1
      <3>1. i - 1 = 0 /\ Power(base, 0) = 1 /\ v \div 1 = v
        BY <2>1, PowerIs
      <3> QED
        BY <1>7, <2>1, <3>1
    <2>2. CASE i # 1
      <3>1. PICK j \in Nat : i = j + 2 /\ i - 1 = j + 1 /\ (i - 1) - 1 = j /\ i - 1 \in 1 .. k
        <4>1. i - 2 \in Nat /\ i = (i - 2) + 2 /\ i - 1 = (i - 2) + 1 /\ (i - 1) - 1 = i - 2
              /\ i - 1 \in 1 .. k
          BY <2>2
        <4> QED
          BY <4>1
      <3>2. PICK p \in Nat \ {0} : p = Power(base, j) /\ Power(base, j + 1) = base * p
        <4>1. /\ Power(base, j) \in Nat /\ Power(base, j) > j
              /\ Power(base, j + 1) = base * Power(base, j)
          BY PowerIs
        <4> QED
          BY <4>1
      <3>3. v \div (base * p) = w \div p
        <4>1. base \in Nat \ {0}
          OBVIOUS
        <4> QED
          BY <1>1, <4>1, DivDiv
      <3>4. low[i - 1] = Digit((w \div p) % base)
        BY <1>5, <3>1, <3>2
      <3> QED
        BY <2>2, <3>1, <3>2, <3>3, <3>4
    <2> QED
      BY <2>1, <2>2
  <1>10. Low(v, base) = [i \in 1 .. k + 1 |-> Digit((v \div Power(base, i - 1)) % base)]
    BY <1>3 DEF Low
  <1>11. Low(v, base) = <<d>> \o low
    BY <1>8, <1>9, <1>10
  <1> QED
    BY <1>1, <1>4, <1>7, <1>11

(* The loop of writeInteger() and writePointer() finds these digits.       *)
LEMMA LastFirstIs ==
    ASSUME NEW base \in Nat, base >= 2, NEW n \in Nat
    PROVE  LastFirst(n, base) = Low(n, base)
  <1> DEFINE Is(f) == f = [v \in 0 .. n |-> IF v < base THEN <<Digit(v)>>
                                            ELSE <<Digit(v % base)>> \o f[v \div base]]
             f == CHOOSE f : Is(f)
             h == [v \in 0 .. n |-> Low(v, base)]
  <1>1. LastFirst(n, base) = f[n]
    BY DEF LastFirst
  <1>2. \A v \in 0 .. n : v >= base => v \div base \in 0 .. n /\ v \div base < v
    <2> TAKE v \in 0 .. n
    <2>1. v \in Nat /\ (v >= base => v >= 1) /\ base \in Nat \ {0}
      OBVIOUS
    <2>2. v \div base \in Nat /\ (v >= 1 => v \div base < v)
      BY <2>1, DivType
    <2> QED
      BY <2>1, <2>2
  <1>3. Is(h)
    <2>1. ASSUME NEW v \in 0 .. n
          PROVE  Low(v, base) = IF v < base THEN <<Digit(v)>>
                                ELSE <<Digit(v % base)>> \o h[v \div base]
      <3>1. CASE v < base
        BY <3>1, LowOfDigit
      <3>2. CASE ~ (v < base)
        <4>1. h[v \div base] = Low(v \div base, base)
          BY <1>2, <3>2
        <4>2. Low(v, base) = <<Digit(v % base)>> \o Low(v \div base, base)
          <5>1. v \in Nat /\ v >= base
            BY <3>2
          <5> QED
            BY <5>1, LowOfMore
        <4> HIDE DEF h
        <4> QED
          BY <3>2, <4>1, <4>2
      <3> QED
        BY <3>1, <3>2
    <2> QED
      BY <2>1
  <1>4. Is(f)
    BY <1>3
  <1>5. \A v \in 0 .. n : f[v] = IF v < base THEN <<Digit(v)>>
                                 ELSE <<Digit(v % base)>> \o f[v \div base]
    BY <1>4
  <1> HIDE DEF f, h
  <1> DEFINE T == {m \in Nat : \A v \in 0 .. n : v < m => f[v] = Low(v, base)}
  <1>6. 0 \in T
    OBVIOUS
  <1>7. \A m \in Nat : m \in T => m + 1 \in T
    <2> SUFFICES ASSUME NEW m \in Nat, m \in T, NEW v \in 0 .. n, v < m + 1
                 PROVE  f[v] = Low(v, base)
      OBVIOUS
    <2>1. CASE v < base
      BY <1>5, <2>1, LowOfDigit
    <2>2. CASE ~ (v < base)
      <3>1. v \div base \in 0 .. n /\ v \div base < m
        BY <1>2, <2>2
      <3>2. f[v \div base] = Low(v \div base, base)
        BY <3>1
      <3>3. f[v] = <<Digit(v % base)>> \o f[v \div base]
        BY <1>5, <2>2
      <3>4. Low(v, base) = <<Digit(v % base)>> \o Low(v \div base, base)
        <4>1. v \in Nat /\ v >= base
          BY <2>2
        <4> QED
          BY <4>1, LowOfMore
      <3> QED
        BY <3>2, <3>3, <3>4
    <2> QED
      BY <2>1, <2>2
  <1>8. Nat \subseteq T
    <2> HIDE DEF T
    <2> QED
      BY <1>6, <1>7, Induction
  <1>9. n + 1 \in T /\ n \in 0 .. n /\ n < n + 1
    <2> HIDE DEF T
    <2> QED
      BY <1>8
  <1>10. f[n] = Low(n, base)
    BY <1>9
  <1> QED
    BY <1>1, <1>10

(* Turned round, they are the numeral, if there is room for its digits.    *)
LEMMA NumeralIs ==
    ASSUME NEW base \in Nat, base >= 2, NEW v \in Nat, NEW m \in 1 .. kMaximumNumberLimit,
           v < Power(base, m), kMaximumNumberLimit \in Nat
    PROVE  /\ Reverse(LastFirst(v, base)) = Numeral(v, base)
           /\ Numeral(v, base) \in Seq(Nat) /\ Len(Numeral(v, base)) \in 1 .. m
  <1> DEFINE enough == {n \in 1 .. kMaximumNumberLimit : v < Power(base, n)}
             places == CHOOSE n \in enough : \A k \in enough : n <= k
  <1>1. PICK k \in Nat \ {0} : k = Places(v, base) /\ IsPlaces(v, base, k)
    BY PlacesIs
  <1>2. k <= m
    BY <1>1 DEF IsPlaces
  <1>3. k \in enough /\ \A j \in enough : k <= j
    BY <1>1, <1>2 DEF IsPlaces
  <1>4. places = k
    <2>1. places \in enough /\ \A j \in enough : places <= j
      <3> HIDE DEF enough
      <3> QED
        BY <1>3
    <2>2. places <= k /\ k <= places /\ places \in Int
      <3> HIDE DEF places
      <3> QED
        BY <1>3, <2>1
    <2> HIDE DEF places
    <2> QED
      BY <2>2
  <1>5. Numeral(v, base) = [i \in 1 .. k |-> Digit((v \div Power(base, k - i)) % base)]
    <2>1. Numeral(v, base)
             = [i \in 1 .. places |-> Digit((v \div Power(base, places - i)) % base)]
      BY DEF Numeral
    <2> HIDE DEF places
    <2> QED
      BY <1>4, <2>1
  <1>6. PICK s : s = Low(v, base)
    OBVIOUS
  <1>7. s = [i \in 1 .. k |-> Digit((v \div Power(base, i - 1)) % base)]
    BY <1>1, <1>6 DEF Low
  <1>8. \A i \in 1 .. k : i - 1 \in Nat /\ k - i + 1 \in 1 .. k /\ (k - i + 1) - 1 = k - i
    OBVIOUS
  <1>9. s \in [1 .. k -> Nat]
    BY <1>7, <1>8, DigitType
  <1>10. s \in Seq(Nat) /\ Len(s) = k
    BY <1>9, FunctionIsSeq
  <1>11. Reverse(s) = [i \in 1 .. k |-> s[k - i + 1]]
    BY <1>10 DEF Reverse
  <1>12. \A i \in 1 .. k : s[k - i + 1] = Digit((v \div Power(base, k - i)) % base)
    BY <1>7, <1>8
  <1>13. Reverse(s) = Numeral(v, base)
    BY <1>5, <1>11, <1>12
  <1>14. Reverse(s) \in Seq(Nat) /\ Len(Reverse(s)) = k
    BY <1>10, ReverseIs
  <1>15. LastFirst(v, base) = s
    BY <1>6, LastFirstIs
  <1> QED
    BY <1>2, <1>13, <1>14, <1>15

-----------------------------------------------------------------------------
(* StackBuffer.  The buffer that holds the line s and nothing else.        *)
Held(s) == [buffer |-> [i \in 1 .. SIZE |-> IF i <= Len(s) THEN s[i] ELSE NUL],
            writerIndex |-> Len(s)]

(* A line of characters that leaves room for a NUL.                        *)
IsLine(s) == s \in Seq(Nat) /\ Len(s) < SIZE

StackIInv == /\ text \in [StackBuffers -> Seq(Nat)]
             /\ \A b \in StackBuffers : IsLine(text[b])
             /\ stack = [b \in StackBuffers |-> Held(text[b])]

LEMMA HeldIs ==
    ASSUME NEW s
    PROVE  /\ Held(s).buffer = [i \in 1 .. SIZE |-> IF i <= Len(s) THEN s[i] ELSE NUL]
           /\ Held(s).writerIndex = Len(s)
  BY DEF Held

LEMMA HeldEmpty ==
    Empty = Held(<< >>)
  <1>1. SIZE \in Nat
    BY StackBufferAssumption
  <1>2. Len(<< >>) = 0 /\ \A i \in 1 .. SIZE : ~ (i <= 0)
    BY <1>1
  <1>3. Nuls(SIZE) = [i \in 1 .. SIZE |-> IF i <= Len(<< >>) THEN << >>[i] ELSE NUL]
    BY <1>2 DEF Nuls
  <1> QED
    BY <1>2, <1>3 DEF Empty, Held

LEMMA HeldLine ==
    ASSUME NEW s, IsLine(s)
    PROVE  lineOf(Held(s)) = s
  <1>1. PICK n \in Nat : n = Len(s)
    BY LenProperties DEF IsLine
  <1>2. SIZE \in Nat /\ n <= SIZE
    BY <1>1, StackBufferAssumption DEF IsLine
  <1>3. PICK h : h = Held(s).buffer
    OBVIOUS
  <1>4. h = [i \in 1 .. SIZE |-> IF i <= n THEN s[i] ELSE NUL]
    BY <1>1, <1>3, HeldIs
  <1>5. SubSeq(h, 1, n) = [i \in 1 .. n |-> h[i]]
    BY <1>2
  <1>6. \A i \in 1 .. n : h[i] = s[i]
    BY <1>2, <1>4
  <1>7. s = [i \in 1 .. n |-> s[i]]
    BY <1>1, LenProperties DEF IsLine
  <1> QED
    BY <1>1, <1>3, <1>5, <1>6, <1>7, HeldIs DEF lineOf

LEMMA HeldStored ==
    ASSUME NEW s, IsLine(s), NEW d \in Seq(Nat), Len(s) + Len(d) < SIZE
    PROVE  StoredOnStack(Held(s), d) = Held(s \o d) /\ IsLine(s \o d)
  <1>1. PICK n \in Nat, m \in Nat : n = Len(s) /\ m = Len(d)
    BY LenProperties DEF IsLine
  <1>2. SIZE \in Nat /\ n + m < SIZE
    BY <1>1, StackBufferAssumption
  <1>3. PICK t : t = s \o d
    OBVIOUS
  <1>4. /\ t \in Seq(Nat) /\ Len(t) = n + m
        /\ \A i \in 1 .. n + m : t[i] = IF i <= n THEN s[i] ELSE d[i - n]
    BY <1>1, <1>3, ConcatProperties DEF IsLine
  <1>5. PICK h : h = Held(s).buffer
    OBVIOUS
  <1>6. h = [i \in 1 .. SIZE |-> IF i <= n THEN s[i] ELSE NUL]
    BY <1>1, <1>5, HeldIs
  <1>7. ASSUME NEW i \in 1 .. SIZE
        PROVE  (IF i - n \in 1 .. m THEN d[i - n] ELSE h[i]) = (IF i <= n + m THEN t[i] ELSE NUL)
    <2>1. h[i] = IF i <= n THEN s[i] ELSE NUL
      BY <1>6
    <2>2. CASE i <= n
      <3>1. i \in 1 .. n + m /\ ~ (i - n \in 1 .. m)
        BY <2>2
      <3> QED
        BY <1>4, <2>1, <2>2, <3>1
    <2>3. CASE i > n /\ i <= n + m
      <3>1. i \in 1 .. n + m /\ i - n \in 1 .. m /\ ~ (i <= n)
        BY <2>3
      <3> QED
        BY <1>4, <2>3, <3>1
    <2>4. CASE i > n + m
      <3>1. ~ (i - n \in 1 .. m) /\ ~ (i <= n) /\ ~ (i <= n + m)
        BY <2>4
      <3> QED
        BY <2>1, <3>1
    <2> QED
      BY <2>2, <2>3, <2>4
  <1>8. [i \in 1 .. SIZE |-> IF i - n \in 1 .. m THEN d[i - n] ELSE h[i]]
          = [i \in 1 .. SIZE |-> IF i <= n + m THEN t[i] ELSE NUL]
    BY <1>7
  <1>9. StoredOnStack(Held(s), d)
          = [buffer |-> [i \in 1 .. SIZE |-> IF i - n \in 1 .. m THEN d[i - n] ELSE h[i]],
             writerIndex |-> n + m]
    BY <1>1, <1>5, HeldIs DEF StoredOnStack
  <1>10. Held(t) = [buffer |-> [i \in 1 .. SIZE |-> IF i <= n + m THEN t[i] ELSE NUL],
                    writerIndex |-> n + m]
    BY <1>4 DEF Held
  <1> QED
    BY <1>2, <1>3, <1>4, <1>8, <1>9, <1>10 DEF IsLine

(* What was stored last can be read back from the array.                   *)
LEMMA HeldSlice ==
    ASSUME NEW s, IsLine(s), NEW d \in Seq(Nat), Len(s) + Len(d) < SIZE
    PROVE  SubSeq(Held(s \o d).buffer, Len(s) + 1, Len(s) + Len(d)) = d
  <1>1. PICK n \in Nat, m \in Nat : n = Len(s) /\ m = Len(d)
    BY LenProperties DEF IsLine
  <1>2. SIZE \in Nat /\ n + m < SIZE
    BY <1>1, StackBufferAssumption
  <1>3. PICK t : t = s \o d
    OBVIOUS
  <1>4. /\ Len(t) = n + m
        /\ \A i \in 1 .. n + m : t[i] = IF i <= n THEN s[i] ELSE d[i - n]
    BY <1>1, <1>3, ConcatProperties DEF IsLine
  <1>5. PICK h : h = Held(t).buffer
    OBVIOUS
  <1>6. h = [i \in 1 .. SIZE |-> IF i <= n + m THEN t[i] ELSE NUL]
    <2>1. h = [i \in 1 .. SIZE |-> IF i <= Len(t) THEN t[i] ELSE NUL]
      BY <1>5, HeldIs
    <2> QED
      BY <1>4, <2>1
  <1>7. SubSeq(h, n + 1, n + m) = [i \in 1 .. m |-> h[n + i]]
    <2>1. (n + m) - (n + 1) + 1 = m /\ \A i \in 1 .. m : (n + 1) + i - 1 = n + i
      OBVIOUS
    <2>2. SubSeq(h, n + 1, n + m) = [i \in 1 .. (n + m) - (n + 1) + 1 |-> h[(n + 1) + i - 1]]
      BY <1>2
    <2> QED
      BY <2>1, <2>2
  <1>8. \A i \in 1 .. m : h[n + i] = d[i]
    <2> TAKE i \in 1 .. m
    <2>1. n + i \in 1 .. SIZE /\ n + i \in 1 .. n + m /\ ~ (n + i <= n) /\ (n + i) - n = i
          /\ n + i <= n + m
      BY <1>2
    <2> QED
      BY <1>4, <1>6, <2>1
  <1>9. d = [i \in 1 .. m |-> d[i]]
    BY <1>1, LenProperties
  <1> QED
    BY <1>1, <1>3, <1>5, <1>7, <1>8, <1>9

LEMMA HeldWritten ==
    ASSUME NEW s, IsLine(s), NEW d \in Seq(Nat)
    PROVE  LET after == writeStackBytes(Held(s), d)
           IN after = Held(s) \/ (after = Held(s \o d) /\ IsLine(s \o d))
  <1>1. Len(s) \in Nat /\ Len(d) \in Nat /\ SIZE \in Nat
    BY LenProperties, StackBufferAssumption DEF IsLine
  <1>2. SIZE - Len(s) > Len(d) => Len(s) + Len(d) < SIZE
    BY <1>1
  <1> QED
    BY <1>2, HeldIs, HeldStored DEF writeStackBytes, stackWritableBytes

(* Concatenation, as a function.                                           *)
LEMMA ConcatDef ==
    ASSUME NEW S, NEW s \in Seq(S), NEW t \in Seq(S)
    PROVE  s \o t = [i \in 1 .. Len(s) + Len(t) |-> IF i <= Len(s) THEN s[i] ELSE t[i - Len(s)]]
  <1>1. PICK u, n : u = s \o t /\ n = Len(s) + Len(t)
    OBVIOUS
  <1>2. /\ u \in Seq(S) /\ Len(u) = n
        /\ \A i \in 1 .. n : u[i] = IF i <= Len(s) THEN s[i] ELSE t[i - Len(s)]
    BY <1>1, ConcatProperties
  <1>3. u = [i \in 1 .. n |-> u[i]]
    BY <1>2, LenProperties
  <1> QED
    BY <1>1, <1>2, <1>3

(* The array is the line and then NUL up to its end.                       *)
LEMMA HeldWhole ==
    ASSUME NEW s, IsLine(s)
    PROVE  Held(s).buffer = s \o Nuls(SIZE - Len(s))
  <1>1. PICK n \in Nat : n = Len(s)
    BY LenProperties DEF IsLine
  <1>2. PICK m \in Nat : m = SIZE - n /\ n + m = SIZE
    <2>1. SIZE \in Nat /\ n < SIZE
      BY <1>1, StackBufferAssumption DEF IsLine
    <2>2. SIZE - n \in Nat /\ n + (SIZE - n) = SIZE
      BY <2>1
    <2> QED
      BY <2>2
  <1>3. PICK z : z = Nuls(m)
    OBVIOUS
  <1>4. z = [i \in 1 .. m |-> NUL] /\ z \in [1 .. m -> Nat]
    BY <1>3 DEF Nuls, NUL
  <1>5. z \in Seq(Nat) /\ Len(z) = m
    BY <1>4, FunctionIsSeq
  <1>6. s \in Seq(Nat)
    BY DEF IsLine
  <1>7. s \o z = [i \in 1 .. n + m |-> IF i <= n THEN s[i] ELSE z[i - n]]
    <2>1. s \o z = [i \in 1 .. Len(s) + Len(z) |-> IF i <= Len(s) THEN s[i] ELSE z[i - Len(s)]]
      BY <1>5, <1>6, ConcatDef
    <2> QED
      BY <1>1, <1>5, <2>1
  <1>8. \A i \in 1 .. n + m : ~ (i <= n) => z[i - n] = NUL
    BY <1>4
  <1>9. [i \in 1 .. n + m |-> IF i <= n THEN s[i] ELSE z[i - n]]
          = [i \in 1 .. n + m |-> IF i <= n THEN s[i] ELSE NUL]
    BY <1>8
  <1> QED
    <2>1. Held(s).buffer = [i \in 1 .. SIZE |-> IF i <= n THEN s[i] ELSE NUL]
      BY <1>1, HeldIs
    <2>2. Nuls(SIZE - Len(s)) = z
      BY <1>1, <1>2, <1>3
    <2> QED
      BY <1>2, <1>7, <1>9, <2>1, <2>2

LEMMA HeldSwapped ==
    ASSUME NEW s, NEW t, IsLine(s), IsLine(t)
    PROVE  swap(Held(s), Held(t)) = Held(t).buffer
  <1>1. Len(s) \in Nat /\ Len(t) \in Nat /\ SIZE \in Nat
    BY LenProperties, StackBufferAssumption DEF IsLine
  <1>2. PICK g, h : g = Held(s).buffer /\ h = Held(t).buffer
    OBVIOUS
  <1>3. /\ g = [i \in 1 .. SIZE |-> IF i <= Len(s) THEN s[i] ELSE NUL]
        /\ h = [i \in 1 .. SIZE |-> IF i <= Len(t) THEN t[i] ELSE NUL]
    BY <1>2, HeldIs
  <1>4. swap(Held(s), Held(t))
          = [i \in 1 .. SIZE |-> IF i <= Len(s) \/ i <= Len(t) THEN h[i] ELSE g[i]]
    BY <1>2, HeldIs DEF swap
  <1>5. \A i \in 1 .. SIZE : ~ (i <= Len(s) \/ i <= Len(t)) => g[i] = NUL /\ h[i] = NUL
    BY <1>3
  <1>6. h = [i \in 1 .. SIZE |-> h[i]]
    BY <1>3
  <1>7. [i \in 1 .. SIZE |-> IF i <= Len(s) \/ i <= Len(t) THEN h[i] ELSE g[i]]
          = [i \in 1 .. SIZE |-> h[i]]
    BY <1>5
  <1> QED
    BY <1>2, <1>4, <1>6, <1>7

LEMMA HeldCleared ==
    ASSUME NEW s, IsLine(s)
    PROVE  [buffer |-> [i \in 1 .. SIZE |-> IF i <= Held(s).writerIndex THEN NUL
                                            ELSE Held(s).buffer[i]],
            writerIndex |-> 0] = Held(<< >>)
  <1>1. PICK h : h = Held(s).buffer
    OBVIOUS
  <1>2. h = [i \in 1 .. SIZE |-> IF i <= Len(s) THEN s[i] ELSE NUL]
    BY <1>1, HeldIs
  <1>3. \A i \in 1 .. SIZE : (IF i <= Len(s) THEN NUL ELSE h[i]) = NUL
    BY <1>2
  <1>4. [i \in 1 .. SIZE |-> IF i <= Len(s) THEN NUL ELSE h[i]] = Nuls(SIZE)
    BY <1>3 DEF Nuls
  <1>5. Empty = [buffer |-> Nuls(SIZE), writerIndex |-> 0]
    BY DEF Empty
  <1> QED
    BY <1>1, <1>4, <1>5, HeldEmpty, HeldIs

LEMMA HeldCopied ==
    ASSUME NEW s, IsLine(s)
    PROVE  Copied(Held(s)) = Held(s)
  <1>1. IsLine(<< >>) /\ s \in Seq(Nat) /\ Len(<< >>) = 0
    BY EmptySeq, StackBufferAssumption DEF IsLine
  <1>2. Len(<< >>) + Len(s) < SIZE
    BY <1>1, LenProperties DEF IsLine
  <1>3. StoredOnStack(Held(<< >>), s) = Held(<< >> \o s)
    BY <1>1, <1>2, HeldStored
  <1>4. << >> \o s = s
    BY <1>1, ConcatEmptySeq
  <1> QED
    BY <1>3, <1>4, HeldEmpty, HeldLine DEF Copied

LEMMA LineOf ==
    ASSUME StackIInv, NEW b \in StackBuffers
    PROVE  IsLine(text[b]) /\ stack[b] = Held(text[b]) /\ text[b] \in Seq(Nat)
  BY DEF StackIInv

(* A step that gives one buffer, or two, lines of their own.               *)
LEMMA OneLine ==
    ASSUME StackIInv, NEW b \in StackBuffers, NEW s, IsLine(s),
           stack' = [stack EXCEPT ![b] = Held(s)], text' = [text EXCEPT ![b] = s]
    PROVE  StackIInv'
  <1>1. s \in Seq(Nat)
    BY DEF IsLine
  <1>2. text' \in [StackBuffers -> Seq(Nat)]
    BY <1>1 DEF StackIInv
  <1>3. \A c \in StackBuffers : text'[c] = IF c = b THEN s ELSE text[c]
    BY DEF StackIInv
  <1>4. \A c \in StackBuffers : IsLine(text'[c])
    BY <1>3 DEF StackIInv
  <1>5. stack' = [c \in StackBuffers |-> Held(text'[c])]
    <2>1. PICK t, u : t = text' /\ u = stack'
      OBVIOUS
    <2>2. stack = [c \in StackBuffers |-> Held(text[c])]
      BY DEF StackIInv
    <2>3. u = [c \in StackBuffers |-> IF c = b THEN Held(s) ELSE Held(text[c])]
      BY <2>1, <2>2
    <2>4. \A c \in StackBuffers : (IF c = b THEN Held(s) ELSE Held(text[c])) = Held(t[c])
      BY <1>3, <2>1
    <2>5. u = [c \in StackBuffers |-> Held(t[c])]
      BY <2>3, <2>4
    <2> QED
      BY <2>1, <2>5
  <1> QED
    BY <1>2, <1>4, <1>5 DEF StackIInv, IsLine

LEMMA TwoLines ==
    ASSUME StackIInv, NEW b \in StackBuffers, NEW o \in StackBuffers \ {b}, NEW s, NEW t,
           IsLine(s), IsLine(t),
           stack' = [c \in StackBuffers |->
                       IF c = b THEN Held(s) ELSE IF c = o THEN Held(t) ELSE stack[c]],
           text' = [c \in StackBuffers |-> IF c = b THEN s ELSE IF c = o THEN t ELSE text[c]]
    PROVE  StackIInv'
  <1>1. s \in Seq(Nat) /\ t \in Seq(Nat)
    BY DEF IsLine
  <1>2. text' \in [StackBuffers -> Seq(Nat)]
    BY <1>1 DEF StackIInv
  <1>3. \A c \in StackBuffers : IsLine(text'[c])
    BY DEF StackIInv
  <1>4. \A c \in StackBuffers :
           (IF c = b THEN Held(s) ELSE IF c = o THEN Held(t) ELSE stack[c]) = Held(text'[c])
    BY LineOf
  <1>5. stack' = [c \in StackBuffers |-> Held(text'[c])]
    BY <1>4
  <1> QED
    BY <1>2, <1>3, <1>5 DEF StackIInv, IsLine

LEMMA PutsStep ==
    ASSUME StackIInv, NEW b \in StackBuffers, NEW after, NEW piece, Puts(b, after, piece),
           after = stack[b] \/ (after = Held(text[b] \o piece) /\ IsLine(text[b] \o piece))
    PROVE  StackIInv'
  <1>1. CASE after = stack[b]
    <2>1. stack' = [stack EXCEPT ![b] = Held(text[b])] /\ text' = [text EXCEPT ![b] = text[b]]
      BY <1>1, LineOf DEF Puts
    <2> QED
      BY <2>1, LineOf, OneLine
  <1>2. CASE after # stack[b]
    <2>1. /\ stack' = [stack EXCEPT ![b] = Held(text[b] \o piece)]
          /\ text' = [text EXCEPT ![b] = text[b] \o piece]
      BY <1>2 DEF Puts
    <2> QED
      BY <1>2, <2>1, OneLine
  <1> QED
    BY <1>1, <1>2

(* Room for the longest number is room for the digits of each.             *)
LEMMA RoomForNumber ==
    ASSUME NEW s, IsLine(s), NEW d \in Seq(Nat), Len(d) <= kMaximumNumberLimit,
           stackWritableBytes(Held(s)) > kMaximumNumberLimit
    PROVE  StoredOnStack(Held(s), d) = Held(s \o d) /\ IsLine(s \o d) /\ Len(s) + Len(d) < SIZE
  <1>1. Len(s) \in Nat /\ Len(d) \in Nat /\ SIZE \in Nat /\ kMaximumNumberLimit \in Nat
    BY LenProperties, StackBufferAssumption DEF IsLine
  <1>2. SIZE - Len(s) > kMaximumNumberLimit
    BY HeldIs DEF stackWritableBytes
  <1>3. Len(s) + Len(d) < SIZE
    BY <1>1, <1>2
  <1> QED
    BY <1>3, HeldStored

LEMMA WriteTextStep ==
    ASSUME StackIInv, NEW b \in StackBuffers, NEW n \in TextLengths, WriteText(b, n)
    PROVE  StackIInv'
  <1>1. PICK data : data = [i \in 1 .. n |-> Letter]
    OBVIOUS
  <1>2. n \in Nat
    BY StackBufferAssumption
  <1>3. data \in [1 .. n -> Nat]
    BY <1>1 DEF Letter
  <1>4. data \in Seq(Nat)
    BY <1>2, <1>3, FunctionIsSeq
  <1>5. PICK after : after = writeStackBytes(stack[b], data)
    OBVIOUS
  <1>6. Puts(b, after, data)
    BY <1>1, <1>5 DEF WriteText
  <1>7. after = Held(text[b]) \/ (after = Held(text[b] \o data) /\ IsLine(text[b] \o data))
    BY <1>4, <1>5, LineOf, HeldWritten
  <1> QED
    BY <1>6, <1>7, LineOf, PutsStep

LEMMA WriteStreamStep ==
    ASSUME StackIInv, NEW b \in StackBuffers, NEW o \in StackBuffers, WriteStream(b, o)
    PROVE  StackIInv'
  <1>1. PICK after : after = writeStackBytes(stack[b], lineOf(stack[o]))
    OBVIOUS
  <1>2. lineOf(stack[o]) = text[o] /\ text[o] \in Seq(Nat)
    BY LineOf, HeldLine
  <1>3. Puts(b, after, text[o])
    BY <1>1 DEF WriteStream
  <1>4. after = Held(text[b]) \/ (after = Held(text[b] \o text[o]) /\ IsLine(text[b] \o text[o]))
    BY <1>1, <1>2, LineOf, HeldWritten
  <1> QED
    BY <1>3, <1>4, LineOf, PutsStep

(* A negative value leaves one character or two in the array.              *)
LEMMA WriteNegative ==
    ASSUME StackIInv, NEW b \in StackBuffers, NEW value \in Numbers, value < 0,
           WriteInteger(b, value)
    PROVE  StackIInv'
  <1>1. PICK tmp : tmp = IF (-value) \div 10 > 0 THEN <<Stray, Minus>> ELSE <<Stray>>
    OBVIOUS
  <1>2. tmp \in Seq(Nat) /\ Len(tmp) <= 2
    BY <1>1 DEF Stray, Minus
  <1>3. PICK d : d = Reverse(tmp)
    OBVIOUS
  <1>4. d \in Seq(Nat) /\ Len(d) <= 2
    BY <1>2, <1>3, ReverseIs
  <1>5. PICK after : after = writeInteger(stack[b], value)
    OBVIOUS
  <1>6. kMaximumNumberLimit \in Nat /\ Len(d) \in Nat /\ Len(d) <= kMaximumNumberLimit
    BY <1>4, LenProperties, StackBufferAssumption
  <1>7. value \in Int /\ ~ (value >= 0)
    <2>1. Power(10, kMaximumNumberLimit) \in Nat
      BY <1>6, PowerIs
    <2>2. Numbers \subseteq Int
      BY <2>1, StackBufferAssumption
    <2> QED
      BY <2>2
  <1>8. after = IF stackWritableBytes(stack[b]) > kMaximumNumberLimit
                THEN StoredOnStack(stack[b], d) ELSE stack[b]
    BY <1>1, <1>3, <1>5, <1>7 DEF writeInteger
  <1>9. PICK piece : piece = SubSeq(after.buffer, stack[b].writerIndex + 1, after.writerIndex)
    OBVIOUS
  <1>10. Puts(b, after, piece)
    BY <1>5, <1>7, <1>9 DEF WriteInteger
  <1>11. CASE ~ (stackWritableBytes(stack[b]) > kMaximumNumberLimit)
    BY <1>8, <1>10, <1>11, PutsStep
  <1>12. CASE stackWritableBytes(stack[b]) > kMaximumNumberLimit
    <2>1. IsLine(text[b]) /\ stack[b] = Held(text[b])
      BY LineOf
    <2>2. after = StoredOnStack(Held(text[b]), d)
      BY <1>8, <1>12, <2>1
    <2>3. /\ after = Held(text[b] \o d) /\ IsLine(text[b] \o d) /\ Len(text[b]) + Len(d) < SIZE
      BY <1>4, <1>6, <1>12, <2>1, <2>2, RoomForNumber
    <2>4. SubSeq(Held(text[b] \o d).buffer, Len(text[b]) + 1, Len(text[b]) + Len(d)) = d
      BY <1>4, <2>1, <2>3, HeldSlice
    <2>5. stack[b].writerIndex = Len(text[b]) /\ after.writerIndex = Len(text[b]) + Len(d)
      <3>1. Len(text[b] \o d) = Len(text[b]) + Len(d)
        BY <1>4, LineOf, ConcatProperties
      <3> QED
        BY <2>1, <2>3, <3>1, HeldIs
    <2>6. piece = d
      BY <1>9, <2>3, <2>4, <2>5
    <2> QED
      BY <1>10, <2>3, <2>6, PutsStep
  <1> QED
    BY <1>11, <1>12

LEMMA WriteNatural ==
    ASSUME StackIInv, NEW b \in StackBuffers, NEW value \in Numbers, value >= 0,
           WriteInteger(b, value)
    PROVE  StackIInv'
  <1>1. kMaximumNumberLimit \in Nat /\ kMaximumNumberLimit \in 1 .. kMaximumNumberLimit
    BY StackBufferAssumption
  <1>2. value \in Nat /\ value < Power(10, kMaximumNumberLimit)
    <2>1. PICK p \in Nat : p = Power(10, kMaximumNumberLimit)
      BY <1>1, PowerIs
    <2>2. value \in -p .. p - 1
      BY <2>1, StackBufferAssumption
    <2> QED
      BY <2>1, <2>2
  <1>3. PICK d : d = Numeral(value, 10)
    OBVIOUS
  <1>4. Reverse(LastFirst(value, 10)) = d /\ d \in Seq(Nat) /\ Len(d) <= kMaximumNumberLimit
    <2>1. 10 \in Nat /\ 10 >= 2
      OBVIOUS
    <2>2. /\ Reverse(LastFirst(value, 10)) = Numeral(value, 10)
          /\ Numeral(value, 10) \in Seq(Nat) /\ Len(Numeral(value, 10)) \in 1 .. kMaximumNumberLimit
      BY <1>1, <1>2, <2>1, NumeralIs
    <2> QED
      BY <1>1, <1>3, <2>2
  <1>5. PICK after : after = writeInteger(stack[b], value)
    OBVIOUS
  <1>6. after = IF stackWritableBytes(stack[b]) > kMaximumNumberLimit
                THEN StoredOnStack(stack[b], d) ELSE stack[b]
    BY <1>4, <1>5 DEF writeInteger
  <1>7. Puts(b, after, d)
    BY <1>3, <1>5 DEF WriteInteger
  <1>8. after = stack[b] \/ (after = Held(text[b] \o d) /\ IsLine(text[b] \o d))
    BY <1>4, <1>6, LineOf, RoomForNumber
  <1> QED
    BY <1>7, <1>8, PutsStep

LEMMA WritePointerStep ==
    ASSUME StackIInv, NEW b \in StackBuffers, NEW value \in Pointers, WritePointer(b, value)
    PROVE  StackIInv'
  <1>1. PICK m \in Nat : /\ m = kMaximumNumberLimit - 2 /\ m + 2 = kMaximumNumberLimit
                         /\ m \in 1 .. kMaximumNumberLimit /\ kMaximumNumberLimit \in Nat
    <2>1. kMaximumNumberLimit \in Nat /\ kMaximumNumberLimit >= 3
      BY StackBufferAssumption
    <2>2. /\ kMaximumNumberLimit - 2 \in Nat /\ (kMaximumNumberLimit - 2) + 2 = kMaximumNumberLimit
          /\ kMaximumNumberLimit - 2 \in 1 .. kMaximumNumberLimit
      BY <2>1
    <2> QED
      BY <2>1, <2>2
  <1>2. value \in Nat /\ value < Power(16, m)
    <2>1. PICK p \in Nat : p = Power(16, m)
      BY PowerIs
    <2>2. value \in 0 .. p - 1
      BY <1>1, <2>1, StackBufferAssumption
    <2> QED
      BY <2>1, <2>2
  <1>3. PICK w : w = Numeral(value, 16)
    OBVIOUS
  <1>4. Reverse(LastFirst(value, 16)) = w /\ w \in Seq(Nat) /\ Len(w) \in 1 .. m
    <2>1. 16 \in Nat /\ 16 >= 2
      OBVIOUS
    <2>2. /\ Reverse(LastFirst(value, 16)) = Numeral(value, 16)
          /\ Numeral(value, 16) \in Seq(Nat) /\ Len(Numeral(value, 16)) \in 1 .. m
      BY <1>1, <1>2, <2>1, NumeralIs
    <2> QED
      BY <1>1, <1>3, <2>2
  <1>5. PICK d : d = <<Digit(0), LetterX>> \o w
    OBVIOUS
  <1>6. d \in Seq(Nat) /\ Len(d) <= kMaximumNumberLimit
    <2>1. <<Digit(0), LetterX>> \in Seq(Nat) /\ Len(<<Digit(0), LetterX>>) = 2
      BY DEF Digit, LetterX
    <2>2. d \in Seq(Nat) /\ Len(d) = 2 + Len(w)
      BY <1>4, <1>5, <2>1, ConcatProperties
    <2> QED
      BY <1>1, <1>4, <2>2
  <1>7. PICK after : after = writePointer(stack[b], value)
    OBVIOUS
  <1>8. after = IF stackWritableBytes(stack[b]) > kMaximumNumberLimit
                THEN StoredOnStack(stack[b], d) ELSE stack[b]
    BY <1>4, <1>5, <1>7 DEF writePointer
  <1>9. Puts(b, after, d)
    BY <1>3, <1>5, <1>7 DEF WritePointer
  <1>10. after = stack[b] \/ (after = Held(text[b] \o d) /\ IsLine(text[b] \o d))
    BY <1>6, <1>8, LineOf, RoomForNumber
  <1> QED
    BY <1>9, <1>10, PutsStep

LEMMA CopyStackStep ==
    ASSUME StackIInv, NEW b \in StackBuffers, NEW o \in StackBuffers, CopyStack(b, o)
    PROVE  StackIInv'
  <1>1. Copied(stack[o]) = Held(text[o]) /\ IsLine(text[o])
    BY LineOf, HeldCopied
  <1>2. stack' = [stack EXCEPT ![b] = Held(text[o])] /\ text' = [text EXCEPT ![b] = text[o]]
    BY <1>1 DEF CopyStack
  <1> QED
    BY <1>1, <1>2, OneLine

LEMMA ExceptTwo ==
    ASSUME NEW B, NEW f, f = [c \in B |-> f[c]], NEW b \in B, NEW o \in B \ {b}, NEW x, NEW y
    PROVE  [f EXCEPT ![b] = x, ![o] = y]
             = [c \in B |-> IF c = b THEN x ELSE IF c = o THEN y ELSE f[c]]
  OBVIOUS

LEMMA MoveStackStep ==
    ASSUME StackIInv, NEW b \in StackBuffers, NEW o \in StackBuffers \ {b}, MoveStack(b, o)
    PROVE  StackIInv'
  <1>1. IsLine(text[o]) /\ stack[o] = Held(text[o]) /\ Copied(stack[o]) = Held(text[o])
    BY LineOf, HeldCopied
  <1>2. IsLine(<< >>)
    BY EmptySeq, StackBufferAssumption DEF IsLine
  <1>3. PICK cleared : cleared = [buffer |-> [i \in 1 .. SIZE |-> IF i <= stack[o].writerIndex THEN NUL
                                                                  ELSE stack[o].buffer[i]],
                                  writerIndex |-> 0]
    OBVIOUS
  <1>4. cleared = Held(<< >>)
    BY <1>1, <1>3, HeldCleared
  <1>5. /\ stack' = [c \in StackBuffers |-> IF c = b THEN Copied(stack[o])
                                            ELSE IF c = o THEN cleared ELSE stack[c]]
        /\ text' = [c \in StackBuffers |-> IF c = b THEN text[o] ELSE IF c = o THEN << >> ELSE text[c]]
    <2>1. /\ stack = [c \in StackBuffers |-> stack[c]]
          /\ text = [c \in StackBuffers |-> text[c]]
      BY DEF StackIInv
    <2>2. /\ stack' = [stack EXCEPT ![b] = Copied(stack[o]), ![o] = cleared]
          /\ text' = [text EXCEPT ![b] = text[o], ![o] = << >>]
      BY <1>3 DEF MoveStack
    <2>3. [stack EXCEPT ![b] = Copied(stack[o]), ![o] = cleared]
             = [c \in StackBuffers |-> IF c = b THEN Copied(stack[o]) ELSE IF c = o THEN cleared ELSE stack[c]]
      BY <2>1, ExceptTwo
    <2>4. [text EXCEPT ![b] = text[o], ![o] = << >>]
             = [c \in StackBuffers |-> IF c = b THEN text[o] ELSE IF c = o THEN << >> ELSE text[c]]
      BY <2>1, ExceptTwo
    <2> QED
      BY <2>2, <2>3, <2>4
  <1>6. stack' = [c \in StackBuffers |-> IF c = b THEN Held(text[o])
                                         ELSE IF c = o THEN Held(<< >>) ELSE stack[c]]
    BY <1>1, <1>4, <1>5
  <1> QED
    BY <1>1, <1>2, <1>5, <1>6, TwoLines

LEMMA SwapStacksStep ==
    ASSUME StackIInv, NEW b \in StackBuffers, NEW o \in StackBuffers \ {b}, SwapStacks(b, o)
    PROVE  StackIInv'
  <1>1. /\ IsLine(text[o]) /\ stack[o] = Held(text[o])
        /\ IsLine(text[b]) /\ stack[b] = Held(text[b])
    BY LineOf
  <1>2. PICK x, y : /\ x = [buffer |-> swap(stack[b], stack[o]), writerIndex |-> stack[o].writerIndex]
                    /\ y = [buffer |-> swap(stack[o], stack[b]), writerIndex |-> stack[b].writerIndex]
    OBVIOUS
  <1>3. x = Held(text[o]) /\ y = Held(text[b])
    <2>1. \A s : Held(s) = [buffer |-> Held(s).buffer, writerIndex |-> Held(s).writerIndex]
      BY DEF Held
    <2>2. /\ swap(stack[b], stack[o]) = Held(text[o]).buffer
          /\ swap(stack[o], stack[b]) = Held(text[b]).buffer
      BY <1>1, HeldSwapped
    <2> QED
      BY <1>1, <1>2, <2>1, <2>2
  <1>4. /\ stack' = [c \in StackBuffers |-> IF c = b THEN x ELSE IF c = o THEN y ELSE stack[c]]
        /\ text' = [c \in StackBuffers |-> IF c = b THEN text[o] ELSE IF c = o THEN text[b] ELSE text[c]]
    <2>1. /\ stack = [c \in StackBuffers |-> stack[c]]
          /\ text = [c \in StackBuffers |-> text[c]]
      BY DEF StackIInv
    <2>2. /\ stack' = [stack EXCEPT ![b] = x, ![o] = y]
          /\ text' = [text EXCEPT ![b] = text[o], ![o] = text[b]]
      BY <1>2 DEF SwapStacks
    <2>3. [stack EXCEPT ![b] = x, ![o] = y]
             = [c \in StackBuffers |-> IF c = b THEN x ELSE IF c = o THEN y ELSE stack[c]]
      BY <2>1, ExceptTwo
    <2>4. [text EXCEPT ![b] = text[o], ![o] = text[b]]
             = [c \in StackBuffers |-> IF c = b THEN text[o] ELSE IF c = o THEN text[b] ELSE text[c]]
      BY <2>1, ExceptTwo
    <2> QED
      BY <2>2, <2>3, <2>4
  <1> QED
    BY <1>1, <1>3, <1>4, TwoLines

(* Every buffer holds a line that leaves room for a NUL, and nothing       *)
(* behind it, whatever is written, copied, moved and swapped.              *)
THEOREM StackInvariance ==
    StackSpec => []StackIInv
  <1>1. StackInit => StackIInv
    <2> SUFFICES ASSUME StackInit
                 PROVE  StackIInv
      OBVIOUS
    <2>1. IsLine(<< >>) /\ << >> \in Seq(Nat)
      BY EmptySeq, StackBufferAssumption DEF IsLine
    <2>2. \A b \in StackBuffers : text[b] = << >>
      BY DEF StackInit
    <2> QED
      BY <2>1, <2>2, HeldEmpty DEF StackInit, StackIInv
  <1>2. StackIInv /\ [StackNext]_stackVars => StackIInv'
    <2> SUFFICES ASSUME StackIInv, [StackNext]_stackVars
                 PROVE  StackIInv'
      OBVIOUS
    <2>1. CASE UNCHANGED stackVars
      BY <2>1 DEF stackVars, StackIInv, IsLine, Held
    <2>2. ASSUME NEW b \in StackBuffers, NEW n \in TextLengths, WriteText(b, n)
          PROVE  StackIInv'
      BY <2>2, WriteTextStep
    <2>3. ASSUME NEW b \in StackBuffers, NEW value \in Numbers, WriteInteger(b, value)
          PROVE  StackIInv'
      <3>1. value \in Int
        <4>1. kMaximumNumberLimit \in Nat
          BY StackBufferAssumption
        <4>2. PICK p \in Nat : p = Power(10, kMaximumNumberLimit)
          BY <4>1, PowerIs
        <4>3. value \in -p .. p - 1
          BY <4>2, StackBufferAssumption
        <4> QED
          BY <4>3
      <3>2. value < 0 \/ value >= 0
        BY <3>1
      <3> QED
        BY <2>3, <3>2, WriteNegative, WriteNatural
    <2>4. ASSUME NEW b \in StackBuffers, NEW value \in Pointers, WritePointer(b, value)
          PROVE  StackIInv'
      BY <2>4, WritePointerStep
    <2>5. ASSUME NEW b \in StackBuffers, NEW o \in StackBuffers \ {b},
                 \/ WriteStream(b, o) \/ CopyStack(b, o) \/ MoveStack(b, o) \/ SwapStacks(b, o)
          PROVE  StackIInv'
      BY <2>5, WriteStreamStep, CopyStackStep, MoveStackStep, SwapStacksStep
    <2> QED
      BY <2>1, <2>2, <2>3, <2>4, <2>5 DEF StackNext
  <1> QED
    BY <1>1, <1>2, PTL DEF StackSpec

(* A line is whole pieces in the order of the writes, numbers as their     *)
(* numerals, and NUL up to the end of the array (StackBuffer and the       *)
(* operators of LogBufferStream).                                          *)
THEOREM TextStaysWhole ==
    StackSpec => []TextIsWhole
  <1>1. StackIInv => TextIsWhole
    <2> SUFFICES ASSUME StackIInv, NEW b \in StackBuffers
                 PROVE  /\ Len(text[b]) < SIZE
                        /\ stack[b].writerIndex = Len(text[b])
                        /\ stack[b].buffer = text[b] \o Nuls(SIZE - Len(text[b]))
      BY DEF TextIsWhole
    <2>1. IsLine(text[b]) /\ stack[b] = Held(text[b])
      BY LineOf
    <2> QED
      BY <2>1, HeldIs, HeldWhole DEF IsLine
  <1> QED
    BY <1>1, StackInvariance, PTL
=============================================================================
