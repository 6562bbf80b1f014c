--------------------------- MODULE DxeTimerProofs ---------------------------
(***************************************************************************)
(* Theorems about DxeTimer, for every set of timers, of delays and of tick  *)
(* durations, and whatever interrupts come between the steps: the list of   *)
(* timers stays sorted, no expired timer is forgotten, and no timer is      *)
(* signalled before its time.                                               *)
(***************************************************************************)
EXTENDS DxeTimer, ListLemmas

-----------------------------------------------------------------------------
(* The inductive invariant                                                  *)

(* The service in progress holds an event, which is off the list.           *)
Holding == {"read", "insert", "rearm", "reinsert"}
EventHeld == pc \in Holding => event \in Timer /\ ~OnList(event)

(* The time that CoreCheckTimers has read is not in the future.             *)
TimeRead == pc \in {"scan", "rearm", "reinsert"} => arg <= systemTime

(* Timers that a tick found expired are on the list, and still expired.     *)
LateExpired == \A t \in late : OnList(t) /\ triggerTime[t] <= systemTime

(* A check that serves them is pending, or about to read the time, or has
   read a time past theirs.                                                 *)
LateServed ==
  \/ checkSignal
  \/ pc = "check"
  \/ pc \in {"scan", "rearm", "reinsert"} /\ \A t \in late : triggerTime[t] <= arg
  \/ late = {}

IInv == TypeOK /\ Sorted /\ EventHeld /\ TimeRead /\ LateExpired /\ LateServed

(* No sum of a time and a delay reaches 2^64: a SetTimer that wraps is due in
   the past and is signalled at once.                                       *)
NoWrap == \A delay \in Delay \cup {TimerPeriod} : MaxTime + delay < Wrap

(* A timer on the list, or on its way to it.                                *)
Armed(t) == OnList(t) \/ (pc \in {"insert", "rearm", "reinsert"} /\ event = t)

(* No trigger time is before the time the caller asked for: in the list, while
   SetTimer adds the delay to a time it reads late, and while CoreCheckTimers
   moves a timer that is behind to the present.                             *)
DueKept ==
  /\ \A t \in Timer : MaxTime + period[t] < Wrap
  /\ \A t \in Timer : Armed(t) => due[t] <= triggerTime[t]
  /\ pc = "read" => MaxTime + arg < Wrap /\ due[event] <= Capped(systemTime + arg)
  /\ pc = "rearm" => triggerTime[event] <= arg

-----------------------------------------------------------------------------
(* The list                                                                 *)

(* What holds of a list in ascending order of trigger times.                *)
Ascending(list, trigger) ==
  \A i, j \in DOMAIN list :
    i < j => trigger[list[i]] <= trigger[list[j]] /\ list[i] # list[j]

(* RemoveEntryList leaves the others in their order.                        *)
LEMMA UnlinkedPoint ==
  ASSUME TypeOK, Sorted, NEW t \in Timer
  PROVE  /\ Unlinked(t) \in Seq(Timer)
         /\ \A i \in DOMAIN Unlinked(t) : Unlinked(t)[i] # t /\ OnList(Unlinked(t)[i])
         /\ \A u \in Timer : u # t /\ OnList(u) =>
              \E i \in DOMAIN Unlinked(t) : Unlinked(t)[i] = u
         /\ Ascending(Unlinked(t), triggerTime)
<1> DEFINE s == timerList
<1>0. /\ s \in Seq(Timer) /\ triggerTime \in [Timer -> UINT64] /\ Len(s) \in Nat
      /\ DOMAIN s = 1 .. Len(s) /\ \A i \in DOMAIN s : s[i] \in Timer
  BY LenProperties, ElementOfSeq DEF TypeOK
<1>1. CASE OnList(t)
  <2> DEFINE k == CHOOSE i \in DOMAIN s : s[i] = t
             v == RemoveAt(s, k)
  <2>1. k \in 1 .. Len(s) /\ s[k] = t
    BY <1>0, <1>1 DEF OnList
  <2> HIDE DEF k
  <2>2. Unlinked(t) = v
    BY <1>1 DEF Unlinked, k
  <2>3. /\ v \in Seq(Timer) /\ DOMAIN v = 1 .. Len(s) - 1
        /\ \A i \in 1 .. Len(s) - 1 : v[i] = IF i < k THEN s[i] ELSE s[i + 1]
    BY <1>0, <2>1, RemoveAtPoint, LenProperties
  <2> HIDE DEF v
  <2> DEFINE old(i) == IF i < k THEN i ELSE i + 1
  <2>4. \A i \in DOMAIN v : old(i) \in DOMAIN s /\ old(i) # k /\ v[i] = s[old(i)]
    BY <1>0, <2>1, <2>3
  <2>5. \A i, j \in DOMAIN v : i < j => old(i) < old(j)
    BY <1>0, <2>1, <2>3
  <2>6. \A i \in DOMAIN s : i # k =>
          \E j \in DOMAIN v : v[j] = s[i]
    <3>1. SUFFICES ASSUME NEW i \in DOMAIN s, i # k
                   PROVE  \E j \in DOMAIN v : v[j] = s[i]
      OBVIOUS
    <3>2. CASE i < k
      BY <1>0, <2>1, <2>3, <3>1, <3>2
    <3>3. CASE ~(i < k)
      <4>1. i - 1 \in DOMAIN v /\ ~(i - 1 < k) /\ (i - 1) + 1 = i
        BY <1>0, <2>1, <2>3, <3>1, <3>3
      <4> QED
        BY <4>1, <2>3
    <3> QED
      BY <3>2, <3>3
  <2>7. \A i \in DOMAIN s : i # k => s[i] # t
    <3>1. \A i, j \in DOMAIN s : i < j => s[i] # s[j]
      BY DEF Sorted
    <3> QED
      BY <1>0, <2>1, <3>1
  <2>8. \A i \in DOMAIN v : v[i] # t /\ OnList(v[i])
    BY <2>4, <2>7 DEF OnList
  <2>9. \A u \in Timer : u # t /\ OnList(u) => \E i \in DOMAIN v : v[i] = u
    BY <2>1, <2>6 DEF OnList
  <2>10. Ascending(v, triggerTime)
    BY <2>4, <2>5 DEF Ascending, Sorted
  <2> QED
    BY <2>2, <2>3, <2>8, <2>9, <2>10
<1>2. CASE ~OnList(t)
  <2>1. Unlinked(t) = s
    BY <1>2 DEF Unlinked
  <2> QED
    BY <1>0, <1>2, <2>1 DEF OnList, Ascending, Sorted
<1> QED
  BY <1>1, <1>2

(* CoreInsertEventTimer adds one timer and keeps the order: all the timers
   before the place it finds trigger no later, all those from there on later. *)
LEMMA InsertPoint ==
  ASSUME TypeOK, Sorted, NEW t \in Timer, ~OnList(t)
  PROVE  /\ CoreInsertEventTimer(t) \in Seq(Timer)
         /\ \A i \in DOMAIN CoreInsertEventTimer(t) :
              CoreInsertEventTimer(t)[i] = t \/ OnList(CoreInsertEventTimer(t)[i])
         /\ \A u \in Timer : OnList(u) \/ u = t =>
              \E i \in DOMAIN CoreInsertEventTimer(t) : CoreInsertEventTimer(t)[i] = u
         /\ Ascending(CoreInsertEventTimer(t), triggerTime)
<1> DEFINE s == timerList
           after == {i \in DOMAIN s : triggerTime[s[i]] > triggerTime[t]}
           at == IF after = {} THEN Len(s) + 1
                               ELSE CHOOSE i \in after : \A j \in after : i <= j
           v == InsertAt(s, at, t)
<1>0. /\ s \in Seq(Timer) /\ triggerTime \in [Timer -> UINT64] /\ Len(s) \in Nat
      /\ DOMAIN s = 1 .. Len(s) /\ \A i \in DOMAIN s : s[i] \in Timer
  BY LenProperties, ElementOfSeq DEF TypeOK
<1>1. \A u \in Timer : triggerTime[u] \in Int
  BY <1>0, TimerAssumption DEF UINT64
<1>2. /\ at \in 1 .. Len(s) + 1
      /\ \A i \in DOMAIN s : i < at => triggerTime[s[i]] <= triggerTime[t]
      /\ \A i \in DOMAIN s : i >= at => triggerTime[t] <= triggerTime[s[i]]
  <2>1. CASE after = {}
    BY <1>0, <1>1, <2>1
  <2>2. CASE after # {}
    <3>1. after \subseteq Nat
      BY <1>0
    <3>2. \E i \in after : \A j \in after : i <= j
      BY <2>2, <3>1, FirstPlace
    <3>3. at \in after /\ \A j \in after : at <= j
      BY <2>2, <3>2
    <3> HIDE DEF at
    <3>4. at \in DOMAIN s /\ triggerTime[s[at]] > triggerTime[t]
      BY <3>3
    <3>5. \A i \in DOMAIN s : i < at => triggerTime[s[i]] <= triggerTime[t]
      BY <1>0, <1>1, <3>3, <3>4
    <3>6. \A i \in DOMAIN s : i >= at => triggerTime[t] <= triggerTime[s[i]]
      <4>1. \A i \in DOMAIN s : i > at => triggerTime[s[at]] <= triggerTime[s[i]]
        BY <1>0, <3>4 DEF Sorted
      <4> QED
        BY <1>0, <1>1, <3>4, <4>1
    <3> QED
      BY <1>0, <3>4, <3>5, <3>6
  <2> QED
    BY <2>1, <2>2
<1>3. CoreInsertEventTimer(t) = v
  BY DEF CoreInsertEventTimer
<1> HIDE DEF after, at
<1>4. /\ v \in Seq(Timer) /\ DOMAIN v = 1 .. Len(s) + 1
      /\ \A i \in 1 .. Len(s) + 1 :
           v[i] = IF i < at THEN s[i] ELSE IF i = at THEN t ELSE s[i - 1]
  BY <1>0, <1>2, InsertAtPoint, LenProperties
<1> HIDE DEF v
<1>5. \A i \in DOMAIN v : v[i] = t \/ OnList(v[i])
  <2> SUFFICES ASSUME NEW i \in DOMAIN v, i # at
               PROVE  \E j \in DOMAIN s : s[j] = v[i]
    BY <1>4 DEF OnList
  <2>1. CASE i < at
    BY <1>0, <1>2, <1>4, <2>1
  <2>2. CASE ~(i < at)
    <3>1. i - 1 \in DOMAIN s /\ v[i] = s[i - 1]
      BY <1>0, <1>2, <1>4, <2>2
    <3> QED
      BY <3>1
  <2> QED
    BY <2>1, <2>2
<1>6. \A u \in Timer : OnList(u) \/ u = t => \E i \in DOMAIN v : v[i] = u
  <2>1. \E i \in DOMAIN v : v[i] = t
    BY <1>0, <1>2, <1>4
  <2>2. ASSUME NEW i \in DOMAIN s  PROVE \E j \in DOMAIN v : v[j] = s[i]
    <3>1. CASE i < at
      BY <1>0, <1>2, <1>4, <3>1
    <3>2. CASE ~(i < at)
      <4>1. i + 1 \in DOMAIN v /\ ~(i + 1 < at) /\ i + 1 # at /\ (i + 1) - 1 = i
        BY <1>0, <1>2, <1>4, <3>2
      <4> QED
        BY <4>1, <1>4
    <3> QED
      BY <3>1, <3>2
  <2> QED
    BY <2>1, <2>2 DEF OnList
<1>7. Ascending(v, triggerTime)
  <2> SUFFICES ASSUME NEW i \in DOMAIN v, NEW j \in DOMAIN v, i < j
               PROVE  triggerTime[v[i]] <= triggerTime[v[j]] /\ v[i] # v[j]
    BY DEF Ascending
  <2>1. \A l \in DOMAIN s : s[l] # t
    BY DEF OnList
  <2>2. CASE j < at
    BY <1>0, <1>2, <1>4, <2>2 DEF Sorted
  <2>3. CASE j = at
    BY <1>0, <1>1, <1>2, <1>4, <2>1, <2>3
  <2>4. CASE i < at /\ j > at
    <3>1. i \in DOMAIN s /\ j - 1 \in DOMAIN s /\ i < j - 1
      BY <1>0, <1>2, <1>4, <2>4
    <3>2. v[i] = s[i] /\ v[j] = s[j - 1]
      BY <1>0, <1>2, <1>4, <2>4
    <3> QED
      BY <3>1, <3>2 DEF Sorted
  <2>5. CASE i = at
    <3>1. j - 1 \in DOMAIN s /\ j - 1 >= at /\ v[i] = t /\ v[j] = s[j - 1]
      BY <1>0, <1>2, <1>4, <2>5
    <3> QED
      BY <1>2, <2>1, <3>1
  <2>6. CASE i > at
    <3>1. i - 1 \in DOMAIN s /\ j - 1 \in DOMAIN s /\ i - 1 < j - 1
      BY <1>0, <1>2, <1>4, <2>6
    <3>2. v[i] = s[i - 1] /\ v[j] = s[j - 1]
      BY <1>0, <1>2, <1>4, <2>6
    <3> QED
      BY <3>1, <3>2 DEF Sorted
  <2> QED
    BY <1>2, <1>4, <2>2, <2>3, <2>4, <2>5, <2>6
<1> QED
  BY <1>3, <1>4, <1>5, <1>6, <1>7

(* The first timer triggers first: CoreTimerTick and CoreCheckTimers need not
   look further.                                                            *)
LEMMA HeadFirst ==
  ASSUME TypeOK, Sorted, NEW time \in Int, NEW t \in Timer, OnList(t), triggerTime[t] <= time
  PROVE  HeadExpired(time)
<1>1. PICK i \in DOMAIN timerList : timerList[i] = t
  BY DEF OnList
<1>2. /\ timerList \in Seq(Timer) /\ DOMAIN timerList = 1 .. Len(timerList)
      /\ Len(timerList) \in Nat /\ \A j \in DOMAIN timerList : timerList[j] \in Timer
  BY LenProperties, ElementOfSeq DEF TypeOK
<1>3. timerList # << >> /\ Head(timerList) = timerList[1] /\ 1 \in DOMAIN timerList
  BY <1>1, <1>2, HeadTailProperties
<1>4. triggerTime[timerList[1]] <= triggerTime[t]
  <2>1. \A u \in Timer : triggerTime[u] \in Int
    BY TimerAssumption DEF TypeOK, UINT64
  <2> QED
    BY <1>1, <1>2, <1>3, <2>1 DEF Sorted
<1>5. triggerTime[timerList[1]] \in Int /\ triggerTime[t] \in Int
  BY <1>2, <1>3, TimerAssumption DEF TypeOK, UINT64
<1> QED
  BY <1>3, <1>4, <1>5 DEF HeadExpired

-----------------------------------------------------------------------------
(* The invariant is inductive                                               *)

LEMMA Times ==
  ASSUME TypeOK
  PROVE  /\ systemTime \in Int /\ arg \in Int /\ arg >= 0 /\ systemTime >= 0
         /\ systemTime \in UINT64
         /\ \A t \in Timer : triggerTime[t] \in Int /\ period[t] \in Int /\ due[t] \in Int
BY TimerAssumption DEF TypeOK, UINT64

(* The initial state, after CoreInitializeTimer.                            *)
LEMMA InitIInv == Init => IInv
<1> SUFFICES ASSUME Init PROVE IInv
  OBVIOUS
<1>1. TypeOK
  <2>1. timerList \in Seq(Timer)
    BY EmptySeq DEF Init
  <2>2. 0 \in UINT64 /\ 0 \in 0 .. MaxTime /\ 0 \in 0 .. MaxTime + 1
    BY TimerAssumption DEF UINT64
  <2> QED
    BY <2>1, <2>2 DEF Init, TypeOK
<1>2. DOMAIN timerList = {}
  BY DEF Init
<1> QED
  BY <1>1, <1>2 DEF Init, IInv, Sorted, EventHeld, Holding, TimeRead, LateExpired, LateServed

(* A tick finds every timer that has expired by looking at the first one.   *)
LEMMA TickIInv ==
  ASSUME IInv, NEW duration \in Duration, CoreTimerTick(duration)
  PROVE  IInv'
<1> DEFINE now == systemTime'
<1>1. TypeOK /\ Sorted /\ EventHeld /\ TimeRead /\ LateExpired /\ LateServed
  BY DEF IInv
<1>2. now \in 0 .. MaxTime /\ now >= systemTime
  BY <1>1, Times, TimerAssumption DEF CoreTimerTick, TypeOK
<1>3. checkSignal' = (checkSignal \/ HeadExpired(now))
  BY DEF CoreTimerTick
<1>4. TypeOK'
  BY <1>1, <1>2 DEF CoreTimerTick, TypeOK, HeadExpired
<1>5. UNCHANGED <<timerList, triggerTime, event, arg>>
  BY DEF CoreTimerTick
<1>6. Sorted' /\ \A t : OnList(t)' <=> OnList(t)
  BY <1>1, <1>5 DEF Sorted, OnList
<1>7. pc' = pc \/ (pc = "idle" /\ pc' = "dispatch")
  BY DEF CoreTimerTick
<1>8. EventHeld'
  BY <1>1, <1>5, <1>6, <1>7 DEF EventHeld, Holding
<1>9. TimeRead'
  BY <1>1, <1>2, <1>5, <1>7, Times, TimerAssumption DEF TimeRead
<1>10. late' = late \cup {t \in Timer : OnList(t) /\ triggerTime[t] <= now}
  BY DEF CoreTimerTick
<1>11. LateExpired'
  BY <1>1, <1>2, <1>5, <1>6, <1>10, Times, TimerAssumption DEF LateExpired, TypeOK
<1>12. LateServed'
  <2>1. CASE \E t \in Timer : OnList(t) /\ triggerTime[t] <= now
    <3>1. now \in Int
      BY <1>2, TimerAssumption
    <3>2. HeadExpired(now)
      BY <1>1, <2>1, <3>1, HeadFirst
    <3> QED
      BY <1>3, <3>2 DEF LateServed
  <2>2. CASE ~\E t \in Timer : OnList(t) /\ triggerTime[t] <= now
    <3>1. late' = late
      BY <1>10, <2>2
    <3> QED
      BY <1>1, <1>3, <1>5, <1>7, <3>1 DEF LateServed
  <2> QED
    BY <2>1, <2>2
<1> QED
  BY <1>4, <1>6, <1>8, <1>9, <1>11, <1>12 DEF IInv

(* The part of SetTimer before the trigger time is computed: the timer is off
   the list and forgotten as a late one.                                    *)
LEMMA UnlinkStep ==
  ASSUME IInv, pc = "idle", NEW t \in Timer,
         timerList' = Unlinked(t), triggerTime' = [triggerTime EXCEPT ![t] = 0],
         late' = late \ {t}, UNCHANGED <<systemTime, checkSignal>>
  PROVE  /\ timerList' \in Seq(Timer) /\ triggerTime' \in [Timer -> UINT64]
         /\ late' \subseteq Timer
         /\ Sorted' /\ LateExpired' /\ ~OnList(t)'
         /\ checkSignal' \/ late' = {}
<1>1. TypeOK /\ Sorted /\ LateExpired /\ LateServed
  BY DEF IInv
<1>2. /\ timerList' \in Seq(Timer)
      /\ \A i \in DOMAIN timerList' : timerList'[i] # t /\ OnList(timerList'[i])
      /\ \A u \in Timer : u # t /\ OnList(u) => \E i \in DOMAIN timerList' : timerList'[i] = u
      /\ Ascending(timerList', triggerTime)
  BY <1>1, UnlinkedPoint
<1>3. triggerTime' \in [Timer -> UINT64] /\ late' \subseteq Timer
  BY <1>1, TimerAssumption DEF TypeOK, UINT64
<1>4. \A u \in Timer : u # t => triggerTime'[u] = triggerTime[u]
  BY <1>1 DEF TypeOK
<1>5. \A i \in DOMAIN timerList' : timerList'[i] \in Timer
  BY <1>2, ElementOfSeq, LenProperties
<1>6. Sorted'
  BY <1>2, <1>4, <1>5 DEF Sorted, Ascending
<1>7. ~OnList(t)'
  BY <1>2 DEF OnList
<1>8. LateExpired'
  BY <1>1, <1>2, <1>4 DEF LateExpired, OnList, TypeOK
<1>9. checkSignal' \/ late' = {}
  BY <1>1 DEF LateServed
<1> QED
  BY <1>2, <1>3, <1>6, <1>7, <1>8, <1>9

(* CoreInsertEventTimer in SetTimer and in CoreCheckTimers: the held event
   joins the list at its place, and no other timer moves out of it.         *)
LEMMA InsertStep ==
  ASSUME IInv, pc \in Holding, timerList' = CoreInsertEventTimer(event),
         UNCHANGED <<systemTime, triggerTime, late>>
  PROVE  /\ timerList' \in Seq(Timer) /\ Sorted' /\ LateExpired'
         /\ \A t \in Timer : OnList(t)' <=> OnList(t) \/ t = event
<1>1. TypeOK /\ Sorted /\ LateExpired /\ event \in Timer /\ ~OnList(event)
  BY DEF IInv, EventHeld
<1>2. /\ timerList' \in Seq(Timer)
      /\ \A i \in DOMAIN timerList' : timerList'[i] = event \/ OnList(timerList'[i])
      /\ \A u \in Timer : OnList(u) \/ u = event =>
           \E i \in DOMAIN timerList' : timerList'[i] = u
      /\ Ascending(timerList', triggerTime)
  BY <1>1, InsertPoint
<1>3. Sorted'
  BY <1>2 DEF Sorted, Ascending
<1>4. \A t \in Timer : OnList(t)' <=> OnList(t) \/ t = event
  BY <1>2 DEF OnList
<1>5. LateExpired'
  BY <1>1, <1>4 DEF LateExpired, TypeOK
<1> QED
  BY <1>2, <1>3, <1>4, <1>5

(* SetTimer, step by step.                                                  *)
LEMMA SetTimerIInv ==
  ASSUME IInv,
         \/ \E t \in Timer : CancelTimer(t)
         \/ \E t \in Timer, type \in {"relative", "periodic"}, delay \in Delay :
              SetTimer(t, type, delay)
         \/ SetTimerRead \/ SetTimerInsert \/ SetTimerSignal
  PROVE  IInv'
<1>1. TypeOK /\ Sorted /\ EventHeld /\ TimeRead /\ LateExpired /\ LateServed
  BY DEF IInv
<1>2. ASSUME NEW t \in Timer, CancelTimer(t)  PROVE IInv'
  <2>1. /\ timerList' \in Seq(Timer) /\ triggerTime' \in [Timer -> UINT64]
        /\ late' \subseteq Timer
        /\ Sorted' /\ LateExpired' /\ ~OnList(t)' /\ (checkSignal' \/ late' = {})
    BY <1>2, UnlinkStep DEF CancelTimer
  <2>2. TypeOK'
    BY <1>1, <1>2, <2>1, TimerAssumption DEF CancelTimer, TypeOK, UINT64
  <2> QED
    BY <1>2, <2>1, <2>2 DEF CancelTimer, IInv, EventHeld, Holding, TimeRead, LateServed
<1>3. ASSUME NEW t \in Timer, NEW type \in {"relative", "periodic"}, NEW delay \in Delay,
             SetTimer(t, type, delay)
      PROVE  IInv'
  <2> DEFINE given == IF type = "periodic" /\ delay = 0 THEN TimerPeriod ELSE delay
  <2>1. /\ timerList' \in Seq(Timer) /\ triggerTime' \in [Timer -> UINT64]
        /\ late' \subseteq Timer
        /\ Sorted' /\ LateExpired' /\ ~OnList(t)' /\ (checkSignal' \/ late' = {})
    BY <1>3, UnlinkStep DEF SetTimer
  <2>2. given \in UINT64
    BY TimerAssumption DEF UINT64
  <2>3. Capped(systemTime + given) \in 0 .. MaxTime + 1
    BY <1>1, <2>2, Times, TimerAssumption DEF Capped, UINT64
  <2>4. /\ arg' = given /\ event' = t /\ pc' = "read"
        /\ due' = [due EXCEPT ![t] = Capped(systemTime + given)]
        /\ period' = [period EXCEPT ![t] = IF type = "periodic" THEN given ELSE 0]
        /\ UNCHANGED <<systemTime, checkSignal>>
    BY <1>3 DEF SetTimer
  <2> HIDE DEF given
  <2>5. TypeOK'
    <3>1. (IF type = "periodic" THEN given ELSE 0) \in UINT64
      BY <2>2, TimerAssumption DEF UINT64
    <3> QED
      BY <1>1, <2>1, <2>2, <2>3, <2>4, <3>1 DEF TypeOK
  <2> QED
    BY <2>1, <2>4, <2>5 DEF IInv, EventHeld, Holding, TimeRead, LateServed
<1>4. CASE SetTimerRead
  <2>1. event \in Timer /\ ~OnList(event)
    BY <1>1, <1>4 DEF SetTimerRead, EventHeld, Holding
  <2>2. (systemTime + arg) % Wrap \in UINT64
    BY <1>1, Times, TimerAssumption DEF UINT64
  <2>3. TypeOK'
    BY <1>1, <1>4, <2>1, <2>2 DEF SetTimerRead, TypeOK
  <2>4. /\ \A t \in Timer : t # event => triggerTime'[t] = triggerTime[t]
        /\ UNCHANGED <<timerList, systemTime, checkSignal, late, event>>
    BY <1>1, <1>4 DEF SetTimerRead, TypeOK
  <2>5. \A i \in DOMAIN timerList : timerList[i] \in Timer \ {event}
    BY <1>1, <2>1, ElementOfSeq, LenProperties DEF TypeOK, OnList
  <2>6. Sorted'
    BY <1>1, <2>4, <2>5 DEF Sorted
  <2>7. LateExpired'
    BY <1>1, <2>1, <2>4 DEF LateExpired, OnList, TypeOK
  <2>8. EventHeld' /\ TimeRead'
    BY <1>4, <2>1, <2>4 DEF SetTimerRead, EventHeld, TimeRead, OnList
  <2>9. LateServed'
    BY <1>1, <1>4, <2>4 DEF SetTimerRead, LateServed
  <2> QED
    BY <2>3, <2>6, <2>7, <2>8, <2>9 DEF IInv
<1>5. CASE SetTimerInsert
  <2>1. timerList' \in Seq(Timer) /\ Sorted' /\ LateExpired'
    BY <1>5, InsertStep DEF SetTimerInsert, Holding
  <2>2. TypeOK'
    BY <1>1, <1>5, <2>1 DEF SetTimerInsert, TypeOK
  <2> QED
    BY <1>1, <1>5, <2>1, <2>2
    DEF SetTimerInsert, IInv, EventHeld, Holding, TimeRead, LateServed
<1>6. CASE SetTimerSignal
  <2>1. TypeOK'
    BY <1>1, <1>6 DEF SetTimerSignal, TypeOK
  <2> QED
    BY <1>1, <1>6, <2>1
    DEF SetTimerSignal, IInv, EventHeld, Holding, TimeRead, LateServed, LateExpired,
        Sorted, OnList
<1> QED
  BY <1>2, <1>3, <1>4, <1>5, <1>6

(* The steps between the services, where only the place in the code and the
   pending check change.                                                    *)
LEMMA LevelIInv ==
  ASSUME IInv, Unlock \/ Lower \/ Restore \/ Dispatch \/ CheckTimers
  PROVE  IInv'
<1>1. TypeOK /\ Sorted /\ EventHeld /\ TimeRead /\ LateExpired /\ LateServed
  BY DEF IInv
<1> USE DEF EventHeld, Holding, TimeRead, LateServed
<1>2. UNCHANGED <<systemTime, timerList, triggerTime, late, period, due>>
  BY DEF Unlock, Lower, Restore, Dispatch, CheckTimers
<1>3. Sorted' /\ LateExpired'
  BY <1>1, <1>2 DEF Sorted, LateExpired, OnList
<1>4. TypeOK'
  <2>1. /\ checkSignal' \in BOOLEAN /\ event' \in Timer \cup {None}
        /\ pc' \in {"unlock", "lower", "idle", "dispatch", "check", "scan"}
    BY <1>1 DEF Unlock, Lower, Restore, Dispatch, CheckTimers, TypeOK
  <2>2. arg' \in {arg, 0, systemTime}
    BY DEF Unlock, Lower, Restore, Dispatch, CheckTimers
  <2>3. arg' \in UINT64
    BY <1>1, <2>2, Times, TimerAssumption DEF TypeOK, UINT64
  <2> QED
    BY <1>1, <1>2, <2>1, <2>3 DEF TypeOK
<1>5. EventHeld' /\ TimeRead'
  BY <1>1, <1>2, Times DEF Unlock, Lower, Restore, Dispatch, CheckTimers
<1>6. LateServed'
  BY <1>1, <1>2 DEF Unlock, Lower, Restore, Dispatch, CheckTimers, LateExpired
<1> QED
  BY <1>3, <1>4, <1>5, <1>6 DEF IInv

(* CoreCheckTimers: the loop over the first timer, with the time it read.   *)
LEMMA CheckIInv ==
  ASSUME IInv, (\E t \in Timer : Fire(t)) \/ Rearm \/ Reinsert \/ CheckDone
  PROVE  IInv'
<1>1. TypeOK /\ Sorted /\ EventHeld /\ TimeRead /\ LateExpired /\ LateServed
  BY DEF IInv
<1>2. ASSUME NEW t \in Timer, Fire(t)  PROVE IInv'
  <2>1. /\ timerList # << >> /\ t = Head(timerList) /\ timerList' = Tail(timerList)
        /\ late' = late \ {t} /\ event' = t
        /\ UNCHANGED <<systemTime, triggerTime, period, checkSignal, arg, due>>
        /\ pc = "scan" /\ pc' = IF period[t] # 0 THEN "rearm" ELSE "scan"
    BY <1>2 DEF Fire, HeadExpired
  <2>2. /\ DOMAIN timerList = 1 .. Len(timerList) /\ Len(timerList) \in Nat
        /\ timerList' \in Seq(Timer) /\ DOMAIN timerList' = 1 .. Len(timerList) - 1
        /\ \A i \in 1 .. Len(timerList) - 1 : timerList'[i] = timerList[i + 1]
        /\ t = timerList[1] /\ 1 \in DOMAIN timerList
    BY <1>1, <2>1, HeadTailProperties, LenProperties DEF TypeOK
  <2>3. \A i \in DOMAIN timerList' :
          i \in Nat /\ i + 1 \in DOMAIN timerList /\ timerList'[i] = timerList[i + 1]
    BY <2>2
  <2>4. Sorted'
    BY <1>1, <2>1, <2>3 DEF Sorted
  <2>5. ~OnList(t)'
    <3>1. \A i \in DOMAIN timerList' : 1 < i + 1
      BY <2>2
    <3> QED
      BY <1>1, <2>2, <2>3, <3>1 DEF Sorted, OnList
  <2>6. ASSUME NEW u \in Timer, u # t, OnList(u)
        PROVE  OnList(u)'
    <3>1. PICK i \in DOMAIN timerList : timerList[i] = u
      BY <2>6 DEF OnList
    <3>2. i - 1 \in DOMAIN timerList' /\ (i - 1) + 1 = i
      BY <2>2, <2>6, <3>1
    <3>3. timerList'[i - 1] = u
      BY <2>3, <3>1, <3>2
    <3> QED
      BY <3>2, <3>3 DEF OnList
  <2>7. LateExpired'
    BY <1>1, <2>1, <2>6 DEF LateExpired, TypeOK
  <2>8. TypeOK'
    BY <1>1, <2>1, <2>2 DEF TypeOK
  <2>9. EventHeld' /\ TimeRead'
    BY <1>1, <2>1, <2>5 DEF EventHeld, Holding, TimeRead
  <2>10. LateServed'
    BY <1>1, <2>1 DEF LateServed
  <2> QED
    BY <2>4, <2>7, <2>8, <2>9, <2>10 DEF IInv
<1>3. CASE Rearm
  <2> DEFINE next == NextTrigger(event, arg)
  <2>1. event \in Timer /\ ~OnList(event)
    BY <1>1, <1>3 DEF Rearm, EventHeld, Holding
  <2>2. next \in UINT64
    BY <1>1, <2>1, Times, TimerAssumption DEF NextTrigger, UINT64, TypeOK
  <2>3. Capped(due[event] + period[event]) \in 0 .. MaxTime + 1
    <3>1. due[event] \in 0 .. MaxTime + 1 /\ period[event] \in UINT64
      BY <1>1, <2>1 DEF TypeOK
    <3>2. MaxTime \in Nat /\ period[event] \in Nat /\ due[event] \in Nat
      BY <3>1, TimerAssumption DEF UINT64
    <3> QED
      BY <3>2 DEF Capped
  <2>4. /\ triggerTime' = [triggerTime EXCEPT ![event] = next]
        /\ checkSignal' = (checkSignal \/ next = arg)
        /\ due' = [due EXCEPT ![event] = Capped(due[event] + period[event])]
        /\ pc = "rearm" /\ pc' = "reinsert"
        /\ UNCHANGED <<systemTime, timerList, period, event, arg, late>>
    BY <1>1, <1>3, <2>1 DEF Rearm, TypeOK
  <2> HIDE DEF next
  <2>5. TypeOK'
    BY <1>1, <2>2, <2>3, <2>4 DEF TypeOK
  <2>6. \A t \in Timer : t # event => triggerTime'[t] = triggerTime[t]
    BY <1>1, <2>4 DEF TypeOK
  <2>7. \A i \in DOMAIN timerList : timerList[i] \in Timer \ {event}
    BY <1>1, <2>1, ElementOfSeq, LenProperties DEF TypeOK, OnList
  <2>8. Sorted'
    BY <1>1, <2>4, <2>6, <2>7 DEF Sorted
  <2>9. LateExpired' /\ event \notin late
    BY <1>1, <2>1, <2>4, <2>6 DEF LateExpired, OnList, TypeOK
  <2>10. EventHeld' /\ TimeRead'
    BY <1>1, <2>1, <2>4 DEF EventHeld, Holding, TimeRead, OnList
  <2>11. LateServed'
    BY <1>1, <2>4, <2>6, <2>9 DEF LateServed, TypeOK
  <2> QED
    BY <2>5, <2>8, <2>9, <2>10, <2>11 DEF IInv
<1>4. CASE Reinsert
  <2>1. timerList' \in Seq(Timer) /\ Sorted' /\ LateExpired'
    BY <1>4, InsertStep DEF Reinsert, Holding
  <2>2. TypeOK'
    BY <1>1, <1>4, <2>1 DEF Reinsert, TypeOK
  <2> QED
    BY <1>1, <1>4, <2>1, <2>2
    DEF Reinsert, IInv, EventHeld, Holding, TimeRead, LateServed
<1>5. CASE CheckDone
  <2>1. /\ pc = "scan" /\ ~HeadExpired(arg) /\ pc' = "unlock"
        /\ UNCHANGED <<systemTime, timerList, triggerTime, period, checkSignal, event,
                       arg, due, late>>
    BY <1>5 DEF CheckDone
  <2>2. \A t \in late : ~(triggerTime[t] <= arg)
    BY <1>1, <2>1, HeadFirst, Times DEF LateExpired, TypeOK
  <2>3. checkSignal \/ late = {}
    BY <1>1, <2>1, <2>2 DEF LateServed
  <2>4. TypeOK' /\ Sorted' /\ LateExpired'
    BY <1>1, <2>1 DEF TypeOK, Sorted, LateExpired, OnList
  <2> QED
    BY <2>1, <2>3, <2>4 DEF IInv, EventHeld, Holding, TimeRead, LateServed
<1> QED
  BY <1>2, <1>3, <1>4, <1>5

LEMMA NextIInv == IInv /\ [Next]_vars => IInv'
<1> SUFFICES ASSUME IInv, [Next]_vars PROVE IInv'
  OBVIOUS
<1>1. CASE Tick
  BY <1>1, TickIInv DEF Tick
<1>2. CASE TimerCode
  BY <1>2, SetTimerIInv, LevelIInv, CheckIInv DEF TimerCode
<1>3. CASE Caller
  BY <1>3, SetTimerIInv, LevelIInv DEF Caller
<1>4. CASE UNCHANGED vars
  BY <1>4 DEF vars, IInv, TypeOK, Sorted, EventHeld, Holding, TimeRead, LateExpired,
              LateServed, OnList
<1> QED
  BY <1>1, <1>2, <1>3, <1>4 DEF Next

LEMMA SpecIInv == Spec => []IInv
BY InitIInv, NextIInv, PTL DEF Spec

-----------------------------------------------------------------------------
(* No timer before its time                                                 *)

LEMMA InitDueKept == NoWrap /\ Init => DueKept
<1> SUFFICES ASSUME NoWrap, Init PROVE DueKept
  OBVIOUS
<1>1. \A t \in Timer : ~Armed(t)
  BY DEF Init, Armed, OnList
<1>2. MaxTime + 0 < Wrap
  BY TimerAssumption
<1> QED
  BY <1>1, <1>2 DEF Init, DueKept

(* A delay that the callers of SetTimer give is added to a time the system
   time has already reached, so the sum is not before the time asked for.   *)
LEMMA SetTimerDueKept ==
  ASSUME NoWrap, IInv, DueKept,
         \/ \E t \in Timer : CancelTimer(t)
         \/ \E t \in Timer, type \in {"relative", "periodic"}, delay \in Delay :
              SetTimer(t, type, delay)
         \/ SetTimerRead \/ SetTimerInsert \/ SetTimerSignal
  PROVE  DueKept'
<1>0. TypeOK /\ Sorted /\ EventHeld
  BY DEF IInv
<1>1. ASSUME NEW t \in Timer, pc = "idle", timerList' = Unlinked(t), pc' \in {"unlock", "read"},
             triggerTime' = [triggerTime EXCEPT ![t] = 0],
             \A u \in Timer : u # t => due'[u] = due[u]
      PROVE  \A u \in Timer : Armed(u)' => due'[u] <= triggerTime'[u]
  <2>1. \A u \in Timer : Armed(u)' => u # t /\ OnList(u)
    BY <1>0, <1>1, UnlinkedPoint DEF Armed, OnList
  <2> QED
    BY <1>0, <1>1, <2>1 DEF DueKept, Armed, TypeOK
<1>2. ASSUME NEW t \in Timer, CancelTimer(t)  PROVE DueKept'
  <2>1. \A u \in Timer : Armed(u)' => due'[u] <= triggerTime'[u]
    BY <1>1, <1>2 DEF CancelTimer
  <2>2. \A u \in Timer : period'[u] \in {period[u], 0}
    BY <1>0, <1>2 DEF CancelTimer, TypeOK
  <2> QED
    BY <1>2, <2>1, <2>2, TimerAssumption DEF CancelTimer, DueKept
<1>3. ASSUME NEW t \in Timer, NEW type \in {"relative", "periodic"}, NEW delay \in Delay,
             SetTimer(t, type, delay)
      PROVE  DueKept'
  <2> DEFINE given == IF type = "periodic" /\ delay = 0 THEN TimerPeriod ELSE delay
  <2>1. MaxTime + given < Wrap
    BY DEF NoWrap
  <2>2. /\ arg' = given /\ event' = t /\ pc' = "read"
        /\ due' = [due EXCEPT ![t] = Capped(systemTime + given)]
        /\ period' = [period EXCEPT ![t] = IF type = "periodic" THEN given ELSE 0]
        /\ systemTime' = systemTime
    BY <1>3 DEF SetTimer
  <2> HIDE DEF given
  <2>3. \A u \in Timer : Armed(u)' => due'[u] <= triggerTime'[u]
    <3>1. \A u \in Timer : u # t => due'[u] = due[u]
      BY <1>0, <2>2 DEF TypeOK
    <3> QED
      BY <1>1, <1>3, <3>1 DEF SetTimer
  <2>4. \A u \in Timer : period'[u] \in {period[u], given, 0}
    BY <1>0, <2>2 DEF TypeOK
  <2>5. \A u \in Timer : MaxTime + period'[u] < Wrap
    BY <2>1, <2>4, TimerAssumption DEF DueKept
  <2>6. due'[event'] <= Capped(systemTime' + arg')
    <3>1. due'[t] = Capped(systemTime + given)
      BY <1>0, <2>2 DEF TypeOK
    <3>2. due'[t] \in Int
      <4>1. TypeOK'
        BY <1>3, SetTimerIInv DEF IInv
      <4> QED
        BY <4>1, TimerAssumption DEF TypeOK
    <3> QED
      BY <2>2, <3>1, <3>2
  <2> QED
    BY <2>1, <2>2, <2>3, <2>5, <2>6 DEF DueKept
<1>4. CASE SetTimerRead
  <2>1. event \in Timer /\ ~OnList(event) /\ due[event] <= Capped(systemTime + arg)
    BY <1>0, <1>4 DEF SetTimerRead, EventHeld, Holding, DueKept
  <2>2. systemTime + arg \in 0 .. Wrap - 1
    BY <1>0, <1>4, Times, TimerAssumption DEF SetTimerRead, DueKept, TypeOK
  <2>3. (systemTime + arg) % Wrap = systemTime + arg
    BY <2>2, TimerAssumption
  <2>4. triggerTime' = [triggerTime EXCEPT ![event] = systemTime + arg]
    BY <1>4, <2>3 DEF SetTimerRead
  <2>5. due[event] <= systemTime + arg
    BY <1>0, <2>1, <2>2, Times, TimerAssumption DEF Capped
  <2>6. \A t \in Timer : Armed(t)' => t = event \/ Armed(t)
    BY <1>4 DEF SetTimerRead, Armed, OnList
  <2>7. \A t \in Timer : Armed(t)' => due'[t] <= triggerTime'[t]
    BY <1>0, <1>4, <2>1, <2>4, <2>5, <2>6 DEF SetTimerRead, DueKept, TypeOK
  <2> QED
    BY <1>4, <2>7 DEF SetTimerRead, DueKept
<1>5. CASE SetTimerInsert
  <2>1. \A t \in Timer : OnList(t)' <=> OnList(t) \/ t = event
    BY <1>5, InsertStep DEF SetTimerInsert, Holding
  <2>2. \A t \in Timer : Armed(t)' => Armed(t)
    BY <1>5, <2>1 DEF SetTimerInsert, Armed
  <2> QED
    BY <1>5, <2>2 DEF SetTimerInsert, DueKept
<1>6. CASE SetTimerSignal
  BY <1>6 DEF SetTimerSignal, DueKept, Armed, OnList
<1> QED
  BY <1>2, <1>3, <1>4, <1>5, <1>6

(* CoreCheckTimers sets a periodic timer one period on, or to the present if
   that is past it.                                                         *)
LEMMA CheckDueKept ==
  ASSUME NoWrap, IInv, DueKept, (\E t \in Timer : Fire(t)) \/ Rearm \/ Reinsert \/ CheckDone
  PROVE  DueKept'
<1>0. TypeOK /\ Sorted /\ EventHeld /\ TimeRead
  BY DEF IInv
<1>1. ASSUME NEW t \in Timer, Fire(t)  PROVE DueKept'
  <2>1. /\ timerList # << >> /\ t = Head(timerList) /\ timerList' = Tail(timerList)
        /\ triggerTime[t] <= arg /\ event' = t /\ pc' \in {"rearm", "scan"}
        /\ UNCHANGED <<systemTime, triggerTime, period, arg, due>>
    BY <1>1 DEF Fire, HeadExpired
  <2>2. OnList(t) /\ \A u \in Timer : OnList(u)' => OnList(u)
    <3>1. /\ DOMAIN timerList = 1 .. Len(timerList) /\ Len(timerList) \in Nat
          /\ DOMAIN timerList' = 1 .. Len(timerList) - 1
          /\ \A i \in 1 .. Len(timerList) - 1 : timerList'[i] = timerList[i + 1]
          /\ t = timerList[1] /\ 1 \in DOMAIN timerList
      BY <1>0, <2>1, HeadTailProperties, LenProperties DEF TypeOK
    <3>2. \A i \in DOMAIN timerList' :
            i + 1 \in DOMAIN timerList /\ timerList'[i] = timerList[i + 1]
      BY <3>1
    <3> QED
      BY <3>1, <3>2 DEF OnList
  <2>3. \A u \in Timer : Armed(u)' => Armed(u)
    BY <2>1, <2>2 DEF Armed
  <2> QED
    BY <2>1, <2>3 DEF DueKept
<1>2. CASE Rearm
  <2> DEFINE next == NextTrigger(event, arg)
  <2>1. /\ event \in Timer /\ triggerTime[event] <= arg /\ due[event] <= triggerTime[event]
        /\ arg <= MaxTime
    BY <1>0, <1>2, Times, TimerAssumption
    DEF Rearm, EventHeld, Holding, DueKept, Armed, TimeRead, TypeOK
  <2>2. triggerTime[event] + period[event] \in 0 .. Wrap - 1
    <3>1. MaxTime + period[event] < Wrap
      BY <2>1 DEF DueKept
    <3>2. triggerTime[event] \in 0 .. Wrap - 1 /\ period[event] \in 0 .. Wrap - 1
      BY <1>0, <2>1 DEF TypeOK, UINT64
    <3>3. triggerTime[event] <= MaxTime
      BY <1>0, <2>1, Times, TimerAssumption
    <3> QED
      BY <3>1, <3>2, <3>3, TimerAssumption
  <2>3. (triggerTime[event] + period[event]) % Wrap = triggerTime[event] + period[event]
    BY <2>2, TimerAssumption
  <2>4. triggerTime[event] + period[event] <= next
    BY <1>0, <2>1, <2>3, Times DEF NextTrigger
  <2>5. Capped(due[event] + period[event]) <= due[event] + period[event]
    BY <1>0, <2>1, Times, TimerAssumption DEF Capped
  <2>6. next \in Int /\ Capped(due[event] + period[event]) \in Int
    BY <1>0, <2>1, <2>3, Times, TimerAssumption DEF NextTrigger, Capped
  <2>7. /\ triggerTime' = [triggerTime EXCEPT ![event] = next]
        /\ due' = [due EXCEPT ![event] = Capped(due[event] + period[event])]
        /\ pc = "rearm" /\ pc' = "reinsert"
        /\ UNCHANGED <<systemTime, timerList, period, event, arg, late>>
    BY <1>0, <1>2, <2>1 DEF Rearm, TypeOK
  <2> HIDE DEF next
  <2>8. due'[event] <= triggerTime'[event]
    <3>1. Capped(due[event] + period[event]) <= next
      BY <1>0, <2>1, <2>4, <2>5, <2>6, Times
    <3> QED
      BY <1>0, <2>1, <2>7, <3>1 DEF TypeOK
  <2>9. \A t \in Timer : Armed(t)' => Armed(t)
    BY <2>7 DEF Armed, OnList
  <2>10. \A t \in Timer : Armed(t)' => due'[t] <= triggerTime'[t]
    BY <1>0, <2>7, <2>8, <2>9 DEF DueKept, TypeOK
  <2> QED
    BY <2>7, <2>10 DEF DueKept
<1>3. CASE Reinsert
  <2>1. \A t \in Timer : OnList(t)' <=> OnList(t) \/ t = event
    BY <1>3, InsertStep DEF Reinsert, Holding
  <2>2. \A t \in Timer : Armed(t)' => Armed(t)
    BY <1>3, <2>1 DEF Reinsert, Armed
  <2> QED
    BY <1>3, <2>2 DEF Reinsert, DueKept
<1>4. CASE CheckDone
  BY <1>4 DEF CheckDone, DueKept, Armed, OnList
<1> QED
  BY <1>1, <1>2, <1>3, <1>4

LEMMA NextDueKept == NoWrap /\ IInv /\ DueKept /\ [Next]_vars => DueKept'
<1> SUFFICES ASSUME NoWrap, IInv, DueKept, [Next]_vars PROVE DueKept'
  OBVIOUS
<1>1. ASSUME NEW duration \in Duration, CoreTimerTick(duration)  PROVE DueKept'
  <2>1. TypeOK
    BY DEF IInv
  <2>2. /\ UNCHANGED <<timerList, triggerTime, period, event, arg, due>>
        /\ pc' = pc \/ (pc = "idle" /\ pc' = "dispatch")
        /\ systemTime' \in Int /\ systemTime' >= systemTime
    BY <1>1, <2>1, Times, TimerAssumption DEF CoreTimerTick, TypeOK
  <2>3. \A t \in Timer : Armed(t)' => Armed(t)
    BY <2>2 DEF Armed, OnList
  <2>4. pc = "read" => due[event] <= Capped(systemTime' + arg)
    BY <2>1, <2>2, Times, TimerAssumption DEF DueKept, Capped, IInv, EventHeld, Holding
  <2> QED
    BY <2>2, <2>3, <2>4 DEF DueKept
<1>2. CASE Unlock \/ Lower \/ Restore \/ Dispatch \/ CheckTimers
  BY <1>2 DEF Unlock, Lower, Restore, Dispatch, CheckTimers, DueKept, Armed, OnList
<1>3. CASE UNCHANGED vars
  BY <1>3 DEF vars, DueKept, Armed, OnList
<1> QED
  BY <1>1, <1>2, <1>3, SetTimerDueKept, CheckDueKept DEF Next, Tick, TimerCode, Caller

-----------------------------------------------------------------------------
(* Theorems                                                                 *)

(* Every state of the timer services has its type: no trigger time leaves the
   range of a UINT64, and the time CoreCheckTimers works with is one.       *)
THEOREM TypeCorrect == Spec => []TypeOK
<1>1. IInv => TypeOK
  BY DEF IInv
<1> QED
  BY <1>1, SpecIInv, PTL

(* CoreInsertEventTimer: the timers are in ascending order of their trigger
   times and each at most once, for any number of them.                     *)
THEOREM SortedHolds == Spec => []Sorted
<1>1. IInv => Sorted
  BY DEF IInv
<1> QED
  BY <1>1, SpecIInv, PTL

(* CoreTimerTick and CoreCheckTimers: when the processor goes on with no check
   pending, every timer that some tick found expired has been served.       *)
THEOREM TickServedHolds == Spec => []TickServed
<1>1. IInv => TickServed
  BY DEF IInv, LateServed, TickServed
<1> QED
  BY <1>1, SpecIInv, PTL

(* SetTimer and CoreCheckTimers: no timer is signalled before the time that
   has passed since it was set, or since its expiry before, is as long as its
   caller asked.  The 64 bits of the time are the limit: a delay that takes the
   sum past them is outside the theorem.                                    *)
THEOREM NotEarlyHolds ==
  ASSUME NoWrap
  PROVE  Spec => NotEarly
<1>1. Init => DueKept
  BY InitDueKept
<1>2. IInv /\ DueKept /\ [Next]_vars => DueKept'
  BY NextDueKept
<1>3. IInv /\ DueKept /\ [Next]_vars =>
        [\A t \in Timer : Fire(t) => systemTime >= due[t]]_vars
  <2> SUFFICES ASSUME IInv, DueKept, NEW t \in Timer, Fire(t)
               PROVE  systemTime >= due[t]
    OBVIOUS
  <2>1. TypeOK /\ TimeRead
    BY DEF IInv
  <2>2. pc = "scan" /\ timerList # << >> /\ t = Head(timerList) /\ triggerTime[t] <= arg
    BY DEF Fire, HeadExpired
  <2>3. OnList(t)
    BY <2>1, <2>2, HeadTailProperties, LenProperties DEF TypeOK, OnList
  <2>4. due[t] <= triggerTime[t] /\ arg <= systemTime
    BY <2>1, <2>2, <2>3 DEF DueKept, Armed, TimeRead
  <2> QED
    BY <2>1, <2>2, <2>4, Times
<1> QED
  BY <1>1, <1>2, <1>3, SpecIInv, PTL DEF Spec, NotEarly

=============================================================================
