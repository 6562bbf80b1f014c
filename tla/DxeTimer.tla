------------------------------ MODULE DxeTimer ------------------------------
(***************************************************************************)
(* The timer services of the DXE core (MdeModulePkg/Core/Dxe/Event/Timer.c)*)
(*                                                                         *)
(* SetTimer and CoreCheckTimers run under mEfiTimerLock at                 *)
(* TPL_HIGH_LEVEL - 1, so they exclude each other, but interrupts stay     *)
(* enabled: CoreTimerTick reads the head of the list and advances          *)
(* mEfiSystemTime between any two of their steps.  CoreCheckTimers is the  *)
(* notification of mEfiCheckTimerEvent, itself at TPL_HIGH_LEVEL - 1: it   *)
(* runs when a level below that is restored (DxeEvent).                    *)
(***************************************************************************)
EXTENDS Integers, Sequences, FiniteSets, SequencesExt

CONSTANTS
  Timer,         \* the EVT_TIMER events
  None,          \* no event
  Delay,         \* the TriggerTime arguments callers pass to SetTimer
  TimerPeriod,   \* what gTimer->GetTimerPeriod returns
  Duration,      \* the Durations the timer driver passes to CoreTimerTick
  Wrap,          \* 2^64: the range of a UINT64
  MaxTime        \* bound: the system time stops here

ASSUME TimerAssumption ==
  /\ None \notin Timer
  /\ Wrap \in Nat \ {0}
  /\ MaxTime \in 0 .. Wrap - 1
  /\ TimerPeriod \in 1 .. Wrap - 1
  /\ Duration \subseteq 1 .. Wrap - 1
  /\ Delay \subseteq 0 .. Wrap - 1

UINT64 == 0 .. Wrap - 1

VARIABLES
  systemTime,    \* mEfiSystemTime
  timerList,     \* mEfiTimerList
  triggerTime,   \* Timer.TriggerTime
  period,        \* Timer.Period
  checkSignal,   \* mEfiCheckTimerEvent is signalled and queued
  pc,            \* the timer service in progress
  event,         \* its Event
  arg,           \* its TriggerTime argument, or the SystemTime it read
  due,           \* history: the time the caller asked the timer to expire at
  late           \* history: timers a tick found expired, not served since

vars == <<systemTime, timerList, triggerTime, period, checkSignal, pc, event,
          arg, due, late>>

(* Times past MaxTime are not told apart in the history.                    *)
Capped(time) == IF time > MaxTime THEN MaxTime + 1 ELSE time

-----------------------------------------------------------------------------
(* Event->Timer.Link.ForwardLink != NULL                                    *)
OnList(t) == \E i \in DOMAIN timerList : timerList[i] = t

(* RemoveEntryList of the link of t, if it is on the list.                  *)
Unlinked(t) ==
  IF OnList(t)
  THEN RemoveAt(timerList, CHOOSE i \in DOMAIN timerList : timerList[i] = t)
  ELSE timerList

(* CoreInsertEventTimer: before the first timer with a later trigger time.   *)
InsertLast(t) == Append(timerList, t)                          \* mutant
CoreInsertEventTimer(t) ==
  LET after == {i \in DOMAIN timerList : triggerTime[timerList[i]] > triggerTime[t]}
      at    == IF after = {} THEN Len(timerList) + 1
                             ELSE CHOOSE i \in after : \A j \in after : i <= j
  IN  InsertAt(timerList, at, t)

(* The first timer of the list has expired: what CoreTimerTick tests, and
   what keeps the loop of CoreCheckTimers going.                            *)
HeadExpiredStrictly(time) ==                                   \* mutant
  timerList # << >> /\ triggerTime[Head(timerList)] < time
HeadExpiresNext(time) ==                                       \* mutant
  timerList # << >> /\ triggerTime[Head(timerList)] <= time + 1
HeadExpired(time) == timerList # << >> /\ triggerTime[Head(timerList)] <= time

(* The new trigger time of a periodic timer: never before now.              *)
SameTrigger(t, now) == now                                     \* mutant
NextTrigger(t, now) ==
  LET next == (triggerTime[t] + period[t]) % Wrap
  IN  IF next <= now THEN now ELSE next

-----------------------------------------------------------------------------
(* CoreInitializeTimer.                                                     *)
Init ==
  /\ systemTime = 0
  /\ timerList = << >>
  /\ triggerTime = [t \in Timer |-> 0]
  /\ period = [t \in Timer |-> 0]
  /\ checkSignal = FALSE
  /\ pc = "idle"
  /\ event = None
  /\ arg = 0
  /\ due = [t \in Timer |-> 0]
  /\ late = {}

(* CoreTimerTick, from the timer interrupt.  Below TPL_HIGH_LEVEL - 1 the
   interrupt handler's RestoreTPL dispatches the check event at once.       *)
CoreTimerTick(duration) ==
  LET now == IF systemTime + duration <= MaxTime THEN systemTime + duration
                                                 ELSE MaxTime
  IN  /\ systemTime' = now
      /\ checkSignal' = (checkSignal \/ HeadExpired(now))
      /\ late' = late \cup {t \in Timer : OnList(t) /\ triggerTime[t] <= now}
      /\ pc' = IF pc = "idle" /\ checkSignal' THEN "dispatch" ELSE pc
      /\ UNCHANGED <<timerList, triggerTime, period, event, arg, due>>

-----------------------------------------------------------------------------
(* CoreSetTimer: the lock is taken and the timer removed; a cancelled timer
   is done.  A periodic timer with no period gets that of the tick.         *)
CancelTimer(t) ==
  /\ pc = "idle"
  /\ timerList' = Unlinked(t)
  /\ triggerTime' = [triggerTime EXCEPT ![t] = 0]
  /\ period' = [period EXCEPT ![t] = 0]
  /\ late' = late \ {t}
  /\ pc' = "unlock"
  /\ UNCHANGED <<systemTime, checkSignal, event, arg, due>>

SetTimer(t, type, delay) ==
  LET given == IF type = "periodic" /\ delay = 0 THEN TimerPeriod ELSE delay
  IN  /\ pc = "idle"
      /\ timerList' = Unlinked(t)
      /\ triggerTime' = [triggerTime EXCEPT ![t] = 0]
      /\ period' = [period EXCEPT ![t] = IF type = "periodic" THEN given ELSE 0]
      /\ due' = [due EXCEPT ![t] = Capped(systemTime + given)]
      /\ late' = late \ {t}
      /\ event' = t
      /\ arg' = given
      /\ pc' = "read"
      /\ UNCHANGED <<systemTime, checkSignal>>

(* Event->Timer.TriggerTime = CoreCurrentSystemTime () + TriggerTime.       *)
SetTimerRead ==
  /\ pc = "read"
  /\ triggerTime' = [triggerTime EXCEPT ![event] = (systemTime + arg) % Wrap]
  /\ pc' = "insert"
  /\ UNCHANGED <<systemTime, timerList, period, checkSignal, event, arg, due, late>>

(* The timer is inserted, and one that expires at once asks for a check.    *)
SetTimerInsert ==
  /\ pc = "insert"
  /\ timerList' = CoreInsertEventTimer(event)
  /\ pc' = IF arg = 0 THEN "signal" ELSE "unlock"
  /\ UNCHANGED <<systemTime, triggerTime, period, checkSignal, event, arg, due, late>>

SetTimerSignal ==
  /\ pc = "signal"
  /\ checkSignal' = TRUE
  /\ pc' = "unlock"
  /\ UNCHANGED <<systemTime, timerList, triggerTime, period, event, arg, due, late>>

(* CoreReleaseLock calls CoreRestoreTpl, which dispatches the check event if
   it is pending; a tick may still come before the level is lowered.        *)
Unlock ==
  /\ pc = "unlock"
  /\ pc' = IF checkSignal THEN "dispatch" ELSE "lower"
  /\ event' = None
  /\ arg' = 0
  /\ UNCHANGED <<systemTime, timerList, triggerTime, period, checkSignal, due, late>>

Lower ==
  /\ pc = "lower"
  /\ pc' = "idle"
  /\ UNCHANGED <<systemTime, timerList, triggerTime, period, checkSignal, event,
                 arg, due, late>>

(* Any other RestoreTPL dispatches a check that a tick left pending between
   the loop test and the lowering of the level.                             *)
Restore ==
  /\ pc = "idle" /\ checkSignal
  /\ pc' = "dispatch"
  /\ UNCHANGED <<systemTime, timerList, triggerTime, period, checkSignal, event,
                 arg, due, late>>

-----------------------------------------------------------------------------
(* CoreDispatchEventNotifies takes the check event (its SignalCount is
   cleared) and calls CoreCheckTimers, until the event is not queued.       *)
Dispatch ==
  /\ pc = "dispatch"
  /\ checkSignal' = FALSE
  /\ pc' = "check"
  /\ UNCHANGED <<systemTime, timerList, triggerTime, period, event, arg, due, late>>

(* CoreCheckTimers: SystemTime is read once.                                *)
CheckTimers ==
  /\ pc = "check"
  /\ arg' = systemTime
  /\ pc' = "scan"
  /\ UNCHANGED <<systemTime, timerList, triggerTime, period, checkSignal, event,
                 due, late>>

(* The first timer has expired: it is removed and signalled.                *)
Fire(t) ==
  /\ pc = "scan"
  /\ HeadExpired(arg) /\ t = Head(timerList)
  /\ timerList' = Tail(timerList)
  /\ late' = late \ {t}
  /\ event' = t
  /\ pc' = IF period[t] # 0 THEN "rearm" ELSE "scan"
  /\ UNCHANGED <<systemTime, triggerTime, period, checkSignal, arg, due>>

(* A periodic timer is set again; one that is behind starts from now, and
   asks for another check.                                                  *)
Rearm ==
  LET next == NextTrigger(event, arg)
  IN  /\ pc = "rearm"
      /\ triggerTime' = [triggerTime EXCEPT ![event] = next]
      /\ checkSignal' = (checkSignal \/ next = arg)
      /\ due' = [due EXCEPT ![event] = Capped(@ + period[event])]
      /\ pc' = "reinsert"
      /\ UNCHANGED <<systemTime, timerList, period, event, arg, late>>

Reinsert ==
  /\ pc = "reinsert"
  /\ timerList' = CoreInsertEventTimer(event)
  /\ pc' = "scan"
  /\ UNCHANGED <<systemTime, triggerTime, period, checkSignal, event, arg, due, late>>

(* No expired timer is left: back to the dispatcher, which calls the function
   again if a tick, or a timer that is behind, has signalled the event.     *)
CheckDone ==
  /\ pc = "scan"
  /\ ~HeadExpired(arg)
  /\ pc' = "unlock"
  /\ UNCHANGED <<systemTime, timerList, triggerTime, period, checkSignal, event,
                 arg, due, late>>

-----------------------------------------------------------------------------
Tick == \E duration \in Duration : CoreTimerTick(duration)

TimerCode ==
  \/ SetTimerRead \/ SetTimerInsert \/ SetTimerSignal \/ Unlock \/ Lower
  \/ Dispatch \/ CheckTimers \/ (\E t \in Timer : Fire(t))
  \/ Rearm \/ Reinsert \/ CheckDone

Caller ==
  \/ Restore
  \/ \E t \in Timer :
       \/ CancelTimer(t)
       \/ \E type \in {"relative", "periodic"}, delay \in Delay : SetTimer(t, type, delay)

Next == Tick \/ TimerCode \/ Caller

Spec == Init /\ [][Next]_vars

(* Interrupts keep coming and, between two of them, the processor makes
   progress.  Callers need not call anything.                               *)
FairSpec == Spec /\ WF_vars(Tick) /\ WF_vars(TimerCode)

-----------------------------------------------------------------------------
(* The type of the state.                                                   *)
TypeOK ==
  /\ systemTime \in 0 .. MaxTime
  /\ timerList \in Seq(Timer)
  /\ triggerTime \in [Timer -> UINT64]
  /\ period \in [Timer -> UINT64]
  /\ checkSignal \in BOOLEAN
  /\ pc \in {"idle", "read", "insert", "signal", "unlock", "lower", "dispatch",
             "check", "scan", "rearm", "reinsert"}
  /\ event \in Timer \cup {None}
  /\ arg \in UINT64
  /\ due \in [Timer -> 0 .. MaxTime + 1]
  /\ late \subseteq Timer

(* The comment of CoreInsertEventTimer: the timers are in ascending order of
   their trigger times, each at most once, whatever interrupts the insertion;
   the tick, which looks at the first one only, relies on it.               *)
Sorted ==
  \A i, j \in DOMAIN timerList :
    i < j => /\ triggerTime[timerList[i]] <= triggerTime[timerList[j]]
             /\ timerList[i] # timerList[j]

(* The tick asks for a check if the first timer has expired, and the check
   compares with the time it read at its beginning.  Still, once the processor
   goes on below the level of the timer services with no check pending, every
   timer that some tick found expired has been signalled, cancelled or set
   again.                                                                   *)
TickServed == (pc = "idle" /\ ~checkSignal) => late = {}

(* The description of SetTimer: TriggerTime is "the number of 100ns units
   until the timer expires".  CoreCheckTimers signals no timer before the time
   that has passed since SetTimer, or since the expiry before, is that long. *)
NotEarly == [][\A t \in Timer : Fire(t) => systemTime >= due[t]]_vars

(* A timer that is set expires: under the ticks it is served in the end, even
   if it expired between the reading of the time and its insertion.         *)
TimerServed ==
  \A t \in Timer :
    (OnList(t) /\ triggerTime[t] <= MaxTime) ~>
      (~OnList(t) \/ triggerTime[t] > MaxTime)

(* CoreCheckTimers ends: signalling itself again for a timer that is behind
   does not keep the processor at the level of the timer services.          *)
CheckEnds == pc = "dispatch" ~> pc = "idle"

=============================================================================
