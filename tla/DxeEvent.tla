------------------------------ MODULE DxeEvent ------------------------------
(***************************************************************************)
(* Events and task priority levels of the DXE core                         *)
(* (MdeModulePkg/Core/Dxe/Event/Event.c, Tpl.c and Library/Library.c).     *)
(*                                                                         *)
(* One processor runs everything: the application or driver code at the    *)
(* bottom of the stack, notification functions dispatched by               *)
(* CoreRestoreTpl, and the timer interrupt, which may arrive after any     *)
(* instruction executed with interrupts enabled.  The model is that        *)
(* processor's call stack.  A code frame (application, notification,       *)
(* RaiseTPL region) calls boot services; an "isr" frame is the timer       *)
(* interrupt handler; a "restore" frame is an activation of                *)
(* CoreRestoreTpl together with the CoreDispatchEventNotifies it calls.    *)
(*                                                                         *)
(* gEventQueueLock is an EFI_LOCK at TPL_HIGH_LEVEL: acquiring it disables *)
(* interrupts, so a critical section is one step, and releasing it is a    *)
(* call of CoreRestoreTpl, which may run notifications before it returns.  *)
(***************************************************************************)
EXTENDS Integers, Sequences, FiniteSets, SequencesExt

CONSTANTS
  Event,         \* the IEVENT structures the run may allocate
  None,          \* no event (a NULL pointer)
  TickEvent,     \* mEfiCheckTimerEvent, created by CoreInitializeTimer
  IdleEvent,     \* gIdleLoopEvent, created by CoreInitializeEventServices
  Param,         \* [Event -> arguments of CreateEventEx]
  ProtocolEvents,\* the events callers pass to RegisterProtocolNotify
  WaitList,      \* the UserEvents array passed to WaitForEvent
  RaiseLevels,   \* the levels callers raise to
  MaxRaised,     \* bound: RaiseTPL regions open at once
  MaxIntr,       \* bound: timer interrupts being handled at once
  Rereads        \* the build loads gEventPending twice in the loop of RestoreTpl

TPL_APPLICATION == 4
TPL_CALLBACK    == 8
TPL_NOTIFY      == 16
TPL_HIGH_LEVEL  == 31
Tpl == 0 .. TPL_HIGH_LEVEL

(* gProtocolDatabaseLock.Tpl                                                *)
LowProtocolLock == TPL_APPLICATION                             \* mutant
ProtocolLockTpl == TPL_NOTIFY

(* Type, NotifyTpl and EventGroup as the caller passes them.  EVT_TIMER and
   EVT_RUNTIME are orthogonal to what is modelled here.                     *)
EventArgs == [type  : {"NONE", "WAIT", "SIGNAL", "EXIT_BOOT", "VA_CHANGE"},
              tpl   : Tpl,
              group : STRING]
NoGroup       == "none"
ExitBootGroup == "ExitBootServices"
VaChangeGroup == "VirtualAddressChange"

(***************************************************************************)
(* The type, group and level CoreCreateEventInternal stores: the           *)
(* predefined groups force their type, the UEFI 1.10 types their group,    *)
(* and a type without notification has level 0.                            *)
(***************************************************************************)
IsSignal(e) == \/ Param[e].type \in {"SIGNAL", "EXIT_BOOT", "VA_CHANGE"}
               \/ Param[e].group \in {ExitBootGroup, VaChangeGroup}
IsWait(e)   == Param[e].type = "WAIT" /\ ~IsSignal(e)

EventGroup(e) == CASE Param[e].type = "EXIT_BOOT" -> ExitBootGroup
                   [] Param[e].type = "VA_CHANGE" -> VaChangeGroup
                   [] OTHER -> Param[e].group

NotifyTpl(e) == IF IsSignal(e) \/ IsWait(e) THEN Param[e].tpl ELSE 0

(* The arguments CoreCreateEventEx and CoreCreateEventInternal accept.      *)
ValidArgs(e) ==
  /\ Param[e].type \in {"EXIT_BOOT", "VA_CHANGE"} => Param[e].group = NoGroup
  /\ Param[e].type \in {"WAIT", "SIGNAL", "EXIT_BOOT", "VA_CHANGE"} =>
       Param[e].tpl \in {TPL_APPLICATION, TPL_CALLBACK, TPL_NOTIFY}
  /\ IsSignal(e) \/ IsWait(e) =>
       TPL_APPLICATION < Param[e].tpl /\ Param[e].tpl < TPL_HIGH_LEVEL

ASSUME EventAssumption ==
  /\ None \notin Event
  /\ Param \in [Event -> EventArgs]
  /\ WaitList \in Seq(Event)
  /\ ProtocolEvents \subseteq Event \ {TickEvent, IdleEvent}
  /\ RaiseLevels \subseteq TPL_APPLICATION .. TPL_HIGH_LEVEL
  /\ MaxRaised \in Nat /\ MaxIntr \in Nat /\ Rereads \in BOOLEAN

ASSUME CoreEventAssumption ==
  /\ TickEvent \in Event /\ IdleEvent \in Event /\ TickEvent # IdleEvent
  /\ Param[TickEvent] = [type |-> "SIGNAL", tpl |-> TPL_HIGH_LEVEL - 1,
                         group |-> NoGroup]
  /\ Param[IdleEvent] = [type |-> "SIGNAL", tpl |-> TPL_NOTIFY,
                         group |-> "IdleLoop"]

VARIABLES
  currentTpl,    \* gEfiCurrentTpl
  intr,          \* the processor accepts interrupts
  pending,       \* gEventPending, as the set of its one bits
  queue,         \* gEventQueue[]: events whose notification is queued
  signalList,    \* gEventSignalQueue: every NOTIFY_SIGNAL event, newest first
  life,          \* an event's Signature: allocated, being closed, freed
  signalCount,   \* SignalCount
  protoReg,      \* events registered by RegisterProtocolNotify
  closedTpl,     \* history: the level CloseEvent was called at, 0 if never
  late,          \* history: events queued after CloseEvent had unlinked them
  stack          \* the activations on the processor's stack, innermost last

vars == <<currentTpl, intr, pending, queue, signalList, life, signalCount,
          protoReg, closedTpl, late, stack>>

-----------------------------------------------------------------------------
(* A frame's tpl is the level its code runs at (code, isr) or the NewTpl it
   must restore (restore).  local is OldTpl in a RaiseTPL region and
   PendingTpl in CoreRestoreTpl.  ev is the event the operation in progress
   works on, idx a position in gEventSignalQueue, wait one in the wait list;
   await says that the operation found or made ev queued and that ev has not
   been notified since.                                                     *)
CodePc    == {"idle", "group", "walk", "walked", "return", "queue",
              "check", "clear", "wait", "loop", "install", "unlinked"}
RestorePc == {"test", "reread", "lower", "take", "call", "exit", "assert",
              "freed"}

Frame == [kind  : {"app", "raised", "locked", "notify", "isr", "restore"},
          tpl   : Tpl,
          pc    : CodePc \cup RestorePc,
          local : Tpl,
          ev    : Event \cup {None},
          idx   : Nat,
          wait  : 0 .. Len(WaitList),
          await : BOOLEAN]

CodeFrame(kind, tpl, old) ==
  [kind |-> kind, tpl |-> tpl, pc |-> "idle", local |-> old, ev |-> None,
   idx |-> 0, wait |-> 0, await |-> FALSE]

RestoreFrame(new) ==
  [kind |-> "restore", tpl |-> new, pc |-> "test", local |-> new, ev |-> None,
   idx |-> 0, wait |-> 0, await |-> FALSE]

Top == stack[Len(stack)]
IsCode(f) == f.kind \in {"app", "raised", "locked", "notify"}

(* The code of the top frame is about to call a boot service.               *)
Running == Top.kind \in {"app", "raised", "notify"} /\ Top.pc = "idle"

Replace(f) == [stack EXCEPT ![Len(stack)] = f]
Pop        == SubSeq(stack, 1, Len(stack) - 1)

(* CoreReleaseLock of a lock at level `at`, acquired at level `new`: the
   frame continues as f once CoreRestoreTpl(new) has returned.             *)
Release(f, new, at) ==
  /\ stack' = Append(Replace(f), RestoreFrame(new))
  /\ currentTpl' = at
  /\ intr' = (intr /\ at < TPL_HIGH_LEVEL)

ReleaseEventLock(f, new) == Release(f, new, TPL_HIGH_LEVEL)
ReleaseProtocolLock(f)   == Release(f, f.tpl, ProtocolLockTpl)

(* RemoveEntryList of the link of e, if it is on the list s.                *)
StaysLinked(s, e) == s                                         \* mutant
Unlink(s, e) ==
  IF \E i \in DOMAIN s : s[i] = e
  THEN RemoveAt(s, CHOOSE i \in DOMAIN s : s[i] = e)
  ELSE s

Queued(e) == \E i \in DOMAIN queue[NotifyTpl(e)] : queue[NotifyTpl(e)][i] = e

(* CoreNotifyEvent: (re)queue e at the tail of its level.                   *)
NotifyWithoutUnlink(e) ==                                      \* mutant
  /\ queue' = [queue EXCEPT ![NotifyTpl(e)] = Append(@, e)]
  /\ pending' = pending \cup {NotifyTpl(e)}
  /\ UNCHANGED late
NotifyEvent(e) ==
  /\ queue' = [queue EXCEPT ![NotifyTpl(e)] = Append(Unlink(@, e), e)]
  /\ pending' = pending \cup {NotifyTpl(e)}
  /\ late' = IF life[e] = "live" THEN late ELSE late \cup {e}

(* The number of open activations of one kind, for the bounds.              *)
Active(kind) == Cardinality({i \in DOMAIN stack : stack[i].kind = kind})

-----------------------------------------------------------------------------
(* CoreInitializeEventServices and CoreInitializeTimer.                     *)
Init ==
  /\ currentTpl = TPL_APPLICATION
  /\ intr = TRUE
  /\ pending = {}
  /\ queue = [t \in Tpl |-> << >>]
  /\ signalList = <<IdleEvent, TickEvent>>
  /\ life = [e \in Event |-> IF e \in {TickEvent, IdleEvent} THEN "live" ELSE "none"]
  /\ signalCount = [e \in Event |-> 0]
  /\ protoReg = {}
  /\ closedTpl = [e \in Event |-> 0]
  /\ late = {}
  /\ stack = <<CodeFrame("app", TPL_APPLICATION, TPL_APPLICATION)>>

-----------------------------------------------------------------------------
(* Tpl.c                                                                    *)

RaiseTpl(new) ==
  /\ Running
  /\ new >= currentTpl
  /\ Active("raised") < MaxRaised
  /\ stack' = Append(stack, CodeFrame("raised", new, currentTpl))
  /\ currentTpl' = new
  /\ intr' = (intr /\ ~(new >= TPL_HIGH_LEVEL /\ currentTpl < TPL_HIGH_LEVEL))
  /\ UNCHANGED <<pending, queue, signalList, life, signalCount, protoReg, closedTpl, late>>

(* A RaiseTPL region, or a section under the protocol lock, ends by calling
   CoreRestoreTpl with the level RaiseTPL returned.                         *)
RestoreTpl ==
  /\ Top.kind \in {"raised", "locked"} /\ Top.pc = "idle"
  /\ stack' = Replace(RestoreFrame(Top.local))
  /\ UNCHANGED <<currentTpl, intr, pending, queue, signalList, life,
                 signalCount, protoReg, closedTpl, late>>

AtRestore(pc) == Top.kind = "restore" /\ Top.pc = pc

(* HighBitSet64 (gEventPending).                                            *)
LowestBit(p) == p \in pending /\ \A q \in pending : p <= q      \* mutant
Highest(p) == p \in pending /\ \A q \in pending : q <= p

(* The loop goes on while the pending level is above NewTpl.                *)
UnmaskedOrEqual(p, new) == p >= new                            \* mutant
Unmasked(p, new) == p > new

Goto(pc, p) == Replace([Top EXCEPT !.pc = pc, !.local = p])

(* The loop test of CoreRestoreTpl: gEventPending is read, and the level to
   dispatch computed from the value read.                                   *)
TestPending ==
  /\ AtRestore("test")
  /\ \/ pending = {} /\ stack' = Goto("exit", Top.local)
     \/ Rereads /\ pending # {} /\ stack' = Goto("reread", Top.local)
     \/ /\ ~Rereads
        /\ \E p \in pending : Highest(p) /\ ~Unmasked(p, Top.tpl)
        /\ stack' = Goto("exit", Top.local)
     \/ /\ ~Rereads
        /\ \E p \in pending : Highest(p) /\ Unmasked(p, Top.tpl) /\ stack' = Goto("lower", p)
  /\ UNCHANGED <<currentTpl, intr, pending, queue, signalList, life,
                 signalCount, protoReg, closedTpl, late>>

(* gEventPending is a plain UINTN: a build that does not keep the tested
   value in a register loads it again for HighBitSet64, which returns -1 for
   0.  No level is higher: CoreDispatchEventNotifies then fails the ASSERT of
   CoreRaiseTpl.                                                            *)
RereadPending ==
  /\ AtRestore("reread")
  /\ \/ pending = {} /\ stack' = Goto("assert", Top.local)
     \/ \E p \in pending : Highest(p) /\ ~Unmasked(p, Top.tpl) /\ stack' = Goto("exit", Top.local)
     \/ \E p \in pending : Highest(p) /\ Unmasked(p, Top.tpl) /\ stack' = Goto("lower", p)
  /\ UNCHANGED <<currentTpl, intr, pending, queue, signalList, life,
                 signalCount, protoReg, closedTpl, late>>

(* gEfiCurrentTpl = PendingTpl, with interrupts enabled.                    *)
LowerToPending ==
  /\ AtRestore("lower")
  /\ currentTpl' = Top.local
  /\ intr' = (intr \/ Top.local < TPL_HIGH_LEVEL)
  /\ stack' = Goto("take", Top.local)
  /\ UNCHANGED <<pending, queue, signalList, life, signalCount, protoReg, closedTpl, late>>

(* Only a NOTIFY_SIGNAL event stops being signalled when it is dispatched.   *)
ClearedByDispatch(e) == IsSignal(e)

(* CoreDispatchEventNotifies, with the lock held: take the first queued
   event, or clear the pending bit of an empty queue and return.  The CR macro
   asserts that the event's Signature is still there.                       *)
TakeEvent ==
  /\ AtRestore("take")
  /\ LET p == Top.local IN
     \/ /\ queue[p] # << >> /\ life[Head(queue[p])] = "freed"
        /\ stack' = Goto("freed", p)
        /\ UNCHANGED <<currentTpl, intr, queue, signalCount, pending>>
     \/ /\ queue[p] # << >> /\ life[Head(queue[p])] # "freed"
        /\ queue' = [queue EXCEPT ![p] = Tail(@)]
        /\ signalCount' = IF ClearedByDispatch(Head(queue[p]))
                          THEN [signalCount EXCEPT ![Head(queue[p])] = 0]
                          ELSE signalCount
        /\ ReleaseEventLock([Top EXCEPT !.pc = "call", !.ev = Head(queue[p])], p)
        /\ UNCHANGED pending
     \/ /\ queue[p] = << >>
        /\ pending' = pending \ {p}
        /\ ReleaseEventLock([Top EXCEPT !.pc = "test"], p)
        /\ UNCHANGED <<queue, signalCount>>
  /\ UNCHANGED <<signalList, life, protoReg, closedTpl, late>>

(* Event->NotifyFunction (Event, Event->NotifyContext), with the lock
   released: the function runs as a code frame, then the loop goes on.      *)
CallNotify ==
  /\ AtRestore("call") /\ life[Top.ev] # "freed"
  /\ LET returned == [Top EXCEPT !.pc = "take", !.ev = None]
         notified == [i \in DOMAIN stack |->
                        IF stack[i].ev = Top.ev /\ stack[i].kind # "restore"
                        THEN [stack[i] EXCEPT !.await = FALSE] ELSE stack[i]]
     IN  stack' = Append([notified EXCEPT ![Len(stack)] = returned],
                         CodeFrame("notify", Top.local, Top.local))
  /\ UNCHANGED <<currentTpl, intr, pending, queue, signalList, life,
                 signalCount, protoReg, closedTpl, late>>

(* The event was freed after it was taken: the function pointer is read from
   freed pool, and nothing can be said of what follows.                     *)
CallFreed ==
  /\ AtRestore("call") /\ life[Top.ev] = "freed"
  /\ stack' = Goto("freed", Top.local)
  /\ UNCHANGED <<currentTpl, intr, pending, queue, signalList, life,
                 signalCount, protoReg, closedTpl, late>>

NotifyReturn ==
  /\ Running
  /\ Top.kind = "notify"
  /\ stack' = Pop
  /\ UNCHANGED <<currentTpl, intr, pending, queue, signalList, life,
                 signalCount, protoReg, closedTpl, late>>

(* gEfiCurrentTpl = NewTpl, interrupts enabled below TPL_HIGH_LEVEL.        *)
RestoreKeepsLevel ==                                           \* mutant
  /\ AtRestore("exit")
  /\ intr' = (intr \/ Top.tpl < TPL_HIGH_LEVEL)
  /\ stack' = Pop
  /\ UNCHANGED <<currentTpl, pending, queue, signalList, life, signalCount,
                 protoReg, closedTpl, late>>
RestoreExit ==
  /\ AtRestore("exit")
  /\ currentTpl' = Top.tpl
  /\ intr' = (intr \/ Top.tpl < TPL_HIGH_LEVEL)
  /\ stack' = Pop
  /\ UNCHANGED <<pending, queue, signalList, life, signalCount, protoReg, closedTpl, late>>

-----------------------------------------------------------------------------
(* The timer interrupt: the handler raises to TPL_HIGH_LEVEL, CoreTimerTick
   signals mEfiCheckTimerEvent if the first timer has expired, and the level
   is restored, which dispatches what the tick made pending.                *)
Interrupt(expired) ==
  /\ intr
  /\ ~AtRestore("assert") /\ ~AtRestore("freed")
  /\ Active("isr") < MaxIntr
  /\ IF expired /\ signalCount[TickEvent] = 0
       THEN /\ signalCount' = [signalCount EXCEPT ![TickEvent] = 1]
            /\ NotifyEvent(TickEvent)
       ELSE UNCHANGED <<signalCount, queue, pending, late>>
  /\ stack' = Append(Append(stack, CodeFrame("isr", currentTpl, currentTpl)),
                     RestoreFrame(currentTpl))
  /\ currentTpl' = TPL_HIGH_LEVEL
  /\ intr' = FALSE
  /\ UNCHANGED <<signalList, life, protoReg, closedTpl>>

(* End of interrupt and IRET, back to the interrupted instruction.          *)
InterruptReturn ==
  /\ Top.kind = "isr"
  /\ stack' = Pop
  /\ intr' = TRUE
  /\ UNCHANGED <<currentTpl, pending, queue, signalList, life, signalCount,
                 protoReg, closedTpl, late>>

-----------------------------------------------------------------------------
(* Event.c: creation and signalling                                         *)

CreateEvent(e) ==
  /\ Running /\ currentTpl <= TPL_NOTIFY
  /\ life[e] = "none" /\ ValidArgs(e)
  /\ life' = [life EXCEPT ![e] = "live"]
  /\ signalList' = IF IsSignal(e) THEN Cons(e, signalList) ELSE signalList
  /\ ReleaseEventLock(Top, Top.tpl)
  /\ UNCHANGED <<pending, queue, signalCount, protoReg, closedTpl, late>>

(* CoreSignalEvent of e, called by the frame f.                             *)
SignalEvent(f, e) ==
  \/ /\ signalCount[e] # 0
     /\ ReleaseEventLock([f EXCEPT !.pc = "return", !.ev = e, !.await = Queued(e)], f.tpl)
     /\ UNCHANGED <<pending, queue, signalCount, late>>
  \/ /\ signalCount[e] = 0
     /\ signalCount' = [signalCount EXCEPT ![e] = 1]
     /\ \/ /\ ~IsSignal(e)
           /\ ReleaseEventLock([f EXCEPT !.pc = "return", !.ev = e], f.tpl)
           /\ UNCHANGED <<pending, queue, late>>
        \/ /\ IsSignal(e) /\ EventGroup(e) = NoGroup
           /\ NotifyEvent(e)
           /\ ReleaseEventLock([f EXCEPT !.pc = "return", !.ev = e, !.await = TRUE], f.tpl)
        \/ /\ IsSignal(e) /\ EventGroup(e) # NoGroup
           /\ ReleaseEventLock([f EXCEPT !.pc = "group", !.ev = e], f.tpl)
           /\ UNCHANGED <<pending, queue, late>>

(* CoreSignalEvent returns; in WaitForEvent the next round of checks begins. *)
SignalReturn ==
  /\ IsCode(Top) /\ Top.pc = "return"
  /\ stack' = Replace([Top EXCEPT !.pc = IF Top.wait > 0 THEN "wait" ELSE "idle",
                                  !.wait = IF Top.wait > 0 THEN 1 ELSE 0,
                                  !.ev = None, !.await = FALSE])
  /\ UNCHANGED <<currentTpl, intr, pending, queue, signalList, life,
                 signalCount, protoReg, closedTpl, late>>

(* The Signature of an event that CoreCloseEvent has unlinked is still there
   until the event is freed.                                                *)
Signature(e) == life[e] \in {"live", "closing"}

Signal(e) ==
  /\ Running
  /\ Signature(e)
  /\ SignalEvent(Top, e)
  /\ UNCHANGED <<signalList, life, protoReg, closedTpl>>

(* CoreNotifySignalList: walk gEventSignalQueue with the lock held and queue
   every member of the group, without touching its SignalCount.             *)
AtCode(pc) == IsCode(Top) /\ Top.pc = pc

WalkSkipsFirst ==                                              \* mutant
  /\ AtCode("group")
  /\ stack' = Replace([Top EXCEPT !.pc = "walk", !.idx = 2])
  /\ currentTpl' = TPL_HIGH_LEVEL
  /\ intr' = FALSE
  /\ UNCHANGED <<pending, queue, signalList, life, signalCount, protoReg, closedTpl, late>>
WalkBegin ==
  /\ AtCode("group")
  /\ stack' = Replace([Top EXCEPT !.pc = "walk", !.idx = 1])
  /\ currentTpl' = TPL_HIGH_LEVEL
  /\ intr' = FALSE
  /\ UNCHANGED <<pending, queue, signalList, life, signalCount, protoReg, closedTpl, late>>

WalkStep ==
  /\ AtCode("walk")
  /\ Top.idx \in DOMAIN signalList
  /\ LET e == signalList[Top.idx]
     IN  IF EventGroup(e) = EventGroup(Top.ev) THEN NotifyEvent(e)
                                               ELSE UNCHANGED <<queue, pending, late>>
  /\ stack' = Replace([Top EXCEPT !.idx = @ + 1])
  /\ UNCHANGED <<currentTpl, intr, signalList, life, signalCount, protoReg, closedTpl>>

WalkEnd ==
  /\ AtCode("walk")
  /\ Top.idx \notin DOMAIN signalList
  /\ ReleaseEventLock([Top EXCEPT !.pc = "walked", !.idx = 0, !.await = Queued(Top.ev)], Top.tpl)
  /\ UNCHANGED <<pending, queue, signalList, life, signalCount, protoReg, closedTpl, late>>

(* CoreSignalEvent takes and releases the lock once more before returning.  *)
GroupSignalled ==
  /\ AtCode("walked")
  /\ ReleaseEventLock([Top EXCEPT !.pc = "return"], Top.tpl)
  /\ UNCHANGED <<pending, queue, signalList, life, signalCount, protoReg, closedTpl, late>>

-----------------------------------------------------------------------------
(* Event.c: CheckEvent and WaitForEvent                                     *)

(* CoreCheckEvent reads SignalCount without the lock.                       *)
CheckBegin(f, e) ==
  [f EXCEPT !.pc = IF signalCount[e] = 0 /\ IsWait(e) THEN "queue" ELSE "check",
            !.ev = e, !.await = FALSE]

(* The frame after CheckEvent returns; WaitForEvent returns with the first
   status other than EFI_NOT_READY, goes on with the next event, and after
   the last one signals gIdleLoopEvent.                                     *)
WaitPastEnd(f, success) ==                                     \* mutant
  LET g == [f EXCEPT !.ev = None, !.await = FALSE]
  IN  CASE g.wait = 0 \/ success  -> [g EXCEPT !.pc = "idle", !.wait = 0]
        [] g.wait > 0 /\ ~success -> [g EXCEPT !.pc = "wait", !.wait = @ + 1]
AfterCheck(f, success) ==
  LET g == [f EXCEPT !.ev = None, !.await = FALSE]
  IN  CASE g.wait = 0 \/ success -> [g EXCEPT !.pc = "idle", !.wait = 0]
        [] ~success /\ g.wait > 0 /\ g.wait < Len(WaitList)
                                 -> [g EXCEPT !.pc = "wait", !.wait = @ + 1]
        [] ~success /\ g.wait > 0 /\ g.wait >= Len(WaitList)
                                 -> [g EXCEPT !.pc = "loop"]

CheckEvent(e) ==
  /\ Running /\ currentTpl <= TPL_NOTIFY
  /\ Signature(e) /\ ~IsSignal(e)
  /\ stack' = Replace(CheckBegin(Top, e))
  /\ UNCHANGED <<currentTpl, intr, pending, queue, signalList, life,
                 signalCount, protoReg, closedTpl, late>>

(* The lock is taken and SignalCount tested again before the wait
   notification is queued.                                                  *)
CheckQueue ==
  /\ AtCode("queue")
  /\ LET e == Top.ev IN
     \/ /\ signalCount[e] = 0
        /\ NotifyEvent(e)
        /\ ReleaseEventLock([Top EXCEPT !.pc = "check", !.await = TRUE], Top.tpl)
     \/ /\ signalCount[e] # 0
        /\ ReleaseEventLock([Top EXCEPT !.pc = "check"], Top.tpl)
        /\ UNCHANGED <<queue, pending, late>>
  /\ UNCHANGED <<signalList, life, signalCount, protoReg, closedTpl>>

CheckTest ==
  /\ AtCode("check")
  /\ stack' = Replace(IF signalCount[Top.ev] # 0 THEN [Top EXCEPT !.pc = "clear"]
                                                 ELSE AfterCheck(Top, FALSE))
  /\ UNCHANGED <<currentTpl, intr, pending, queue, signalList, life,
                 signalCount, protoReg, closedTpl, late>>

CheckClear ==
  /\ AtCode("clear")
  /\ signalCount' = [signalCount EXCEPT ![Top.ev] = 0]
  /\ ReleaseEventLock(AfterCheck(Top, signalCount[Top.ev] # 0), Top.tpl)
  /\ UNCHANGED <<pending, queue, signalList, life, protoReg, closedTpl, late>>

WaitForEvent ==
  /\ Running
  /\ currentTpl = TPL_APPLICATION
  /\ WaitList # << >>
  /\ stack' = Replace([Top EXCEPT !.pc = "wait", !.wait = 1])
  /\ UNCHANGED <<currentTpl, intr, pending, queue, signalList, life,
                 signalCount, protoReg, closedTpl, late>>

(* An event with a NOTIFY_SIGNAL type ends the wait with an error.          *)
WaitCheck ==
  /\ AtCode("wait")
  /\ LET e == WaitList[Top.wait]
     IN  stack' = Replace(IF IsSignal(e) THEN [Top EXCEPT !.pc = "idle", !.wait = 0]
                                         ELSE CheckBegin(Top, e))
  /\ UNCHANGED <<currentTpl, intr, pending, queue, signalList, life,
                 signalCount, protoReg, closedTpl, late>>

WaitIdle ==
  /\ AtCode("loop")
  /\ SignalEvent(Top, IdleEvent)
  /\ UNCHANGED <<signalList, life, protoReg, closedTpl>>

-----------------------------------------------------------------------------
(* Protocol notifications (Hand/Notify.c), as far as they signal events: the
   protocol database lock is an EFI_LOCK at TPL_NOTIFY.  Each registered
   event waits for a protocol of its own.                                   *)

RegisterProtocolNotify(e) ==
  /\ Running /\ currentTpl <= TPL_NOTIFY
  /\ e \in ProtocolEvents \ protoReg
  /\ protoReg' = protoReg \cup {e}
  /\ ReleaseProtocolLock(Top)
  /\ UNCHANGED <<pending, queue, signalList, life, signalCount, closedTpl, late>>

(* CoreNotifyProtocolEntry, called by InstallProtocolInterface with the
   protocol lock held, signals the registered event.                        *)
InstallProtocol(e) ==
  /\ Running /\ currentTpl <= TPL_NOTIFY
  /\ e \in protoReg
  /\ stack' = Append(stack, [CodeFrame("locked", ProtocolLockTpl, currentTpl)
                               EXCEPT !.pc = "install", !.ev = e])
  /\ currentTpl' = ProtocolLockTpl
  /\ UNCHANGED <<intr, pending, queue, signalList, life, signalCount, protoReg, closedTpl, late>>

InstallSignal ==
  /\ AtCode("install")
  /\ SignalEvent(Top, Top.ev)
  /\ UNCHANGED <<signalList, life, protoReg, closedTpl>>

-----------------------------------------------------------------------------
(* Event.c: CoreCloseEvent                                                  *)

(* The timer is cancelled and, with the lock held, every link removed; the
   pending bit of the level stays as it is.                                 *)
CloseEvent(e) ==
  /\ Running /\ currentTpl <= TPL_NOTIFY
  /\ Signature(e)
  /\ life' = [life EXCEPT ![e] = "closing"]
  /\ closedTpl' = [closedTpl EXCEPT ![e] = currentTpl]
  /\ queue' = [queue EXCEPT ![NotifyTpl(e)] = Unlink(@, e)]
  /\ signalList' = Unlink(signalList, e)
  /\ ReleaseEventLock([Top EXCEPT !.pc = "unlinked", !.ev = e], Top.tpl)
  /\ UNCHANGED <<pending, signalCount, protoReg, late>>

(* CoreUnregisterProtocolNotify, for an event that was ever registered: the
   locked pass that removes its registration.  The last pass finds none and
   changes nothing; it is left out.                                         *)
CloseUnregister ==
  /\ AtCode("unlinked")
  /\ Top.ev \in protoReg
  /\ protoReg' = protoReg \ {Top.ev}
  /\ ReleaseProtocolLock(Top)
  /\ UNCHANGED <<pending, queue, signalList, life, signalCount, closedTpl, late>>

(* Signature = 0 and CoreFreePool.                                          *)
CloseFree ==
  /\ AtCode("unlinked")
  /\ Top.ev \notin protoReg
  /\ life' = [life EXCEPT ![Top.ev] = "freed"]
  /\ stack' = Replace([Top EXCEPT !.pc = "idle", !.ev = None])
  /\ UNCHANGED <<currentTpl, intr, pending, queue, signalList, signalCount,
                 protoReg, closedTpl, late>>

-----------------------------------------------------------------------------
(* What callers are assumed to respect; the services check none of it.      *)

(* An interrupted operation still works on e; the dispatcher's own use of an
   event is not meant.                                                      *)
InUse(e) == \E i \in DOMAIN stack :
              /\ stack[i].kind # "restore"
              /\ \/ stack[i].ev = e
                 \/ stack[i].wait > 0 /\ \E k \in DOMAIN WaitList : WaitList[k] = e

(* gIdleLoopEvent is private to WaitForEvent, and mEfiCheckTimerEvent to the
   timer code, which runs at TPL_HIGH_LEVEL - 1 and otherwise signals timer
   events: a timer is cancelled before its event is unlinked.                *)
MaySignal(e) ==
  /\ e # IdleEvent /\ (e = TickEvent => currentTpl = NotifyTpl(TickEvent))
  /\ \/ life[e] = "live"
     \/ \A i \in DOMAIN stack : stack[i].kind = "notify" => stack[i].tpl <= TPL_NOTIFY

(* An event is not closed from under a service that works on it, nor twice. *)
MayClose(e) == e \notin {TickEvent, IdleEvent} /\ ~InUse(e)

(* Nobody waits for an event that was closed, or registers it.              *)
MayWait == \A k \in DOMAIN WaitList : life[WaitList[k]] = "live"
MayRegister(e) == life[e] = "live"

(* A step of the processor, without interrupts.                             *)
CpuStep ==
  \/ \E new \in RaiseLevels : RaiseTpl(new)
  \/ RestoreTpl \/ TestPending \/ RereadPending \/ LowerToPending
  \/ TakeEvent \/ CallNotify \/ CallFreed \/ NotifyReturn \/ RestoreExit
  \/ InterruptReturn
  \/ \E e \in Event :
       \/ CreateEvent(e) \/ CheckEvent(e) \/ InstallProtocol(e)
       \/ MaySignal(e) /\ Signal(e)
       \/ MayClose(e) /\ CloseEvent(e)
       \/ MayRegister(e) /\ RegisterProtocolNotify(e)
  \/ SignalReturn \/ WalkBegin \/ WalkStep \/ WalkEnd \/ GroupSignalled
  \/ CheckQueue \/ CheckTest \/ CheckClear
  \/ (MayWait /\ WaitForEvent) \/ WaitCheck \/ WaitIdle
  \/ InstallSignal
  \/ CloseUnregister \/ CloseFree

Next == CpuStep \/ \E expired \in BOOLEAN : Interrupt(expired)

Spec == Init /\ [][Next]_vars

-----------------------------------------------------------------------------
(* The type of the state.                                                   *)
TypeOK ==
  /\ currentTpl \in Tpl
  /\ intr \in BOOLEAN
  /\ pending \subseteq Tpl
  /\ queue \in [Tpl -> Seq(Event)]
  /\ signalList \in Seq(Event)
  /\ life \in [Event -> {"none", "live", "closing", "freed"}]
  /\ signalCount \in [Event -> {0, 1}]
  /\ protoReg \subseteq Event
  /\ closedTpl \in [Event -> Tpl]
  /\ late \subseteq Event
  /\ stack \in Seq(Frame) /\ stack # << >>

(* A notification function is never entered while one of the same or of a
   higher level is running: whatever CoreRestoreTpl, the interrupt handler
   and the locks nest, the levels of the notifications on the stack strictly
   increase, so no notification function is re-entered.                     *)
NoReentry ==
  \A i, j \in DOMAIN stack :
    (i < j /\ stack[i].kind = "notify" /\ stack[j].kind = "notify") =>
      stack[i].tpl < stack[j].tpl

(* No queued notification is forgotten: an event is on at most the queue of
   its own level, once, and the bit of that level in gEventPending is set.  *)
QueuedPending ==
  \A t \in Tpl : \A i \in DOMAIN queue[t] :
    /\ NotifyTpl(queue[t][i]) = t
    /\ t \in pending
    /\ \A j \in DOMAIN queue[t] : queue[t][i] = queue[t][j] => i = j

(* The level t suits the frame f: the one being dispatched while a
   notification is taken or called, any level from NewTpl up elsewhere in
   CoreRestoreTpl, and otherwise the level the code was called at.          *)
Suits(f, t) ==
  CASE f.kind = "restore" /\ f.pc \in {"take", "call"}    -> t = f.local
    [] f.kind = "restore" /\ f.pc \notin {"take", "call"} -> t >= f.tpl
    [] f.kind # "restore" -> t = f.tpl

(* The ASSERTs of CoreDispatchEventNotifies (the lock was taken at the level
   being dispatched) and of CoreRestoreTpl (a level is only lowered): whatever
   was nested above a frame, it goes on at the level it relies on, and
   gEventSignalQueue is walked with interrupts off.                         *)
LevelRestored ==
  IF Top.pc = "walk" THEN currentTpl = TPL_HIGH_LEVEL /\ ~intr
                     ELSE Suits(Top, currentTpl)

(* What holds of every frame: its operation works on an event, its position in
   the wait list exists, a level is dispatched only above NewTpl.           *)
FrameOK(f) ==
  /\ f.pc \in RestorePc <=> f.kind = "restore"
  /\ f.kind = "isr" => f.pc = "idle"
  /\ f.pc \in {"group", "walk", "walked", "return", "queue", "check", "clear",
               "install", "unlinked", "call"} => f.ev \in Event
  /\ f.pc \in {"wait", "loop"} => f.wait > 0
  /\ f.pc = "unlinked" => f.tpl <= TPL_NOTIFY
  /\ f.pc \in {"lower", "take", "call"} => f.local > f.tpl
  /\ f.kind \in {"raised", "locked"} => f.local <= f.tpl

(* The level a frame leaves behind when it returns.                         *)
ReturnTpl(f) == IF f.kind \in {"raised", "locked"} THEN f.local ELSE f.tpl

(* Frame g was pushed by frame f.                                           *)
Pushed(f, g) ==
  /\ f.pc # "walk" /\ Suits(f, ReturnTpl(g))
  /\ g.kind # "app"
  /\ g.kind \in {"raised", "locked"} => f.kind # "restore"
  /\ g.kind = "notify" => f.kind = "restore" /\ f.pc = "take"

(* The stack discipline of levels: every activation returns to the level its
   caller relies on, levels never decrease towards the top, and a notification
   runs on top of the dispatcher of its level.  It is the reason for NoReentry
   and LevelRestored.                                                       *)
WellNested(s) ==
  /\ s \in Seq(Frame) /\ Len(s) > 0 /\ s[1].kind = "app"
  /\ \A i \in 1 .. Len(s) : FrameOK(s[i])
  /\ \A i \in 1 .. Len(s) - 1 : Pushed(s[i], s[i + 1])
  /\ \A i, j \in 1 .. Len(s) : i < j => s[i].tpl <= s[j].tpl
StackDiscipline == WellNested(stack)

(* Boot service callers never find gProtocolDatabaseLock held: the ASSERT of
   CoreAcquireLock that the lock is released.                               *)
ProtocolLockFree ==
  \A i, j \in DOMAIN stack :
    stack[i].kind = "locked" /\ stack[j].kind = "locked" => i = j

(* A signal is not lost: a signalled NOTIFY_SIGNAL event is queued, or the
   operation that signalled it has yet to reach it in gEventSignalQueue.    *)
SignalNotLost ==
  \A e \in Event : (life[e] = "live" /\ IsSignal(e) /\ signalCount[e] # 0) =>
    \/ Queued(e)
    \/ \E i \in DOMAIN stack :
         /\ stack[i].ev = e
         /\ \/ stack[i].pc = "group"
            \/ /\ stack[i].pc = "walk"
               /\ \E k \in DOMAIN signalList : k >= stack[i].idx /\ signalList[k] = e

(* A boot service that queues a notification above the caller's level does
   not return before the notification function has been called, although
   every window of CoreRestoreTpl may be interrupted: SignalEvent returns, and
   CheckEvent looks at SignalCount, after the notification.                 *)
NotifiedOnReturn ==
  (IsCode(Top) /\ Top.pc \in {"return", "check"} /\ Top.await) =>
    Top.tpl >= NotifyTpl(Top.ev)

(* The dispatcher drops the lock between taking an event and calling its
   notification function, and CloseEvent drops it between unlinking the event
   and clearing its Signature.  Only through these two windows is the function
   of an event called that is being or has been closed: CloseEvent was called
   from above the event's own level, or the event was queued once more while
   it was being closed.                                                     *)
NoCallAfterClose ==
  AtRestore("call") /\ life[Top.ev] # "live" =>
    closedTpl[Top.ev] > NotifyTpl(Top.ev) \/ Top.ev \in late

(* The comment in CoreCloseEvent: clearing the Signature avoids that the
   event is "signalled wrongly after closed".  A freed event is on no queue. *)
FreedNotQueued ==
  \A e \in Event : life[e] = "freed" => ~Queued(e)

(* The description of CoreRestoreTpl: "If the new priority unmasks events at
   a higher priority, they are dispatched."                                 *)
RestoreDispatches ==
  [][RestoreExit => \A t \in Tpl : t > Top.tpl => queue[t] = << >>]_vars

=============================================================================
