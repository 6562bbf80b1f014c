------------------------ MODULE DxeEventSignalProofs ------------------------
(***************************************************************************)
(* Theorems about DxeEvent, on top of DxeEventProofs: for every set of      *)
(* events and any nesting of interrupts, no signal is lost, a service that  *)
(* queues a notification above its caller's level does not return before    *)
(* the notification, the protocol lock is never taken twice, and a closed   *)
(* event is called only if it was closed from above its own level or queued *)
(* again while it was being closed.                                         *)
(***************************************************************************)
EXTENDS DxeEventProofs

-----------------------------------------------------------------------------
(* The inductive invariant                                                  *)

(* What the operation of a frame knows of the events it works on, when the
   events are in the states l: a caller closes no event that an operation it
   interrupts works on.                                                     *)
FrameUse(f, l) ==
  f.kind # "restore" =>
    /\ f.pc \in {"idle", "wait", "loop"} => f.ev = None
    /\ f.ev # None => l[f.ev] \in {"live", "closing"}
    /\ f.pc = "unlinked" => l[f.ev] = "closing"
    /\ f.pc \in {"group", "walk"} => IsSignal(f.ev)
    /\ f.pc = "walk" => f.idx >= 1
    /\ f.wait > 0 => \A k \in DOMAIN WaitList : l[WaitList[k]] = "live"
    /\ f.await => f.pc \in {"walked", "return", "check", "clear"}
    /\ f.kind = "locked" => f.tpl = TPL_NOTIFY
FramesUse == \A i \in 1 .. Len(stack) : FrameUse(stack[i], life)

(* Whatever works on an event that is being closed interrupts CloseEvent.   *)
CloseBelow ==
  \A i, j \in 1 .. Len(stack) :
    (i < j /\ stack[i].kind # "restore" /\ stack[j].pc = "unlinked") =>
      stack[i].ev # stack[j].ev

(* gEventSignalQueue is the list of the live NOTIFY_SIGNAL events.          *)
ListExact ==
  /\ \A k \in DOMAIN signalList : life[signalList[k]] = "live" /\ IsSignal(signalList[k])
  /\ \A k, l \in DOMAIN signalList : signalList[k] = signalList[l] => k = l
  /\ \A e \in Event : life[e] = "live" /\ IsSignal(e) =>
       \E k \in DOMAIN signalList : signalList[k] = e

(* Queued(e), of the queues q.                                              *)
InQueue(q, e) == \E i \in DOMAIN q[NotifyTpl(e)] : q[NotifyTpl(e)][i] = e

(* What is known of the events themselves.                                  *)
EventsUse ==
  /\ life[TickEvent] = "live" /\ life[IdleEvent] = "live"
  /\ protoReg \subseteq ProtocolEvents /\ \A e \in protoReg : life[e] \in {"live", "closing"}
  /\ \A e \in Event : signalCount[e] # 0 => life[e] # "none"
  /\ \A e \in Event : InQueue(queue, e) => life[e] = "live" \/ e \in late

(* The level above which code may run while f waits for it to return.       *)
Level(f) == IF f.kind = "restore" /\ f.pc = "call" THEN f.local ELSE f.tpl
Waits(f) == f.kind \in {"restore", "isr", "locked"} \/ f.pc # "idle"

(* Code that runs while a frame waits runs above the level of that frame.   *)
CodeAbove ==
  \A i, j \in 1 .. Len(stack) :
    (i < j /\ IsCode(stack[j]) /\ Waits(stack[i])) => stack[j].tpl > Level(stack[i])

(* While a service waits for the notification it queued, the activation of
   CoreRestoreTpl above it is still dispatching: the event is queued, or taken
   and about to be called.                                                  *)
Awaits(f) ==
  f.kind # "restore" /\ f.await /\ f.tpl < NotifyTpl(f.ev)
Taken(f, e) == f.kind = "restore" /\ f.pc \in {"call", "freed"} /\ f.ev = e
AwaitServed ==
  \A i \in 1 .. Len(stack) : Awaits(stack[i]) =>
    /\ i < Len(stack) /\ stack[i + 1].kind = "restore" /\ stack[i + 1].pc # "exit"
    /\ \/ InQueue(queue, stack[i].ev)
       \/ \E j \in 1 .. Len(stack) : i < j /\ Taken(stack[j], stack[i].ev)

(* The walk of gEventSignalQueue has queued the members it has passed.      *)
WalkedQueued ==
  Top.pc = "walk" =>
    \A k \in DOMAIN signalList :
      (k < Top.idx /\ EventGroup(signalList[k]) = EventGroup(Top.ev)) =>
        InQueue(queue, signalList[k])

(* NoCallAfterClose, of every dispatcher on the stack.                      *)
CallUse(f, l, c, q) ==
  (f.kind = "restore" /\ f.pc = "call") =>
    /\ NotifyTpl(f.ev) = f.local
    /\ l[f.ev] # "live" => c[f.ev] > NotifyTpl(f.ev) \/ f.ev \in q
CallsUse == \A i \in 1 .. Len(stack) : CallUse(stack[i], life, closedTpl, late)

StackInv  == FramesUse /\ CloseBelow /\ CodeAbove /\ AwaitServed /\ CallsUse
EventInv  == ListExact /\ EventsUse
SignalInv == WalkedQueued /\ SignalNotLost
SInv == StackInv /\ EventInv /\ SignalInv

-----------------------------------------------------------------------------
(* The queues                                                               *)

LEMMA QueuedIs ==
  ASSUME NEW e
  PROVE  (Queued(e) <=> InQueue(queue, e)) /\ (Queued(e)' <=> InQueue(queue', e))
BY DEF Queued, InQueue

(* Unlinking e loses no other element.                                      *)
LEMMA UnlinkKeeps ==
  ASSUME NEW s \in Seq(Event), NEW e, NEW k \in DOMAIN s, s[k] # e
  PROVE  \E i \in DOMAIN Unlink(s, e) : Unlink(s, e)[i] = s[k]
<1>1. CASE \E i \in DOMAIN s : s[i] = e
  <2> DEFINE c == CHOOSE i \in DOMAIN s : s[i] = e
             u == RemoveAt(s, c)
  <2>1. c \in DOMAIN s /\ s[c] = e
    BY <1>1
  <2>2. Unlink(s, e) = u
    BY <1>1 DEF Unlink
  <2> HIDE DEF c
  <2>3. DOMAIN s = 1 .. Len(s) /\ Len(s) \in Nat
    BY LenProperties
  <2>c. c \in 1 .. Len(s)
    BY <2>1, <2>3
  <2>r. /\ u \in Seq(Event) /\ Len(u) = Len(s) - 1
        /\ \A i \in 1 .. Len(s) - 1 : u[i] = IF i < c THEN s[i] ELSE s[i + 1]
    BY <2>c, RemoveAtPoint
  <2> HIDE DEF u
  <2>4. /\ DOMAIN u = 1 .. Len(s) - 1
        /\ \A i \in 1 .. Len(s) - 1 : u[i] = IF i < c THEN s[i] ELSE s[i + 1]
    BY <2>r, LenProperties
  <2>5. k # c /\ k \in 1 .. Len(s) /\ c \in 1 .. Len(s)
    BY <2>1, <2>3
  <2>6. CASE k < c
    <3>1. k \in 1 .. Len(s) - 1
      BY <2>3, <2>5, <2>6
    <3> QED
      BY <2>2, <2>4, <2>6, <3>1
  <2>7. CASE c < k
    <3>1. k - 1 \in 1 .. Len(s) - 1 /\ ~(k - 1 < c) /\ (k - 1) + 1 = k
      BY <2>3, <2>5, <2>7
    <3> QED
      BY <2>2, <2>4, <3>1
  <2> QED
    BY <2>3, <2>5, <2>6, <2>7
<1>2. CASE ~\E i \in DOMAIN s : s[i] = e
  BY <1>2 DEF Unlink
<1> QED
  BY <1>1, <1>2

(* The queue of one level changes.                                          *)
LEMMA QueueChange ==
  ASSUME TypeOK, NEW n \in Tpl, NEW u, queue' = [queue EXCEPT ![n] = u]
  PROVE  \A d \in Event : /\ NotifyTpl(d) = n =>
                               (InQueue(queue', d) <=> \E i \in DOMAIN u : u[i] = d)
                          /\ NotifyTpl(d) # n =>
                               (InQueue(queue', d) <=> InQueue(queue, d))
<1>1. \A t \in Tpl : queue'[t] = IF t = n THEN u ELSE queue[t]
  BY DEF TypeOK
<1> QED
  BY <1>1, NotifyTplType DEF InQueue

LEMMA NotifyQueued ==
  ASSUME TypeOK, QueuedPending, NEW e \in Event, NotifyEvent(e)
  PROVE  /\ InQueue(queue', e)
         /\ \A d \in Event : InQueue(queue, d) => InQueue(queue', d)
         /\ \A d \in Event : InQueue(queue', d) => d = e \/ InQueue(queue, d)
<1> DEFINE n == NotifyTpl(e)
           q == queue[n]
           v == Unlink(q, e)
           u == Append(v, e)
<1>1. n \in Tpl /\ q \in Seq(Event)
  BY NotifyTplType DEF TypeOK
<1>2. \A i, j \in DOMAIN q : q[i] = q[j] => i = j
  BY <1>1 DEF QueuedPending
<1>3. \A k \in DOMAIN q : q[k] # e => \E i \in DOMAIN v : v[i] = q[k]
  BY <1>1, UnlinkKeeps
<1>4. v \in Seq(Event) /\ \A i \in DOMAIN v : \E k \in DOMAIN q : v[i] = q[k]
  BY <1>1, UnlinkPoint
<1>5. queue' = [queue EXCEPT ![n] = u]
  BY DEF NotifyEvent
<1> HIDE DEF v
<1>6. /\ u \in Seq(Event) /\ Len(u) = Len(v) + 1
      /\ \A i \in 1 .. Len(v) : u[i] = v[i]
      /\ u[Len(v) + 1] = e
  BY <1>4, AppendProperties
<1>7. DOMAIN v = 1 .. Len(v) /\ Len(v) \in Nat /\ DOMAIN u = 1 .. Len(v) + 1
  BY <1>4, <1>6, LenProperties
<1> HIDE DEF u
<1>8. /\ \A i \in DOMAIN v : i \in DOMAIN u /\ u[i] = v[i]
      /\ \E i \in DOMAIN u : u[i] = e
      /\ \A i \in DOMAIN u : u[i] = e \/ (i \in DOMAIN v /\ u[i] = v[i])
  BY <1>6, <1>7
<1>9. \A d \in Event : NotifyTpl(d) = n =>
        ((\E i \in DOMAIN u : u[i] = d) <=> (d = e \/ \E k \in DOMAIN q : q[k] = d))
  BY <1>3, <1>4, <1>8
<1>10. \A d \in Event : NotifyTpl(d) = n => (InQueue(queue, d) <=> \E k \in DOMAIN q : q[k] = d)
  BY DEF InQueue
<1> HIDE DEF n, q
<1>11. \A d \in Event : InQueue(queue', d) <=> d = e \/ InQueue(queue, d)
  <2>1. NotifyTpl(e) = n
    BY DEF n
  <2> QED
    BY <2>1, <1>1, <1>5, <1>9, <1>10, QueueChange
<1> QED
  BY <1>11

LEMMA UnlinkQueued ==
  ASSUME TypeOK, QueuedPending, NEW e \in Event,
         queue' = [queue EXCEPT ![NotifyTpl(e)] = Unlink(@, e)]
  PROVE  /\ ~InQueue(queue', e)
         /\ \A d \in Event : d # e => (InQueue(queue', d) <=> InQueue(queue, d))
<1> DEFINE n == NotifyTpl(e)
           q == queue[n]
           u == Unlink(q, e)
<1>1. n \in Tpl /\ q \in Seq(Event)
  BY NotifyTplType DEF TypeOK
<1>2. \A i, j \in DOMAIN q : q[i] = q[j] => i = j
  BY <1>1 DEF QueuedPending
<1>3. \A k \in DOMAIN q : q[k] # e => \E i \in DOMAIN u : u[i] = q[k]
  BY <1>1, UnlinkKeeps
<1>4. /\ \A i \in DOMAIN u : \E k \in DOMAIN q : u[i] = q[k]
      /\ \A i \in DOMAIN u : u[i] # e
  BY <1>1, <1>2, UnlinkPoint
<1>5. queue' = [queue EXCEPT ![n] = u]
  OBVIOUS
<1> HIDE DEF u
<1>6. \A d \in Event : NotifyTpl(d) = n => (InQueue(queue, d) <=> \E k \in DOMAIN q : q[k] = d)
  BY DEF InQueue
<1> HIDE DEF q, n
<1>7. NotifyTpl(e) = n
  BY DEF n
<1>8. \A d \in Event : /\ NotifyTpl(d) = n =>
                             (InQueue(queue', d) <=> \E i \in DOMAIN u : u[i] = d)
                       /\ NotifyTpl(d) # n =>
                             (InQueue(queue', d) <=> InQueue(queue, d))
  BY <1>1, <1>5, QueueChange
<1>9. ~InQueue(queue', e)
  BY <1>4, <1>7, <1>8
<1>10. ASSUME NEW d \in Event, d # e
       PROVE  InQueue(queue', d) <=> InQueue(queue, d)
  <2>1. CASE NotifyTpl(d) = n
    <3>1. (\E i \in DOMAIN u : u[i] = d) <=> (\E k \in DOMAIN q : q[k] = d)
      BY <1>3, <1>4, <1>10
    <3> QED
      BY <2>1, <3>1, <1>6, <1>8
  <2>2. CASE NotifyTpl(d) # n
    BY <2>2, <1>8
  <2> QED
    BY <2>1, <2>2
<1> QED
  BY <1>9, <1>10

(* The dispatcher takes the first event of the level p.                     *)
LEMMA TakeQueued ==
  ASSUME TypeOK, QueuedPending, NEW p \in Tpl, queue[p] # << >>,
         queue' = [queue EXCEPT ![p] = Tail(@)]
  PROVE  /\ Head(queue[p]) \in Event /\ NotifyTpl(Head(queue[p])) = p
         /\ InQueue(queue, Head(queue[p])) /\ ~InQueue(queue', Head(queue[p]))
         /\ \A d \in Event : d # Head(queue[p]) => (InQueue(queue', d) <=> InQueue(queue, d))
<1> DEFINE q == queue[p]
           u == Tail(q)
           e == Head(q)
<1>1. q \in Seq(Event) /\ DOMAIN q = 1 .. Len(q) /\ Len(q) \in Nat
  BY LenProperties DEF TypeOK
<1>2. \A i, j \in DOMAIN q : q[i] = q[j] => i = j
  BY DEF QueuedPending
<1>3. /\ e \in Event /\ u \in Seq(Event) /\ Len(u) = Len(q) - 1 /\ e = q[1] /\ Len(q) > 0
      /\ \A i \in 1 .. Len(u) : u[i] = q[i + 1]
  BY <1>1, HeadTailProperties, EmptySeq
<1>4. DOMAIN u = 1 .. Len(q) - 1
  BY <1>3, LenProperties
<1>5. NotifyTpl(e) = p
  <2>1. 1 \in DOMAIN q
    BY <1>1, <1>3
  <2> QED
    BY <1>3, <2>1 DEF QueuedPending
<1> HIDE DEF u, e
<1>6. /\ 1 \in DOMAIN q
      /\ \A i \in DOMAIN u : i + 1 \in DOMAIN q /\ u[i] = q[i + 1] /\ i + 1 # 1
      /\ \A k \in DOMAIN q : k # 1 => k - 1 \in DOMAIN u /\ u[k - 1] = q[k]
  BY <1>1, <1>3, <1>4
<1>7. /\ \A i \in DOMAIN u : u[i] # e
      /\ \A d : d # e => ((\E i \in DOMAIN u : u[i] = d) <=> (\E k \in DOMAIN q : q[k] = d))
  BY <1>2, <1>3, <1>6
<1>8. \A d \in Event : NotifyTpl(d) = p => (InQueue(queue, d) <=> \E k \in DOMAIN q : q[k] = d)
  BY DEF InQueue
<1>9. queue' = [queue EXCEPT ![p] = u]
  BY DEF u
<1>10. \E k \in DOMAIN q : q[k] = e
  BY <1>3, <1>6
<1>11. e = Head(queue[p])
  BY DEF e
<1> HIDE DEF q
<1>12. \A d \in Event : /\ NotifyTpl(d) = p =>
                              (InQueue(queue', d) <=> \E i \in DOMAIN u : u[i] = d)
                        /\ NotifyTpl(d) # p =>
                              (InQueue(queue', d) <=> InQueue(queue, d))
  BY <1>9, QueueChange
<1>13. e \in Event
  BY <1>3
<1>14. InQueue(queue, e) /\ ~InQueue(queue', e)
  BY <1>5, <1>7, <1>8, <1>10, <1>12, <1>13
<1>15. ASSUME NEW d \in Event, d # e
       PROVE  InQueue(queue', d) <=> InQueue(queue, d)
  <2>1. CASE NotifyTpl(d) = p
    BY <2>1, <1>7, <1>8, <1>12, <1>15
  <2>2. CASE NotifyTpl(d) # p
    BY <2>2, <1>12
  <2> QED
    BY <2>1, <2>2
<1> QED
  BY <1>5, <1>11, <1>13, <1>14, <1>15

-----------------------------------------------------------------------------
(* The frames of the stack after a step                                     *)

LEMMA Frames ==
  ASSUME StackDiscipline
  PROVE  /\ Len(stack) \in Nat /\ Len(stack) > 0
         /\ \A i \in 1 .. Len(stack) :
              /\ stack[i] \in Frame /\ FrameOK(stack[i])
              /\ stack[i].tpl \in Int /\ stack[i].local \in Int
         /\ stack[Len(stack)] = Top
<1>1. /\ stack \in Seq(Frame) /\ Len(stack) > 0
      /\ \A i \in 1 .. Len(stack) : FrameOK(stack[i])
  BY DEF StackDiscipline, WellNested
<1>2. Len(stack) \in Nat
  BY <1>1, LenProperties
<1>3. \A i \in 1 .. Len(stack) : stack[i] \in Frame
  BY <1>1, ElementOfSeq
<1>4. \A i \in 1 .. Len(stack) : stack[i].tpl \in Int /\ stack[i].local \in Int
  BY <1>3, FrameTypes
<1> QED
  BY <1>1, <1>2, <1>3, <1>4 DEF Top

LEMMA ReplaceShape ==
  ASSUME StackDiscipline, NEW g \in Frame, stack' = Replace(g)
  PROVE  /\ Len(stack') = Len(stack)
         /\ \A i \in 1 .. Len(stack) : i # Len(stack) => stack'[i] = stack[i]
         /\ stack'[Len(stack)] = g
<1>1. stack \in Seq(Frame) /\ Len(stack) \in Nat /\ Len(stack) > 0
  BY TopFacts
<1> DEFINE s == [stack EXCEPT ![Len(stack)] = g]
<1>2. /\ Len(s) = Len(stack)
      /\ \A j \in 1 .. Len(stack) : s[j] = IF j = Len(stack) THEN g ELSE stack[j]
  BY <1>1, ExceptSeq
<1>3. stack' = s
  BY DEF Replace
<1>4. Len(stack) \in 1 .. Len(stack)
  BY <1>1
<1> HIDE DEF s
<1> QED
  BY <1>2, <1>3, <1>4

LEMMA ReleaseShape ==
  ASSUME StackDiscipline, NEW g \in Frame, NEW new \in Tpl, NEW at, Release(g, new, at)
  PROVE  /\ Len(stack') = Len(stack) + 1
         /\ \A i \in 1 .. Len(stack) : i # Len(stack) => stack'[i] = stack[i]
         /\ stack'[Len(stack)] = g
         /\ stack'[Len(stack) + 1] = RestoreFrame(new)
<1> DEFINE s == [stack EXCEPT ![Len(stack)] = g]
           r == RestoreFrame(new)
<1>1. stack \in Seq(Frame) /\ Len(stack) \in Nat /\ Len(stack) > 0 /\ r \in Frame
  BY TopFacts, RestoreFrameOK
<1>2. /\ s \in Seq(Frame) /\ Len(s) = Len(stack)
      /\ \A j \in 1 .. Len(stack) : s[j] = IF j = Len(stack) THEN g ELSE stack[j]
  BY <1>1, ExceptSeq
<1>3. stack' = Append(s, r)
  BY DEF Release, Replace
<1> HIDE DEF s, r
<1>4. /\ Len(Append(s, r)) = Len(s) + 1
      /\ \A i \in 1 .. Len(s) : Append(s, r)[i] = s[i]
      /\ Append(s, r)[Len(s) + 1] = r
  BY <1>1, <1>2, AppendProperties
<1> QED
  BY <1>1, <1>2, <1>3, <1>4 DEF r

LEMMA PushShape ==
  ASSUME StackDiscipline, NEW h \in Frame, stack' = Append(stack, h)
  PROVE  /\ Len(stack') = Len(stack) + 1
         /\ \A i \in 1 .. Len(stack) : stack'[i] = stack[i]
         /\ stack'[Len(stack) + 1] = h
<1>1. stack \in Seq(Frame)
  BY TopFacts
<1> QED
  BY <1>1, AppendProperties

LEMMA PopShape ==
  ASSUME StackDiscipline, Top.kind # "app", stack' = Pop
  PROVE  /\ Len(stack) > 1 /\ Len(stack') = Len(stack) - 1
         /\ \A i \in 1 .. Len(stack) - 1 : stack'[i] = stack[i]
<1> DEFINE n == Len(stack)
<1>1. stack \in Seq(Frame) /\ n \in Nat /\ n > 0 /\ stack[1].kind = "app"
  BY TopFacts DEF StackDiscipline, WellNested
<1>2. n > 1
  BY <1>1 DEF Top
<1>3. \A i \in 1 .. n - 1 : stack[i] \in Frame
  BY <1>1, ElementOfSeq
<1>4. /\ Len(SubSeq(stack, 1, n - 1)) = IF 1 <= n - 1 THEN (n - 1) - 1 + 1 ELSE 0
      /\ \A i \in 1 .. (n - 1) - 1 + 1 : SubSeq(stack, 1, n - 1)[i] = stack[1 + i - 1]
  BY <1>1, <1>3, SubSeqProperties
<1> QED
  BY <1>1, <1>2, <1>4 DEF Pop

(* The level of a frame that is not on top is at most the one of the top.   *)
LEMMA LevelBelow ==
  ASSUME StackDiscipline, NEW i \in 1 .. Len(stack) - 1
  PROVE  Level(stack[i]) <= Top.tpl
<1>1. /\ Len(stack) \in Nat /\ i \in 1 .. Len(stack) /\ i + 1 \in 1 .. Len(stack)
      /\ Len(stack) \in 1 .. Len(stack) /\ i < Len(stack)
  BY Frames
<1>2. /\ stack[i] \in Frame /\ stack[i].tpl \in Int /\ stack[i].local \in Int
      /\ stack[i + 1].tpl \in Int /\ stack[i + 1].local \in Int /\ FrameOK(stack[i + 1])
      /\ Top = stack[Len(stack)] /\ Top.tpl \in Int
  BY <1>1, Frames
<1>3. /\ Pushed(stack[i], stack[i + 1])
      /\ \A k \in 1 .. Len(stack) : k < Len(stack) => stack[k].tpl <= stack[Len(stack)].tpl
  BY <1>1 DEF StackDiscipline, WellNested
<1>4. stack[i].tpl <= Top.tpl /\ stack[i + 1].tpl <= Top.tpl
  BY <1>1, <1>2, <1>3
<1>5. CASE stack[i].kind = "restore" /\ stack[i].pc = "call"
  <2>1. ReturnTpl(stack[i + 1]) = stack[i].local
    BY <1>3, <1>5 DEF Pushed, Suits
  <2>2. ReturnTpl(stack[i + 1]) <= stack[i + 1].tpl
    BY <1>2 DEF ReturnTpl, FrameOK
  <2> QED
    BY <1>2, <1>4, <1>5, <2>1, <2>2 DEF Level
<1>6. CASE ~(stack[i].kind = "restore" /\ stack[i].pc = "call")
  BY <1>4, <1>6 DEF Level
<1> QED
  BY <1>5, <1>6

-----------------------------------------------------------------------------
(* Steps of the stack                                                       *)

(* A frame pushed by CoreRestoreTpl's caller uses and awaits nothing.       *)
LEMMA RestoreUse ==
  ASSUME NEW f, f.kind = "restore", NEW l, NEW c, NEW q
  PROVE  /\ FrameUse(f, l) /\ ~Awaits(f) /\ ~IsCode(f)
         /\ f.pc # "call" => CallUse(f, l, c, q)
BY DEF FrameUse, Awaits, IsCode, CallUse

(* An event that was queued late stays one.                                 *)
LEMMA CallUseGrows ==
  ASSUME NEW f, NEW l, NEW c, NEW q, NEW r, CallUse(f, l, c, q), q \subseteq r
  PROVE  CallUse(f, l, c, r)
BY DEF CallUse

(* CloseBelow, of the frames below a frame g.                               *)
ClosesAlone(g) ==
  g.pc = "unlinked" =>
    \A i \in 1 .. Len(stack) - 1 : stack[i].kind # "restore" => stack[i].ev # g.ev

(* The top frame, running code, goes on as g; it may release a lock.        *)
LEMMA CodeMoves ==
  ASSUME IInv, StackInv, IsCode(Top), NEW g, Continues(g),
         \/ stack' = Replace(g) /\ ~Awaits(g)
         \/ \E new \in Tpl, at \in Tpl :
              Release(g, new, at) /\ (Awaits(g) => InQueue(queue', g.ev)),
         FrameUse(g, life'), ClosesAlone(g),
         \A i \in 1 .. Len(stack) - 1 :
           /\ FrameUse(stack[i], life') /\ CallUse(stack[i], life', closedTpl', late')
           /\ (Awaits(stack[i]) /\ InQueue(queue, stack[i].ev)) =>
                InQueue(queue', stack[i].ev)
  PROVE  StackInv'
<1> DEFINE n == Len(stack)
           m == Len(stack')
<1>1. /\ n \in Nat /\ n > 0 /\ stack[n] = Top /\ g \in Frame
      /\ IsCode(g) /\ g.tpl = Top.tpl /\ g.kind = Top.kind
  BY Frames DEF IInv, Continues, IsCode
<1>2. /\ m = n \/ m = n + 1
      /\ \A i \in 1 .. n : i # n => stack'[i] = stack[i]
      /\ stack'[n] = g
      /\ m = n => ~Awaits(g)
      /\ m = n + 1 => /\ stack'[n + 1].kind = "restore" /\ stack'[n + 1].pc = "test"
                      /\ Awaits(g) => InQueue(queue', g.ev)
  <2>1. CASE stack' = Replace(g) /\ ~Awaits(g)
    BY <2>1, <1>1, ReplaceShape DEF IInv
  <2>2. CASE \E new \in Tpl, at \in Tpl :
               Release(g, new, at) /\ (Awaits(g) => InQueue(queue', g.ev))
    <3>1. PICK new \in Tpl, at \in Tpl :
            Release(g, new, at) /\ (Awaits(g) => InQueue(queue', g.ev))
      BY <2>2
    <3>2. /\ Len(stack') = n + 1
          /\ \A i \in 1 .. n : i # n => stack'[i] = stack[i]
          /\ stack'[n] = g
          /\ stack'[n + 1] = RestoreFrame(new)
      BY <3>1, <1>1, ReleaseShape DEF IInv
    <3>3. RestoreFrame(new).kind = "restore" /\ RestoreFrame(new).pc = "test"
      BY DEF RestoreFrame
    <3> QED
      BY <3>1, <3>2, <3>3, <1>1
  <2> QED
    BY <2>1, <2>2
<1> HIDE DEF m, n
<1>3. /\ FramesUse /\ CloseBelow /\ CodeAbove /\ AwaitServed /\ CallsUse
      /\ Len(stack) = n /\ Len(stack') = m
  BY DEF StackInv, m, n
<1>4. \A i \in 1 .. m : /\ i \in 1 .. n - 1 \/ i = n \/ (i = n + 1 /\ m = n + 1)
                        /\ i \in 1 .. n - 1 => i \in 1 .. n /\ stack'[i] = stack[i]
  BY <1>1, <1>2
<1>5. FramesUse' /\ CallsUse'
  <2>1. ASSUME NEW i \in 1 .. m
        PROVE  FrameUse(stack'[i], life') /\ CallUse(stack'[i], life', closedTpl', late')
    <3>1. CASE i \in 1 .. n - 1
      BY <3>1, <1>3, <1>4
    <3>2. CASE i = n
      BY <3>2, <1>1, <1>2 DEF CallUse, IsCode
    <3>3. CASE i = n + 1 /\ m = n + 1
      BY <3>3, <1>2, RestoreUse
    <3> QED
      BY <1>4, <3>1, <3>2, <3>3
  <2> QED
    BY <2>1, <1>3 DEF FramesUse, CallsUse
<1>6. CodeAbove'
  <2> SUFFICES ASSUME NEW i \in 1 .. m, NEW j \in 1 .. m, i < j,
                      IsCode(stack'[j]), Waits(stack'[i])
               PROVE  stack'[j].tpl > Level(stack'[i])
    BY <1>3 DEF CodeAbove
  <2>1. j \in 1 .. n /\ i \in 1 .. n - 1 /\ i \in 1 .. n
    <3>1. ASSUME j = n + 1
          PROVE  FALSE
      <4>1. m = n + 1
        BY <3>1, <1>1, <1>2
      <4> QED
        BY <4>1, <3>1, <1>2 DEF IsCode
    <3> QED
      BY <3>1, <1>1, <1>2
  <2>2. /\ stack'[i] = stack[i] /\ IsCode(stack[j]) /\ stack'[j].tpl = stack[j].tpl
    BY <2>1, <1>1, <1>2, <1>4
  <2> QED
    BY <2>1, <2>2, <1>3 DEF CodeAbove
<1>7. AwaitServed'
  <2> SUFFICES ASSUME NEW i \in 1 .. m, Awaits(stack'[i])
               PROVE  /\ i < m /\ stack'[i + 1].kind = "restore" /\ stack'[i + 1].pc # "exit"
                      /\ \/ InQueue(queue', stack'[i].ev)
                         \/ \E j \in 1 .. m : i < j /\ Taken(stack'[j], stack'[i].ev)
    BY <1>3 DEF AwaitServed
  <2>1. CASE i = n
    <3>1. m = n + 1
      BY <2>1, <1>2
    <3> QED
      BY <2>1, <3>1, <1>1, <1>2
  <2>2. CASE i \in 1 .. n - 1
    <3>1. stack'[i] = stack[i] /\ i \in 1 .. n
      BY <2>2, <1>4
    <3>2. /\ stack[i + 1].kind = "restore" /\ stack[i + 1].pc # "exit"
          /\ \/ InQueue(queue, stack[i].ev)
             \/ \E j \in 1 .. n : i < j /\ Taken(stack[j], stack[i].ev)
      BY <3>1, <1>3 DEF AwaitServed
    <3>3. i + 1 # n
      BY <3>2, <1>1 DEF IsCode
    <3>4. i + 1 \in 1 .. n /\ stack'[i + 1] = stack[i + 1] /\ i < m
      BY <3>3, <2>2, <1>1, <1>2
    <3>5. CASE InQueue(queue, stack[i].ev)
      BY <3>1, <3>2, <3>4, <3>5, <2>2, <1>3
    <3>6. ASSUME NEW j \in 1 .. n, i < j, Taken(stack[j], stack[i].ev)
          PROVE  \E k \in 1 .. m : i < k /\ Taken(stack'[k], stack'[i].ev)
      <4>1. j # n
        BY <3>6, <1>1 DEF IsCode, Taken
      <4>2. stack'[j] = stack[j] /\ j \in 1 .. m
        BY <4>1, <1>1, <1>2
      <4> QED
        BY <4>2, <3>1, <3>6
    <3> QED
      BY <3>2, <3>4, <3>5, <3>6
  <2>3. CASE i = n + 1 /\ m = n + 1
    BY <2>3, <1>2 DEF Awaits
  <2> QED
    BY <2>1, <2>2, <2>3, <1>4
<1>c. CloseBelow'
  <2> SUFFICES ASSUME NEW i \in 1 .. m, NEW j \in 1 .. m, i < j,
                      stack'[i].kind # "restore", stack'[j].pc = "unlinked"
               PROVE  stack'[i].ev # stack'[j].ev
    BY <1>3 DEF CloseBelow
  <2>1. j # n + 1
    BY <1>1, <1>2
  <2>2. i \in 1 .. n - 1 /\ i \in 1 .. n /\ stack'[i] = stack[i]
    BY <2>1, <1>1, <1>2, <1>4
  <2>3. CASE j = n
    BY <2>2, <2>3, <1>2, <1>3 DEF ClosesAlone
  <2>4. CASE j \in 1 .. n - 1
    BY <2>2, <2>4, <1>3, <1>4 DEF CloseBelow
  <2> QED
    BY <2>1, <2>3, <2>4, <1>4
<1> QED
  BY <1>5, <1>6, <1>7, <1>c DEF StackInv

(* The top frame goes on as an activation g of CoreRestoreTpl; it may release
   gEventQueueLock.                                                         *)
LEMMA RestoreMoves ==
  ASSUME IInv, StackInv, NEW g \in Frame, g.kind = "restore",
         stack' = Replace(g) \/ \E new \in Tpl, at \in Tpl : Release(g, new, at),
         g.pc # "unlinked",
         UNCHANGED <<life, closedTpl, late>>, CallUse(g, life, closedTpl, late),
         \A i \in 1 .. Len(stack) - 1 : Awaits(stack[i]) =>
           /\ (i + 1 = Len(stack) /\ Top.kind = "restore") => g.pc # "exit"
           /\ InQueue(queue, stack[i].ev) =>
                (InQueue(queue', stack[i].ev) \/ Taken(g, stack[i].ev))
           /\ Taken(Top, stack[i].ev) => Taken(g, stack[i].ev)
  PROVE  StackInv'
<1> DEFINE n == Len(stack)
           m == Len(stack')
<1>1. n \in Nat /\ n > 0 /\ stack[n] = Top
  BY Frames DEF IInv
<1>2. /\ m = n \/ m = n + 1
      /\ \A i \in 1 .. n : i # n => stack'[i] = stack[i]
      /\ stack'[n] = g
      /\ m = n + 1 => stack'[n + 1].kind = "restore" /\ stack'[n + 1].pc = "test"
  <2>1. CASE stack' = Replace(g)
    BY <2>1, <1>1, ReplaceShape DEF IInv
  <2>2. CASE \E new \in Tpl, at \in Tpl : Release(g, new, at)
    <3>1. PICK new \in Tpl, at \in Tpl : Release(g, new, at)
      BY <2>2
    <3>2. /\ Len(stack') = n + 1
          /\ \A i \in 1 .. n : i # n => stack'[i] = stack[i]
          /\ stack'[n] = g
          /\ stack'[n + 1] = RestoreFrame(new)
      BY <3>1, <1>1, ReleaseShape DEF IInv
    <3>3. RestoreFrame(new).kind = "restore" /\ RestoreFrame(new).pc = "test"
      BY DEF RestoreFrame
    <3> QED
      BY <3>2, <3>3, <1>1
  <2> QED
    BY <2>1, <2>2
<1> HIDE DEF m, n
<1>3. /\ FramesUse /\ CloseBelow /\ CodeAbove /\ AwaitServed /\ CallsUse
      /\ Len(stack) = n /\ Len(stack') = m
  BY DEF StackInv, m, n
<1>4. \A i \in 1 .. m : /\ i \in 1 .. n - 1 \/ i = n \/ (i = n + 1 /\ m = n + 1)
                        /\ i \in 1 .. n - 1 => i \in 1 .. n /\ stack'[i] = stack[i]
  BY <1>1, <1>2
<1>5. FramesUse' /\ CallsUse'
  <2>1. ASSUME NEW i \in 1 .. m
        PROVE  FrameUse(stack'[i], life') /\ CallUse(stack'[i], life', closedTpl', late')
    <3>1. CASE i \in 1 .. n - 1
      BY <3>1, <1>3, <1>4 DEF FramesUse, CallsUse
    <3>2. CASE i = n
      BY <3>2, <1>1, <1>2, RestoreUse
    <3>3. CASE i = n + 1 /\ m = n + 1
      BY <3>3, <1>2, RestoreUse
    <3> QED
      BY <1>4, <3>1, <3>2, <3>3
  <2> QED
    BY <2>1, <1>3 DEF FramesUse, CallsUse
<1>6. CodeAbove'
  <2> SUFFICES ASSUME NEW i \in 1 .. m, NEW j \in 1 .. m, i < j,
                      IsCode(stack'[j]), Waits(stack'[i])
               PROVE  stack'[j].tpl > Level(stack'[i])
    BY <1>3 DEF CodeAbove
  <2>1. j \in 1 .. n - 1
    BY <1>2, <1>4 DEF IsCode
  <2>2. i \in 1 .. n - 1
    BY <2>1, <1>1
  <2> QED
    BY <2>1, <2>2, <1>3, <1>4 DEF CodeAbove
<1>7. AwaitServed'
  <2> SUFFICES ASSUME NEW i \in 1 .. m, Awaits(stack'[i])
               PROVE  /\ i < m /\ stack'[i + 1].kind = "restore" /\ stack'[i + 1].pc # "exit"
                      /\ \/ InQueue(queue', stack'[i].ev)
                         \/ \E j \in 1 .. m : i < j /\ Taken(stack'[j], stack'[i].ev)
    BY <1>3 DEF AwaitServed
  <2>1. i \in 1 .. n - 1
    <3>1. i # n
      BY <1>2 DEF Awaits
    <3>2. i = n + 1 => m = n + 1
      BY <1>1, <1>2
    <3>3. i # n + 1
      BY <3>2, <1>2 DEF Awaits
    <3> QED
      BY <3>1, <3>3, <1>4
  <2>2. stack'[i] = stack[i] /\ i \in 1 .. n /\ i + 1 \in 1 .. n /\ i < m /\ n \in 1 .. m /\ i < n
    BY <2>1, <1>1, <1>2, <1>4
  <2>3. /\ stack[i + 1].kind = "restore" /\ stack[i + 1].pc # "exit"
        /\ \/ InQueue(queue, stack[i].ev)
           \/ \E j \in 1 .. n : i < j /\ Taken(stack[j], stack[i].ev)
    BY <2>2, <1>3 DEF AwaitServed
  <2>4. stack'[i + 1].kind = "restore" /\ stack'[i + 1].pc # "exit"
    <3>1. CASE i + 1 = n
      BY <3>1, <2>1, <2>2, <2>3, <1>1, <1>2, <1>3
    <3>2. CASE i + 1 # n
      BY <3>2, <2>2, <2>3, <1>2
    <3> QED
      BY <3>1, <3>2
  <2>5. CASE InQueue(queue, stack[i].ev)
    <3>1. InQueue(queue', stack[i].ev) \/ Taken(g, stack[i].ev)
      BY <2>1, <2>2, <2>5, <1>3
    <3> QED
      BY <3>1, <2>2, <2>4, <1>2
  <2>6. ASSUME NEW j \in 1 .. n, i < j, Taken(stack[j], stack[i].ev)
        PROVE  \E k \in 1 .. m : i < k /\ Taken(stack'[k], stack'[i].ev)
    <3>1. CASE j = n
      <4>1. Taken(g, stack[i].ev)
        BY <3>1, <2>1, <2>2, <2>6, <1>1, <1>3
      <4> QED
        BY <4>1, <2>2, <1>2
    <3>2. CASE j # n
      <4>1. stack'[j] = stack[j] /\ j \in 1 .. m
        BY <3>2, <1>1, <1>2
      <4> QED
        BY <4>1, <2>2, <2>6
    <3> QED
      BY <3>1, <3>2
  <2> QED
    BY <2>2, <2>3, <2>4, <2>5, <2>6
<1>c. CloseBelow'
  <2> SUFFICES ASSUME NEW i \in 1 .. m, NEW j \in 1 .. m, i < j,
                      stack'[i].kind # "restore", stack'[j].pc = "unlinked"
               PROVE  stack'[i].ev # stack'[j].ev
    BY <1>3 DEF CloseBelow
  <2>1. j \in 1 .. n - 1
    BY <1>1, <1>2, <1>4
  <2>2. i \in 1 .. n - 1
    BY <2>1, <1>1
  <2> QED
    BY <2>1, <2>2, <1>3, <1>4 DEF CloseBelow
<1> QED
  BY <1>5, <1>6, <1>7, <1>c DEF StackInv

(* The top frame waits for no notification: it would not be on top.         *)
LEMMA TopAwaitsNothing ==
  ASSUME IInv, StackInv
  PROVE  ~Awaits(Top)
<1>1. Len(stack) \in Nat /\ Len(stack) > 0 /\ stack[Len(stack)] = Top
  BY Frames DEF IInv
<1>2. Len(stack) \in 1 .. Len(stack) /\ ~(Len(stack) < Len(stack))
  BY <1>1
<1> QED
  BY <1>1, <1>2 DEF StackInv, AwaitServed

(* Code that is about to call a service enters a region at a level no lower. *)
LEMMA CodePush ==
  ASSUME IInv, StackInv, Running, NEW h \in Frame, IsCode(h), Top.tpl <= h.tpl,
         FrameUse(h, life), ~h.await, h.pc # "unlinked", stack' = Append(stack, h),
         UNCHANGED <<life, closedTpl, late, queue>>
  PROVE  StackInv'
<1> DEFINE n == Len(stack)
<1>1. n \in Nat /\ n > 0 /\ stack[n] = Top /\ n \in 1 .. n
  BY Frames DEF IInv
<1>2. /\ Len(stack') = n + 1
      /\ \A i \in 1 .. n : stack'[i] = stack[i]
      /\ stack'[n + 1] = h
  BY PushShape DEF IInv
<1>3. /\ FramesUse /\ CloseBelow /\ CodeAbove /\ AwaitServed /\ CallsUse
  BY DEF StackInv
<1>4. \A i \in 1 .. n : stack[i].tpl \in Int /\ stack[i].local \in Int
  BY Frames DEF IInv
<1> HIDE DEF n
<1>5. \A i \in 1 .. n + 1 : i \in 1 .. n \/ i = n + 1
  BY <1>1
<1>n. n = Len(stack)
  BY DEF n
<1>6. FramesUse' /\ CallsUse'
  <2>1. ASSUME NEW i \in 1 .. n + 1
        PROVE  FrameUse(stack'[i], life') /\ CallUse(stack'[i], life', closedTpl', late')
    <3>1. CASE i \in 1 .. n
      BY <3>1, <1>2, <1>3, <1>n DEF FramesUse, CallsUse
    <3>2. CASE i = n + 1
      BY <3>2, <1>2 DEF CallUse, IsCode
    <3> QED
      BY <1>5, <3>1, <3>2
  <2> QED
    BY <2>1, <1>2 DEF FramesUse, CallsUse
<1>7. CodeAbove'
  <2> SUFFICES ASSUME NEW i \in 1 .. n + 1, NEW j \in 1 .. n + 1, i < j,
                      IsCode(stack'[j]), Waits(stack'[i])
               PROVE  stack'[j].tpl > Level(stack'[i])
    BY <1>2 DEF CodeAbove
  <2>1. i \in 1 .. n /\ stack'[i] = stack[i]
    BY <1>1, <1>2
  <2>2. CASE j \in 1 .. n
    BY <2>1, <2>2, <1>2, <1>3, <1>n DEF CodeAbove
  <2>3. CASE j = n + 1
    <3>1. i # n
      BY <2>1, <1>1 DEF Running, Waits
    <3>2. i < n
      BY <3>1, <2>1, <1>1
    <3>3. Top.tpl > Level(stack[i])
      BY <3>2, <2>1, <1>1, <1>3, <1>n DEF CodeAbove, Running, IsCode
    <3>4. Level(stack[i]) \in Int /\ Top.tpl \in Int /\ h.tpl \in Int
      BY <2>1, <1>1, <1>4, FrameTypes DEF Level
    <3> QED
      BY <3>3, <3>4, <2>1, <2>3, <1>2
  <2> QED
    BY <1>5, <2>2, <2>3
<1>8. AwaitServed'
  <2> SUFFICES ASSUME NEW i \in 1 .. n + 1, Awaits(stack'[i])
               PROVE  /\ i < n + 1 /\ stack'[i + 1].kind = "restore"
                      /\ stack'[i + 1].pc # "exit"
                      /\ \/ InQueue(queue', stack'[i].ev)
                         \/ \E j \in 1 .. n + 1 : i < j /\ Taken(stack'[j], stack'[i].ev)
    BY <1>2 DEF AwaitServed
  <2>1. i \in 1 .. n /\ stack'[i] = stack[i]
    BY <1>2, <1>5 DEF Awaits
  <2>2. /\ i < n /\ stack[i + 1].kind = "restore" /\ stack[i + 1].pc # "exit"
        /\ \/ InQueue(queue, stack[i].ev)
           \/ \E j \in 1 .. n : i < j /\ Taken(stack[j], stack[i].ev)
    BY <2>1, <1>3, <1>n DEF AwaitServed
  <2>3. i + 1 \in 1 .. n /\ stack'[i + 1] = stack[i + 1] /\ i < n + 1
    BY <2>1, <2>2, <1>1, <1>2
  <2>4. \A j \in 1 .. n : j \in 1 .. n + 1 /\ stack'[j] = stack[j]
    BY <1>1, <1>2
  <2> QED
    BY <2>1, <2>2, <2>3, <2>4
<1>c. CloseBelow'
  <2> SUFFICES ASSUME NEW i \in 1 .. n + 1, NEW j \in 1 .. n + 1, i < j,
                      stack'[i].kind # "restore", stack'[j].pc = "unlinked"
               PROVE  stack'[i].ev # stack'[j].ev
    BY <1>2 DEF CloseBelow
  <2>1. j \in 1 .. n
    BY <1>2, <1>5
  <2>2. i \in 1 .. n
    BY <2>1, <1>1
  <2> QED
    BY <2>1, <2>2, <1>2, <1>3, <1>n DEF CloseBelow
<1> QED
  BY <1>6, <1>7, <1>8, <1>c DEF StackInv

(* The top frame returns: a notification function, the interrupt handler, or
   CoreRestoreTpl once it has found nothing left to dispatch.               *)
LEMMA PopMoves ==
  ASSUME IInv, StackInv, Top.kind # "app", Top.kind = "restore" => Top.pc = "exit",
         stack' = Pop, UNCHANGED <<life, closedTpl, late, queue>>
  PROVE  StackInv'
<1> DEFINE n == Len(stack)
<1>1. n \in Nat /\ n > 1 /\ stack[n] = Top
  BY Frames, PopShape DEF IInv
<1>2. /\ Len(stack') = n - 1
      /\ \A i \in 1 .. n - 1 : stack'[i] = stack[i]
  BY PopShape DEF IInv
<1>3. /\ FramesUse /\ CloseBelow /\ CodeAbove /\ AwaitServed /\ CallsUse
  BY DEF StackInv
<1> HIDE DEF n
<1>n. n = Len(stack)
  BY DEF n
<1>4. \A i \in 1 .. n - 1 : i \in 1 .. n
  BY <1>1
<1>5. FramesUse' /\ CallsUse'
  BY <1>2, <1>3, <1>4, <1>n DEF FramesUse, CallsUse
<1>6. CodeAbove'
  BY <1>2, <1>3, <1>4, <1>n DEF CodeAbove
<1>7. AwaitServed'
  <2> SUFFICES ASSUME NEW i \in 1 .. n - 1, Awaits(stack'[i])
               PROVE  /\ i < n - 1 /\ stack'[i + 1].kind = "restore"
                      /\ stack'[i + 1].pc # "exit"
                      /\ \/ InQueue(queue', stack'[i].ev)
                         \/ \E j \in 1 .. n - 1 : i < j /\ Taken(stack'[j], stack'[i].ev)
    BY <1>2 DEF AwaitServed
  <2>1. i \in 1 .. n /\ stack'[i] = stack[i]
    BY <1>2, <1>4
  <2>2. /\ stack[i + 1].kind = "restore" /\ stack[i + 1].pc # "exit"
        /\ \/ InQueue(queue, stack[i].ev)
           \/ \E j \in 1 .. n : i < j /\ Taken(stack[j], stack[i].ev)
    BY <2>1, <1>3, <1>n DEF AwaitServed
  <2>3. i + 1 # n
    BY <2>2, <1>1
  <2>4. i < n - 1 /\ i + 1 \in 1 .. n - 1
    BY <2>3, <1>1
  <2>5. \A j \in 1 .. n : Taken(stack[j], stack[i].ev) =>
          j \in 1 .. n - 1 /\ stack'[j] = stack[j]
    <3>1. \A j \in 1 .. n : Taken(stack[j], stack[i].ev) => j # n
      BY <1>1 DEF Taken
    <3> QED
      BY <3>1, <1>1, <1>2
  <2> QED
    BY <2>1, <2>2, <2>4, <2>5, <1>2
<1>c. CloseBelow'
  BY <1>2, <1>3, <1>4, <1>n DEF CloseBelow
<1> QED
  BY <1>5, <1>6, <1>7, <1>c DEF StackInv

(* The timer interrupt arrives on top of any frame.                         *)
LEMMA InterruptMoves ==
  ASSUME IInv, StackInv, NEW h \in Frame, h.kind = "isr", h.pc = "idle", FrameUse(h, life), ~h.await,
         NEW r \in Frame, r.kind = "restore", r.pc = "test",
         stack' = Append(Append(stack, h), r), UNCHANGED <<life, closedTpl>>,
         late \subseteq late',
         \A i \in 1 .. Len(stack) :
           (Awaits(stack[i]) /\ InQueue(queue, stack[i].ev)) => InQueue(queue', stack[i].ev)
  PROVE  StackInv'
<1> DEFINE n == Len(stack)
           s == Append(stack, h)
<1>1. n \in Nat /\ n > 0 /\ stack \in Seq(Frame)
  BY TopFacts DEF IInv
<1>2. s \in Seq(Frame) /\ Len(s) = n + 1 /\ (\A i \in 1 .. n : s[i] = stack[i]) /\ s[n + 1] = h
  BY <1>1, AppendProperties
<1>3. stack' = Append(s, r)
  OBVIOUS
<1> HIDE DEF s
<1>4. /\ Len(stack') = Len(s) + 1 /\ (\A i \in 1 .. Len(s) : stack'[i] = s[i])
      /\ stack'[Len(s) + 1] = r
  BY <1>2, <1>3, AppendProperties
<1>n. n = Len(stack)
  OBVIOUS
<1> HIDE DEF n
<1>5. /\ Len(stack') = n + 2 /\ (\A i \in 1 .. n : stack'[i] = stack[i])
      /\ stack'[n + 1] = h /\ stack'[n + 2] = r
  <2>1. n + 1 \in 1 .. n + 1 /\ (\A i \in 1 .. n : i \in 1 .. n + 1) /\ (n + 1) + 1 = n + 2
    BY <1>1
  <2> QED
    BY <2>1, <1>2, <1>4
<1>6. \A i \in 1 .. n + 2 : i \in 1 .. n \/ i = n + 1 \/ i = n + 2
  BY <1>1
<1>7. /\ FramesUse /\ CloseBelow /\ CodeAbove /\ AwaitServed /\ CallsUse
  BY DEF StackInv
<1>8. FramesUse' /\ CallsUse'
  <2>1. ASSUME NEW i \in 1 .. n + 2
        PROVE  FrameUse(stack'[i], life') /\ CallUse(stack'[i], life', closedTpl', late')
    <3>1. CASE i \in 1 .. n
      BY <3>1, <1>5, <1>7, <1>n, CallUseGrows DEF FramesUse, CallsUse
    <3>2. CASE i = n + 1
      BY <3>2, <1>5 DEF CallUse
    <3>3. CASE i = n + 2
      BY <3>3, <1>5, RestoreUse
    <3> QED
      BY <1>6, <3>1, <3>2, <3>3
  <2> QED
    BY <2>1, <1>5 DEF FramesUse, CallsUse
<1>9. CodeAbove'
  <2> SUFFICES ASSUME NEW i \in 1 .. n + 2, NEW j \in 1 .. n + 2, i < j,
                      IsCode(stack'[j]), Waits(stack'[i])
               PROVE  stack'[j].tpl > Level(stack'[i])
    BY <1>5 DEF CodeAbove
  <2>1. j \in 1 .. n
    BY <1>5, <1>6 DEF IsCode
  <2>2. i \in 1 .. n
    BY <2>1, <1>1
  <2> QED
    BY <2>1, <2>2, <1>5, <1>7, <1>n DEF CodeAbove
<1>10. AwaitServed'
  <2> SUFFICES ASSUME NEW i \in 1 .. n + 2, Awaits(stack'[i])
               PROVE  /\ i < n + 2 /\ stack'[i + 1].kind = "restore"
                      /\ stack'[i + 1].pc # "exit"
                      /\ \/ InQueue(queue', stack'[i].ev)
                         \/ \E j \in 1 .. n + 2 : i < j /\ Taken(stack'[j], stack'[i].ev)
    BY <1>5 DEF AwaitServed
  <2>1. i \in 1 .. n /\ stack'[i] = stack[i]
    BY <1>5, <1>6 DEF Awaits
  <2>2. /\ i < n /\ stack[i + 1].kind = "restore" /\ stack[i + 1].pc # "exit"
        /\ \/ InQueue(queue, stack[i].ev)
           \/ \E j \in 1 .. n : i < j /\ Taken(stack[j], stack[i].ev)
    BY <2>1, <1>7, <1>n DEF AwaitServed
  <2>3. i + 1 \in 1 .. n /\ stack'[i + 1] = stack[i + 1] /\ i < n + 2
    BY <2>1, <2>2, <1>1, <1>5
  <2>4. \A j \in 1 .. n : j \in 1 .. n + 2 /\ stack'[j] = stack[j]
    BY <1>1, <1>5
  <2>5. InQueue(queue, stack[i].ev) => InQueue(queue', stack[i].ev)
    BY <2>1, <1>n
  <2> QED
    BY <2>1, <2>2, <2>3, <2>4, <2>5
<1>c. CloseBelow'
  <2> SUFFICES ASSUME NEW i \in 1 .. n + 2, NEW j \in 1 .. n + 2, i < j,
                      stack'[i].kind # "restore", stack'[j].pc = "unlinked"
               PROVE  stack'[i].ev # stack'[j].ev
    BY <1>5 DEF CloseBelow
  <2>1. j \in 1 .. n
    BY <1>5, <1>6
  <2>2. i \in 1 .. n
    BY <2>1, <1>1
  <2> QED
    BY <2>1, <2>2, <1>5, <1>7, <1>n DEF CloseBelow
<1> QED
  BY <1>8, <1>9, <1>10, <1>c DEF StackInv

(* The dispatcher calls the notification function of the event it has taken:
   the services that wait for this event have been served.                  *)
LEMMA CallShape ==
  ASSUME IInv, CallNotify
  PROVE  /\ Len(stack') = Len(stack) + 1
         /\ \A i \in 1 .. Len(stack) - 1 :
              stack'[i] = IF stack[i].ev = Top.ev /\ stack[i].kind # "restore"
                          THEN [stack[i] EXCEPT !.await = FALSE] ELSE stack[i]
         /\ stack'[Len(stack)] = [Top EXCEPT !.pc = "take", !.ev = None]
         /\ stack'[Len(stack) + 1] = CodeFrame("notify", Top.local, Top.local)
<1> DEFINE n == Len(stack)
           s == [i \in DOMAIN stack |-> IF stack[i].ev = Top.ev /\ stack[i].kind # "restore"
                                        THEN [stack[i] EXCEPT !.await = FALSE] ELSE stack[i]]
           g == [Top EXCEPT !.pc = "take", !.ev = None]
           h == CodeFrame("notify", Top.local, Top.local)
           u == [s EXCEPT ![n] = g]
<1>1. /\ n \in Nat /\ n > 0 /\ stack \in Seq(Frame) /\ DOMAIN stack = 1 .. n
      /\ Top \in Frame /\ FrameOK(Top) /\ Top.kind = "restore" /\ Top.pc = "call"
      /\ Top.local \in Tpl /\ Top.local <= Top.local
  <2>1. /\ n \in Nat /\ n > 0 /\ stack \in Seq(Frame)
        /\ Top \in Frame /\ FrameOK(Top) /\ Top.kind = "restore" /\ Top.pc = "call"
    BY TopFacts DEF IInv, CallNotify, AtRestore
  <2>2. Top.local \in Tpl /\ Top.local \in Int
    BY <2>1, FrameTypes
  <2> QED
    BY <2>1, <2>2, LenProperties
<1>2. g \in Frame /\ h \in Frame
  <2>1. g \in Frame
    BY <1>1 DEF Frame, RestorePc
  <2>2. h \in Frame
    BY <1>1, CodeFrameOK
  <2> QED
    BY <2>1, <2>2
<1>3. s \in [1 .. n -> Frame]
  <2> SUFFICES ASSUME NEW i \in 1 .. n
               PROVE  s[i] \in Frame
    BY <1>1
  <2>1. stack[i] \in Frame
    BY <1>1, ElementOfSeq
  <2>2. [stack[i] EXCEPT !.await = FALSE] \in Frame
    BY <2>1 DEF Frame
  <2> QED
    BY <2>1, <2>2, <1>1
<1>4. stack' = Append(u, h)
  BY DEF CallNotify
<1>5. \A i \in 1 .. n : s[i] = IF stack[i].ev = Top.ev /\ stack[i].kind # "restore"
                                THEN [stack[i] EXCEPT !.await = FALSE] ELSE stack[i]
  BY <1>1
<1>n. n = Len(stack)
  OBVIOUS
<1> HIDE DEF n, s, g, h
<1>6. u \in [1 .. n -> Frame] /\ u[n] = g /\ \A i \in 1 .. n : i # n => u[i] = s[i]
  BY <1>1, <1>2, <1>3
<1> HIDE DEF u
<1>7. u \in Seq(Frame) /\ Len(u) = n
  BY <1>1, <1>6
<1>8. /\ Len(stack') = n + 1 /\ (\A i \in 1 .. n : stack'[i] = u[i])
      /\ stack'[n + 1] = h
  BY <1>2, <1>4, <1>7, AppendProperties
<1>9. n \in 1 .. n /\ \A i \in 1 .. n - 1 : i \in 1 .. n /\ i # n
  BY <1>1
<1> QED
  BY <1>5, <1>6, <1>8, <1>9, <1>n DEF g, h

LEMMA CallMoves ==
  ASSUME IInv, StackInv, CallNotify
  PROVE  StackInv'
<1> DEFINE n == Len(stack)
<1>1. /\ n \in Nat /\ n > 0 /\ stack[n] = Top /\ n \in 1 .. n
      /\ \A i \in 1 .. n : /\ stack[i] \in Frame /\ stack[i].tpl \in Int
                           /\ stack[i].local \in Int
  BY Frames DEF IInv
<1>2. /\ Top \in Frame /\ FrameOK(Top) /\ Top.kind = "restore" /\ Top.pc = "call"
      /\ Top.local \in Int /\ Top.tpl \in Int /\ Top.local > Top.tpl
  BY TopFacts, FrameTypes DEF IInv, CallNotify, AtRestore, FrameOK
<1>3. /\ Len(stack') = n + 1
      /\ \A i \in 1 .. n - 1 :
           stack'[i] = IF stack[i].ev = Top.ev /\ stack[i].kind # "restore"
                       THEN [stack[i] EXCEPT !.await = FALSE] ELSE stack[i]
      /\ stack'[n] = [Top EXCEPT !.pc = "take", !.ev = None]
      /\ stack'[n + 1] = CodeFrame("notify", Top.local, Top.local)
  BY CallShape
<1>4. UNCHANGED <<life, closedTpl, late, queue>>
  BY DEF CallNotify
<1>5. ASSUME NEW i \in 1 .. n - 1
      PROVE  /\ i \in 1 .. n /\ i < n
             /\ stack'[i].kind = stack[i].kind /\ stack'[i].tpl = stack[i].tpl
             /\ stack'[i].pc = stack[i].pc /\ stack'[i].local = stack[i].local
             /\ stack'[i].ev = stack[i].ev /\ stack'[i].wait = stack[i].wait
             /\ stack'[i].idx = stack[i].idx
             /\ stack'[i].await => stack[i].await
             /\ (stack'[i].await /\ stack[i].kind # "restore") => stack[i].ev # Top.ev
  <2>1. i \in 1 .. n /\ i < n /\ stack[i] \in Frame
    BY <1>1
  <2>2. CASE stack[i].ev = Top.ev /\ stack[i].kind # "restore"
    <3>1. stack'[i] = [stack[i] EXCEPT !.await = FALSE]
      BY <2>2, <1>3
    <3> QED
      BY <2>1, <3>1 DEF Frame
  <2>3. CASE ~(stack[i].ev = Top.ev /\ stack[i].kind # "restore")
    <3>1. stack'[i] = stack[i]
      BY <2>3, <1>3
    <3> QED
      BY <2>1, <2>3, <3>1
  <2> QED
    BY <2>2, <2>3
<1>6. /\ stack'[n].kind = "restore" /\ stack'[n].pc = "take" /\ stack'[n].tpl = Top.tpl
  BY <1>2, <1>3 DEF Frame
<1>7. /\ stack'[n + 1].kind = "notify" /\ stack'[n + 1].tpl = Top.local
      /\ stack'[n + 1].pc = "idle" /\ stack'[n + 1].ev = None /\ stack'[n + 1].wait = 0
      /\ stack'[n + 1].await = FALSE
  BY <1>3 DEF CodeFrame
<1>8. /\ FramesUse /\ CloseBelow /\ CodeAbove /\ AwaitServed /\ CallsUse /\ Len(stack) = n
  BY DEF StackInv
<1> HIDE DEF n
<1>9. \A i \in 1 .. n + 1 : i \in 1 .. n - 1 \/ i = n \/ i = n + 1
  BY <1>1
<1>10. FramesUse' /\ CallsUse'
  <2>1. ASSUME NEW i \in 1 .. n + 1
        PROVE  FrameUse(stack'[i], life') /\ CallUse(stack'[i], life', closedTpl', late')
    <3>1. CASE i \in 1 .. n - 1
      <4>1. FrameUse(stack[i], life) /\ CallUse(stack[i], life, closedTpl, late)
        BY <3>1, <1>5, <1>8 DEF FramesUse, CallsUse
      <4>2. FrameUse(stack'[i], life)
        BY <4>1, <3>1, <1>5 DEF FrameUse
      <4>3. CallUse(stack'[i], life, closedTpl, late)
        BY <4>1, <3>1, <1>5 DEF CallUse
      <4> QED
        BY <4>2, <4>3, <1>4
    <3>2. CASE i = n
      BY <3>2, <1>6, RestoreUse
    <3>3. CASE i = n + 1
      BY <3>3, <1>7 DEF FrameUse, CallUse
    <3> QED
      BY <1>9, <3>1, <3>2, <3>3
  <2> QED
    BY <2>1, <1>3 DEF FramesUse, CallsUse
<1>11. CodeAbove'
  <2> SUFFICES ASSUME NEW i \in 1 .. n + 1, NEW j \in 1 .. n + 1, i < j,
                      IsCode(stack'[j]), Waits(stack'[i])
               PROVE  stack'[j].tpl > Level(stack'[i])
    BY <1>3 DEF CodeAbove
  <2>1. CASE j \in 1 .. n - 1
    <3>1. i \in 1 .. n - 1
      BY <2>1, <1>1
    <3>2. /\ IsCode(stack[j]) /\ Waits(stack[i]) /\ Level(stack'[i]) = Level(stack[i])
          /\ stack'[j].tpl = stack[j].tpl /\ i \in 1 .. n /\ j \in 1 .. n
      BY <2>1, <3>1, <1>5 DEF IsCode, Waits, Level
    <3> QED
      BY <3>2, <1>8 DEF CodeAbove
  <2>2. CASE j = n
    BY <2>2, <1>6 DEF IsCode
  <2>3. CASE j = n + 1
    <3>1. CASE i = n
      BY <2>3, <3>1, <1>2, <1>6, <1>7 DEF Level
    <3>2. CASE i \in 1 .. n - 1
      <4>1. Level(stack[i]) <= Top.tpl
        BY <3>2, <1>8, LevelBelow DEF IInv
      <4>2. Level(stack'[i]) = Level(stack[i]) /\ Level(stack[i]) \in Int
        BY <3>2, <1>1, <1>5 DEF Level
      <4> QED
        BY <4>1, <4>2, <2>3, <1>2, <1>7
    <3> QED
      BY <3>1, <3>2, <2>3, <1>1
  <2> QED
    BY <1>9, <2>1, <2>2, <2>3
<1>12. AwaitServed'
  <2> SUFFICES ASSUME NEW i \in 1 .. n + 1, Awaits(stack'[i])
               PROVE  /\ i < n + 1 /\ stack'[i + 1].kind = "restore"
                      /\ stack'[i + 1].pc # "exit"
                      /\ \/ InQueue(queue', stack'[i].ev)
                         \/ \E j \in 1 .. n + 1 : i < j /\ Taken(stack'[j], stack'[i].ev)
    BY <1>3 DEF AwaitServed
  <2>1. i \in 1 .. n - 1
    BY <1>6, <1>7, <1>9 DEF Awaits
  <2>2. Awaits(stack[i]) /\ stack[i].ev # Top.ev /\ stack'[i].ev = stack[i].ev /\ i \in 1 .. n
    BY <2>1, <1>5 DEF Awaits
  <2>3. /\ stack[i + 1].kind = "restore" /\ stack[i + 1].pc # "exit"
        /\ \/ InQueue(queue, stack[i].ev)
           \/ \E j \in 1 .. n : i < j /\ Taken(stack[j], stack[i].ev)
    BY <2>2, <1>8 DEF AwaitServed
  <2>4. i < n + 1 /\ (i + 1 \in 1 .. n - 1 \/ i + 1 = n)
    BY <2>1, <1>1
  <2>5. stack'[i + 1].kind = "restore" /\ stack'[i + 1].pc # "exit"
    BY <2>3, <2>4, <1>5, <1>6
  <2>6. \A j \in 1 .. n : Taken(stack[j], stack[i].ev) =>
          j \in 1 .. n + 1 /\ Taken(stack'[j], stack[i].ev)
    <3> SUFFICES ASSUME NEW j \in 1 .. n, Taken(stack[j], stack[i].ev)
                 PROVE  j \in 1 .. n + 1 /\ Taken(stack'[j], stack[i].ev)
      OBVIOUS
    <3>1. j # n
      BY <2>2, <1>1 DEF Taken
    <3>2. j \in 1 .. n - 1 /\ j \in 1 .. n + 1
      BY <3>1, <1>1
    <3> QED
      BY <3>2, <1>5 DEF Taken
  <2> QED
    BY <2>2, <2>3, <2>4, <2>5, <2>6, <1>4
<1>c. CloseBelow'
  <2> SUFFICES ASSUME NEW i \in 1 .. n + 1, NEW j \in 1 .. n + 1, i < j,
                      stack'[i].kind # "restore", stack'[j].pc = "unlinked"
               PROVE  stack'[i].ev # stack'[j].ev
    BY <1>3 DEF CloseBelow
  <2>1. j \in 1 .. n - 1
    BY <1>6, <1>7, <1>9
  <2>2. i \in 1 .. n - 1
    BY <2>1, <1>1
  <2>3. /\ stack[i].kind # "restore" /\ stack[j].pc = "unlinked" /\ i \in 1 .. n /\ j \in 1 .. n
        /\ stack'[i].ev = stack[i].ev /\ stack'[j].ev = stack[j].ev
    BY <2>1, <2>2, <1>5
  <2> QED
    BY <2>3, <1>8 DEF CloseBelow
<1> QED
  BY <1>10, <1>11, <1>12, <1>c DEF StackInv

-----------------------------------------------------------------------------
(* The stack under each action                                              *)

LEMMA TopUse ==
  ASSUME IInv, StackInv
  PROVE  /\ FrameUse(Top, life)
         /\ Top \in Frame /\ FrameOK(Top) /\ ~Awaits(Top)
<1>1. Len(stack) \in Nat /\ Len(stack) > 0 /\ stack[Len(stack)] = Top
  BY Frames DEF IInv
<1>2. Len(stack) \in 1 .. Len(stack)
  BY <1>1
<1> QED
  BY <1>1, <1>2, TopFacts, TopAwaitsNothing DEF IInv, StackInv, FramesUse

LEMMA AwaitedEvent ==
  ASSUME IInv, StackInv, NEW i \in 1 .. Len(stack), Awaits(stack[i])
  PROVE  stack[i].ev \in Event
<1>1. FrameUse(stack[i], life) /\ FrameOK(stack[i])
  BY Frames DEF IInv, StackInv, FramesUse
<1> QED
  BY <1>1 DEF FrameUse, FrameOK, Awaits

LEMMA NoneNotEvent == None \notin Event
BY EventAssumption

LEMMA NotifyKeeps ==
  ASSUME IInv, NEW e \in Event, NotifyEvent(e) \/ UNCHANGED <<queue, pending, late>>
  PROVE  /\ \A d \in Event : InQueue(queue, d) => InQueue(queue', d)
         /\ late \subseteq late'
BY NotifyQueued DEF IInv, NotifyEvent

(* Code goes on, the events and the queued notifications stay.              *)
LEMMA CodeSteady ==
  ASSUME IInv, StackInv, IsCode(Top), NEW g, Continues(g),
         \/ stack' = Replace(g) /\ ~Awaits(g)
         \/ \E new \in Tpl, at \in Tpl :
              Release(g, new, at) /\ (Awaits(g) => InQueue(queue', g.ev)),
         FrameUse(g, life), g.pc # "unlinked" \/ g = Top,
         UNCHANGED <<life, closedTpl>>, late \subseteq late',
         \A d \in Event : InQueue(queue, d) => InQueue(queue', d)
  PROVE  StackInv'
<1>1. Len(stack) \in Nat
  BY Frames DEF IInv
<1>2. ASSUME NEW i \in 1 .. Len(stack) - 1
      PROVE  /\ FrameUse(stack[i], life') /\ CallUse(stack[i], life', closedTpl', late')
             /\ (Awaits(stack[i]) /\ InQueue(queue, stack[i].ev)) =>
                  InQueue(queue', stack[i].ev)
  <2>1. i \in 1 .. Len(stack)
    BY <1>1
  <2>2. FrameUse(stack[i], life) /\ CallUse(stack[i], life, closedTpl, late)
    BY <2>1 DEF StackInv, FramesUse, CallsUse
  <2> QED
    BY <2>1, <2>2, AwaitedEvent, CallUseGrows
<1>3. FrameUse(g, life')
  OBVIOUS
<1>4. ClosesAlone(g)
  <2>1. /\ Len(stack) > 0 /\ stack[Len(stack)] = Top /\ CloseBelow
        /\ \A i \in 1 .. Len(stack) - 1 : i \in 1 .. Len(stack) /\ i < Len(stack)
    BY <1>1, Frames DEF IInv, StackInv
  <2>2. Len(stack) \in 1 .. Len(stack)
    BY <1>1, <2>1
  <2> QED
    BY <2>1, <2>2 DEF CloseBelow, ClosesAlone
<1> QED
  BY <1>2, <1>3, <1>4, CodeMoves

(* gEventQueueLock is released at TPL_HIGH_LEVEL, to the level of the code.  *)
LEMMA EventRelease ==
  ASSUME IInv, StackInv, NEW g, ReleaseEventLock(g, Top.tpl)
  PROVE  \E new \in Tpl, at \in Tpl : Release(g, new, at)
<1>1. Top.tpl \in Tpl /\ TPL_HIGH_LEVEL \in Tpl
  <2>1. Top \in Frame
    BY TopUse
  <2> QED
    BY <2>1, FrameTypes DEF Tpl, TPL_HIGH_LEVEL
<1> QED
  BY <1>1 DEF ReleaseEventLock

LEMMA SignalStack ==
  ASSUME IInv, StackInv, IsCode(Top), Top.pc \in {"idle", "loop", "install"},
         NEW e \in Event, life[e] \in {"live", "closing"},
         SignalEvent(Top, e), UNCHANGED <<signalList, life, protoReg, closedTpl>>
  PROVE  StackInv'
<1> DEFINE F == {[Top EXCEPT !.pc = "return", !.ev = e, !.await = a] : a \in BOOLEAN}
                  \cup {[Top EXCEPT !.pc = "return", !.ev = e],
                        [Top EXCEPT !.pc = "group", !.ev = e]}
<1>1. /\ Top \in Frame /\ FrameOK(Top) /\ FrameUse(Top, life) /\ Top.await \in BOOLEAN
  BY TopUse, FrameTypes
<1>2. Top.await = FALSE /\ Top.kind # "restore"
  BY <1>1 DEF FrameUse, IsCode
<1>3. ASSUME NEW g \in F
      PROVE  /\ g \in Frame /\ g.kind = Top.kind /\ g.tpl = Top.tpl /\ g.local = Top.local
             /\ g.pc \in {"return", "group"} /\ g.ev = e /\ g.wait = Top.wait
             /\ g.await => g.pc = "return"
  <2>1. CASE g \in {[Top EXCEPT !.pc = "return", !.ev = e, !.await = a] : a \in BOOLEAN}
    <3>1. PICK a \in BOOLEAN : g = [Top EXCEPT !.pc = "return", !.ev = e, !.await = a]
      BY <2>1
    <3> QED
      BY <3>1, <1>1 DEF Frame, CodePc
  <2>2. CASE g = [Top EXCEPT !.pc = "return", !.ev = e]
    BY <2>2, <1>1, <1>2 DEF Frame, CodePc
  <2>3. CASE g = [Top EXCEPT !.pc = "group", !.ev = e]
    BY <2>3, <1>1, <1>2 DEF Frame, CodePc
  <2> QED
    BY <2>1, <2>2, <2>3
<1>4. ASSUME NEW g \in F
      PROVE  Continues(g)
  BY <1>1, <1>3 DEF Continues, FrameOK, RestorePc, IsCode
<1>5. ASSUME NEW g \in F, g.pc = "group" => IsSignal(e)
      PROVE  FrameUse(g, life)
  BY <1>1, <1>2, <1>3, <1>5 DEF FrameUse
<1>6. \E g \in F : /\ ReleaseEventLock(g, Top.tpl)
                   /\ g.pc = "group" => IsSignal(e)
                   /\ g.await => InQueue(queue', e)
  <2>1. CASE /\ signalCount[e] # 0
             /\ ReleaseEventLock([Top EXCEPT !.pc = "return", !.ev = e, !.await = Queued(e)],
                                 Top.tpl)
             /\ UNCHANGED <<pending, queue, signalCount, late>>
    <3> DEFINE g == [Top EXCEPT !.pc = "return", !.ev = e, !.await = Queued(e)]
    <3>1. Queued(e) \in BOOLEAN /\ (Queued(e) <=> InQueue(queue', e))
      BY <2>1, QueuedIs DEF Queued
    <3>2. g \in F
      BY <3>1
    <3>3. g.pc = "return" /\ g.await = Queued(e)
      BY <1>1 DEF Frame
    <3> QED
      BY <2>1, <3>1, <3>2, <3>3
  <2>2. CASE ReleaseEventLock([Top EXCEPT !.pc = "return", !.ev = e], Top.tpl)
    <3> DEFINE g == [Top EXCEPT !.pc = "return", !.ev = e]
    <3>1. g \in F /\ g.pc = "return" /\ g.await = FALSE
      BY <1>1, <1>2 DEF Frame
    <3> QED
      BY <2>2, <3>1
  <2>3. CASE /\ NotifyEvent(e)
             /\ ReleaseEventLock([Top EXCEPT !.pc = "return", !.ev = e, !.await = TRUE], Top.tpl)
    <3> DEFINE g == [Top EXCEPT !.pc = "return", !.ev = e, !.await = TRUE]
    <3>1. g \in F /\ g.pc = "return"
      BY <1>1 DEF Frame
    <3>2. InQueue(queue', e)
      BY <2>3, NotifyQueued DEF IInv
    <3> QED
      BY <2>3, <3>1, <3>2
  <2>4. CASE IsSignal(e) /\ ReleaseEventLock([Top EXCEPT !.pc = "group", !.ev = e], Top.tpl)
    <3> DEFINE g == [Top EXCEPT !.pc = "group", !.ev = e]
    <3>1. g \in F /\ g.pc = "group" /\ g.await = FALSE
      BY <1>1, <1>2 DEF Frame
    <3> QED
      BY <2>4, <3>1
  <2> QED
    BY <2>1, <2>2, <2>3, <2>4 DEF SignalEvent
<1> HIDE DEF F
<1>7. NotifyEvent(e) \/ UNCHANGED <<queue, pending, late>>
  BY DEF SignalEvent
<1>8. late \subseteq late' /\ \A d \in Event : InQueue(queue, d) => InQueue(queue', d)
  BY <1>7, NotifyKeeps
<1>9. PICK g \in F : /\ ReleaseEventLock(g, Top.tpl)
                     /\ g.pc = "group" => IsSignal(e)
                     /\ g.await => InQueue(queue', e)
  BY <1>6
<1>10. \E new \in Tpl, at \in Tpl : Release(g, new, at) /\ (Awaits(g) => InQueue(queue', g.ev))
  <2>1. \E new \in Tpl, at \in Tpl : Release(g, new, at)
    BY <1>9, EventRelease
  <2>2. Awaits(g) => InQueue(queue', g.ev)
    BY <1>3, <1>9 DEF Awaits
  <2> QED
    BY <2>1, <2>2
<1>11. Continues(g) /\ FrameUse(g, life) /\ g.pc # "unlinked"
  BY <1>3, <1>4, <1>5, <1>9
<1> QED
  BY <1>8, <1>10, <1>11, CodeSteady

(* A frame that works on no event and has nothing to wait for that the frame
   before it did not have.                                                  *)
LEMMA FreshUse ==
  ASSUME FrameUse(Top, life), IsCode(Top), NEW g, g.kind = Top.kind, g.tpl = Top.tpl,
         g.pc \in {"idle", "wait", "loop"}, g.ev = None, ~g.await,
         g.wait > 0 => Top.wait > 0
  PROVE  FrameUse(g, life) /\ ~Awaits(g)
BY DEF FrameUse, IsCode, Awaits

LEMMA SignalReturnStack ==
  ASSUME IInv, StackInv, SignalReturn
  PROVE  StackInv'
<1> DEFINE g == [Top EXCEPT !.pc = IF Top.wait > 0 THEN "wait" ELSE "idle",
                            !.wait = IF Top.wait > 0 THEN 1 ELSE 0,
                            !.ev = None, !.await = FALSE]
<1>1. /\ Top \in Frame /\ FrameOK(Top) /\ FrameUse(Top, life) /\ IsCode(Top)
      /\ Top.pc = "return" /\ Top.wait \in 0 .. Len(WaitList)
  BY TopUse, FrameTypes DEF SignalReturn
<1>2. (IF Top.wait > 0 THEN 1 ELSE 0) \in 0 .. Len(WaitList)
  BY <1>1
<1>3. /\ g \in Frame /\ g.kind = Top.kind /\ g.tpl = Top.tpl /\ g.local = Top.local
      /\ g.pc = (IF Top.wait > 0 THEN "wait" ELSE "idle")
      /\ g.wait = (IF Top.wait > 0 THEN 1 ELSE 0) /\ g.ev = None /\ g.await = FALSE
  BY <1>1, <1>2 DEF Frame, CodePc
<1>4. Continues(g)
  BY <1>1, <1>3 DEF Continues, FrameOK, RestorePc, IsCode
<1>5. stack' = Replace(g) /\ UNCHANGED <<life, closedTpl, late, queue>>
  BY DEF SignalReturn
<1> HIDE DEF g
<1>6. FrameUse(g, life) /\ ~Awaits(g) /\ g.pc # "unlinked"
  BY <1>1, <1>3, FreshUse
<1> QED
  BY <1>1, <1>4, <1>5, <1>6, CodeSteady

LEMMA WalkBeginStack ==
  ASSUME IInv, StackInv, WalkBegin
  PROVE  StackInv'
<1> DEFINE g == [Top EXCEPT !.pc = "walk", !.idx = 1]
<1>1. /\ Top \in Frame /\ FrameOK(Top) /\ FrameUse(Top, life) /\ IsCode(Top)
      /\ Top.pc = "group"
  BY TopUse DEF WalkBegin, AtCode
<1>2. /\ g \in Frame /\ g.kind = Top.kind /\ g.tpl = Top.tpl /\ g.local = Top.local
      /\ g.pc = "walk" /\ g.idx = 1 /\ g.ev = Top.ev /\ g.wait = Top.wait
      /\ g.await = Top.await
  BY <1>1 DEF Frame, CodePc
<1>3. Continues(g)
  BY <1>1, <1>2 DEF Continues, FrameOK, RestorePc, IsCode
<1>4. stack' = Replace(g) /\ UNCHANGED <<life, closedTpl, late, queue>>
  BY DEF WalkBegin
<1> HIDE DEF g
<1>5. FrameUse(g, life) /\ ~Awaits(g) /\ g.pc # "unlinked"
  BY <1>1, <1>2 DEF FrameUse, IsCode, Awaits
<1> QED
  BY <1>1, <1>3, <1>4, <1>5, CodeSteady

LEMMA WalkStepStack ==
  ASSUME IInv, StackInv, WalkStep
  PROVE  StackInv'
<1> DEFINE g == [Top EXCEPT !.idx = @ + 1]
           e == signalList[Top.idx]
<1>1. /\ Top \in Frame /\ FrameOK(Top) /\ FrameUse(Top, life) /\ IsCode(Top)
      /\ Top.pc = "walk" /\ Top.idx \in Nat
  BY TopUse, FrameTypes DEF WalkStep, AtCode
<1>2. /\ g \in Frame /\ g.kind = Top.kind /\ g.tpl = Top.tpl /\ g.local = Top.local
      /\ g.pc = "walk" /\ g.idx = Top.idx + 1 /\ g.ev = Top.ev /\ g.wait = Top.wait
      /\ g.await = Top.await
  BY <1>1 DEF Frame
<1>3. Continues(g)
  BY <1>1, <1>2 DEF Continues, FrameOK, RestorePc, IsCode
<1>4. stack' = Replace(g) /\ UNCHANGED <<life, closedTpl>>
  BY DEF WalkStep
<1> HIDE DEF g
<1>5. g.idx >= 1
  BY <1>1, <1>2
<1>6. FrameUse(g, life) /\ ~Awaits(g) /\ g.pc # "unlinked"
  BY <1>1, <1>2, <1>5 DEF FrameUse, IsCode, Awaits
<1>7. e \in Event
  BY LenProperties DEF WalkStep, IInv, TypeOK
<1>8. NotifyEvent(e) \/ UNCHANGED <<queue, pending, late>>
  BY DEF WalkStep
<1> HIDE DEF e
<1>9. late \subseteq late' /\ \A d \in Event : InQueue(queue, d) => InQueue(queue', d)
  BY <1>7, <1>8, NotifyKeeps
<1> QED
  BY <1>1, <1>3, <1>4, <1>6, <1>9, CodeSteady

LEMMA WalkEndStack ==
  ASSUME IInv, StackInv, WalkEnd
  PROVE  StackInv'
<1> DEFINE g == [Top EXCEPT !.pc = "walked", !.idx = 0, !.await = Queued(Top.ev)]
<1>1. /\ Top \in Frame /\ FrameOK(Top) /\ FrameUse(Top, life) /\ IsCode(Top)
      /\ Top.pc = "walk" /\ Top.idx \in Nat /\ Top.ev \in Event
      /\ Queued(Top.ev) \in BOOLEAN
  BY TopUse, FrameTypes DEF WalkEnd, AtCode, FrameOK, Queued
<1>2. /\ g \in Frame /\ g.kind = Top.kind /\ g.tpl = Top.tpl /\ g.local = Top.local
      /\ g.pc = "walked" /\ g.ev = Top.ev /\ g.wait = Top.wait
      /\ g.await = Queued(Top.ev)
  BY <1>1 DEF Frame, CodePc
<1>3. Continues(g)
  BY <1>1, <1>2 DEF Continues, FrameOK, RestorePc, IsCode
<1>4. ReleaseEventLock(g, Top.tpl) /\ UNCHANGED <<life, closedTpl, late, queue>>
  BY DEF WalkEnd
<1> HIDE DEF g
<1>5. FrameUse(g, life) /\ g.pc # "unlinked"
  BY <1>1, <1>2 DEF FrameUse, IsCode
<1>6. ASSUME Awaits(g)
      PROVE  InQueue(queue', g.ev)
  BY <1>2, <1>4, <1>6, QueuedIs DEF Awaits
<1>7. \E new \in Tpl, at \in Tpl : Release(g, new, at) /\ (Awaits(g) => InQueue(queue', g.ev))
  <2>1. \E new \in Tpl, at \in Tpl : Release(g, new, at)
    BY <1>4, EventRelease
  <2> QED
    BY <2>1, <1>6
<1> QED
  BY <1>1, <1>3, <1>4, <1>5, <1>7, CodeSteady

LEMMA GroupSignalledStack ==
  ASSUME IInv, StackInv, GroupSignalled
  PROVE  StackInv'
<1> DEFINE g == [Top EXCEPT !.pc = "return"]
<1>1. /\ Top \in Frame /\ FrameOK(Top) /\ FrameUse(Top, life) /\ IsCode(Top)
      /\ Top.pc = "walked" /\ ~Awaits(Top)
  BY TopUse DEF GroupSignalled, AtCode
<1>2. /\ g \in Frame /\ g.kind = Top.kind /\ g.tpl = Top.tpl /\ g.local = Top.local
      /\ g.pc = "return" /\ g.ev = Top.ev /\ g.wait = Top.wait /\ g.await = Top.await
  BY <1>1 DEF Frame, CodePc
<1>3. Continues(g)
  BY <1>1, <1>2 DEF Continues, FrameOK, RestorePc, IsCode
<1>4. ReleaseEventLock(g, Top.tpl) /\ UNCHANGED <<life, closedTpl, late, queue>>
  BY DEF GroupSignalled
<1> HIDE DEF g
<1>5. FrameUse(g, life) /\ ~Awaits(g) /\ g.pc # "unlinked"
  BY <1>1, <1>2 DEF FrameUse, IsCode, Awaits
<1>6. \E new \in Tpl, at \in Tpl : Release(g, new, at)
  BY <1>4, EventRelease
<1> QED
  BY <1>1, <1>3, <1>4, <1>5, <1>6, CodeSteady

LEMMA CheckBeginUse ==
  ASSUME IInv, StackInv, IsCode(Top), NEW e \in Event, Signature(e)
  PROVE  /\ FrameUse(CheckBegin(Top, e), life) /\ ~Awaits(CheckBegin(Top, e))
         /\ Continues(CheckBegin(Top, e)) /\ CheckBegin(Top, e).pc # "unlinked"
<1> DEFINE g == CheckBegin(Top, e)
<1>1. Top \in Frame /\ FrameUse(Top, life)
  BY TopUse
<1>2. /\ g.kind = Top.kind /\ g.tpl = Top.tpl /\ g.pc \in {"queue", "check"}
      /\ g.ev = e /\ g.wait = Top.wait /\ g.await = FALSE
  BY <1>1 DEF Frame, CheckBegin
<1> HIDE DEF g
<1>3. FrameUse(g, life) /\ ~Awaits(g)
  BY <1>1, <1>2 DEF FrameUse, IsCode, Awaits, Signature
<1> QED
  BY <1>2, <1>3, CheckBeginContinues DEF g

LEMMA AfterCheckUse ==
  ASSUME IInv, StackInv, IsCode(Top), NEW ok \in BOOLEAN
  PROVE  /\ FrameUse(AfterCheck(Top, ok), life) /\ ~Awaits(AfterCheck(Top, ok))
         /\ Continues(AfterCheck(Top, ok)) /\ AfterCheck(Top, ok).pc # "unlinked"
<1> DEFINE h == [Top EXCEPT !.ev = None, !.await = FALSE]
           g == AfterCheck(Top, ok)
<1>1. /\ Top \in Frame /\ FrameUse(Top, life) /\ Top.wait \in 0 .. Len(WaitList)
      /\ Len(WaitList) \in Nat
  BY TopUse, FrameTypes, LenProperties, EventAssumption
<1>2. /\ h \in Frame /\ h.kind = Top.kind /\ h.tpl = Top.tpl
      /\ h.wait = Top.wait /\ h.ev = None /\ h.await = FALSE
  BY <1>1 DEF Frame
<1> HIDE DEF h
<1>3. /\ g.kind = Top.kind /\ g.tpl = Top.tpl /\ g.pc \in {"idle", "wait", "loop"}
      /\ g.ev = None /\ g.await = FALSE
      /\ g.wait > 0 => Top.wait > 0
  <2>1. CASE h.wait = 0 \/ ok
    <3>1. g = [h EXCEPT !.pc = "idle", !.wait = 0]
      BY <2>1 DEF AfterCheck, h
    <3> QED
      BY <1>2, <3>1 DEF Frame
  <2>2. CASE ~ok /\ h.wait > 0 /\ h.wait < Len(WaitList)
    <3>1. g = [h EXCEPT !.pc = "wait", !.wait = h.wait + 1]
      BY <1>1, <1>2, <2>2 DEF AfterCheck, h
    <3> QED
      BY <1>2, <2>2, <3>1 DEF Frame
  <2>3. CASE ~ok /\ h.wait > 0 /\ h.wait >= Len(WaitList)
    <3>1. g = [h EXCEPT !.pc = "loop"]
      BY <1>1, <1>2, <2>3 DEF AfterCheck, h
    <3> QED
      BY <1>2, <2>3, <3>1 DEF Frame
  <2>4. \/ h.wait = 0
        \/ h.wait > 0 /\ h.wait < Len(WaitList)
        \/ h.wait > 0 /\ h.wait >= Len(WaitList)
    BY <1>1, <1>2
  <2> QED
    BY <2>1, <2>2, <2>3, <2>4
<1> HIDE DEF g
<1>4. FrameUse(g, life) /\ ~Awaits(g)
  BY <1>1, <1>3, FreshUse
<1> QED
  BY <1>3, <1>4, AfterCheckContinues DEF g

LEMMA CheckEventStack ==
  ASSUME IInv, StackInv, NEW e \in Event, CheckEvent(e)
  PROVE  StackInv'
<1>1. IsCode(Top) /\ Signature(e)
  BY DEF CheckEvent, Running, IsCode
<1>2. stack' = Replace(CheckBegin(Top, e)) /\ UNCHANGED <<life, closedTpl, late, queue>>
  BY DEF CheckEvent
<1>3. /\ FrameUse(CheckBegin(Top, e), life) /\ ~Awaits(CheckBegin(Top, e))
      /\ Continues(CheckBegin(Top, e)) /\ CheckBegin(Top, e).pc # "unlinked"
  BY <1>1, CheckBeginUse
<1> QED
  BY <1>1, <1>2, <1>3, CodeSteady

LEMMA CheckQueueStack ==
  ASSUME IInv, StackInv, CheckQueue
  PROVE  StackInv'
<1> DEFINE F == {[Top EXCEPT !.pc = "check", !.await = TRUE], [Top EXCEPT !.pc = "check"]}
<1>1. /\ Top \in Frame /\ FrameOK(Top) /\ FrameUse(Top, life) /\ IsCode(Top)
      /\ Top.pc = "queue" /\ Top.ev \in Event /\ Top.await \in BOOLEAN
  BY TopUse, FrameTypes DEF CheckQueue, AtCode, FrameOK
<1>2. Top.await = FALSE
  BY <1>1 DEF FrameUse, IsCode
<1>3. ASSUME NEW g \in F
      PROVE  /\ g \in Frame /\ g.kind = Top.kind /\ g.tpl = Top.tpl /\ g.local = Top.local
             /\ g.pc = "check" /\ g.ev = Top.ev /\ g.wait = Top.wait
  BY <1>1 DEF Frame, CodePc
<1>4. ASSUME NEW g \in F
      PROVE  Continues(g) /\ FrameUse(g, life)
  <2>1. Continues(g)
    BY <1>1, <1>3 DEF Continues, FrameOK, RestorePc, IsCode
  <2>2. FrameUse(g, life)
    BY <1>1, <1>3 DEF FrameUse, IsCode
  <2> QED
    BY <2>1, <2>2
<1>5. \E g \in F : /\ ReleaseEventLock(g, Top.tpl)
                   /\ g.await => InQueue(queue', Top.ev)
  <2>1. CASE /\ NotifyEvent(Top.ev)
             /\ ReleaseEventLock([Top EXCEPT !.pc = "check", !.await = TRUE], Top.tpl)
    <3>1. InQueue(queue', Top.ev)
      BY <2>1, <1>1, NotifyQueued DEF IInv
    <3> QED
      BY <2>1, <3>1
  <2>2. CASE ReleaseEventLock([Top EXCEPT !.pc = "check"], Top.tpl)
    <3>1. [Top EXCEPT !.pc = "check"].await = FALSE
      BY <1>1, <1>2 DEF Frame
    <3> QED
      BY <2>2, <3>1
  <2> QED
    BY <2>1, <2>2 DEF CheckQueue
<1>6. /\ NotifyEvent(Top.ev) \/ UNCHANGED <<queue, pending, late>>
      /\ UNCHANGED <<life, closedTpl>>
  BY DEF CheckQueue
<1> HIDE DEF F
<1>7. late \subseteq late' /\ \A d \in Event : InQueue(queue, d) => InQueue(queue', d)
  BY <1>1, <1>6, NotifyKeeps
<1>8. PICK g \in F : /\ ReleaseEventLock(g, Top.tpl)
                     /\ g.await => InQueue(queue', Top.ev)
  BY <1>5
<1>9. \E new \in Tpl, at \in Tpl : Release(g, new, at) /\ (Awaits(g) => InQueue(queue', g.ev))
  <2>1. \E new \in Tpl, at \in Tpl : Release(g, new, at)
    BY <1>8, EventRelease
  <2>2. Awaits(g) => InQueue(queue', g.ev)
    BY <1>3, <1>8 DEF Awaits
  <2> QED
    BY <2>1, <2>2
<1>10. Continues(g) /\ FrameUse(g, life) /\ g.pc # "unlinked"
  BY <1>3, <1>4
<1> QED
  BY <1>1, <1>6, <1>7, <1>9, <1>10, CodeSteady

LEMMA CheckTestStack ==
  ASSUME IInv, StackInv, CheckTest
  PROVE  StackInv'
<1>1. /\ Top \in Frame /\ FrameOK(Top) /\ FrameUse(Top, life) /\ IsCode(Top)
      /\ Top.pc = "check" /\ ~Awaits(Top)
  BY TopUse DEF CheckTest, AtCode
<1>2. UNCHANGED <<life, closedTpl, late, queue>>
  BY DEF CheckTest
<1>3. CASE signalCount[Top.ev] # 0
  <2> DEFINE g == [Top EXCEPT !.pc = "clear"]
  <2>1. /\ g \in Frame /\ g.kind = Top.kind /\ g.tpl = Top.tpl /\ g.local = Top.local
        /\ g.pc = "clear" /\ g.ev = Top.ev /\ g.wait = Top.wait /\ g.await = Top.await
    BY <1>1 DEF Frame, CodePc
  <2>2. stack' = Replace(g)
    BY <1>3 DEF CheckTest
  <2> HIDE DEF g
  <2>3. Continues(g)
    BY <1>1, <2>1 DEF Continues, FrameOK, RestorePc, IsCode
  <2>4. FrameUse(g, life) /\ ~Awaits(g) /\ g.pc # "unlinked"
    BY <1>1, <2>1 DEF FrameUse, IsCode, Awaits
  <2> QED
    BY <1>1, <1>2, <2>2, <2>3, <2>4, CodeSteady
<1>4. CASE signalCount[Top.ev] = 0
  <2>1. stack' = Replace(AfterCheck(Top, FALSE))
    BY <1>4 DEF CheckTest
  <2>2. /\ FrameUse(AfterCheck(Top, FALSE), life) /\ ~Awaits(AfterCheck(Top, FALSE))
        /\ Continues(AfterCheck(Top, FALSE)) /\ AfterCheck(Top, FALSE).pc # "unlinked"
    BY <1>1, AfterCheckUse
  <2> QED
    BY <1>1, <1>2, <2>1, <2>2, CodeSteady
<1> QED
  BY <1>3, <1>4

LEMMA CheckClearStack ==
  ASSUME IInv, StackInv, CheckClear
  PROVE  StackInv'
<1> DEFINE g == AfterCheck(Top, signalCount[Top.ev] # 0)
<1>1. IsCode(Top)
  BY DEF CheckClear, AtCode
<1>2. ReleaseEventLock(g, Top.tpl) /\ UNCHANGED <<life, closedTpl, late, queue>>
  BY DEF CheckClear
<1>3. FrameUse(g, life) /\ ~Awaits(g) /\ Continues(g) /\ g.pc # "unlinked"
  BY <1>1, AfterCheckUse
<1> HIDE DEF g
<1>4. \E new \in Tpl, at \in Tpl : Release(g, new, at)
  BY <1>2, EventRelease
<1> QED
  BY <1>1, <1>2, <1>3, <1>4, CodeSteady

LEMMA WaitForEventStack ==
  ASSUME IInv, StackInv, MayWait, WaitForEvent
  PROVE  StackInv'
<1> DEFINE g == [Top EXCEPT !.pc = "wait", !.wait = 1]
<1>1. /\ Top \in Frame /\ FrameOK(Top) /\ FrameUse(Top, life) /\ IsCode(Top)
      /\ Top.pc = "idle"
  BY TopUse DEF WaitForEvent, Running, IsCode
<1>2. 1 \in 0 .. Len(WaitList)
  BY EventAssumption, EmptySeq DEF WaitForEvent
<1>3. /\ g \in Frame /\ g.kind = Top.kind /\ g.tpl = Top.tpl /\ g.local = Top.local
      /\ g.pc = "wait" /\ g.wait = 1 /\ g.ev = Top.ev /\ g.await = Top.await
  BY <1>1, <1>2 DEF Frame, CodePc
<1>4. /\ stack' = Replace(g) /\ UNCHANGED <<life, closedTpl, late, queue>>
      /\ \A k \in DOMAIN WaitList : life[WaitList[k]] = "live"
  BY DEF WaitForEvent, MayWait
<1> HIDE DEF g
<1>5. Continues(g)
  BY <1>1, <1>3 DEF Continues, FrameOK, RestorePc, IsCode
<1>6. FrameUse(g, life) /\ ~Awaits(g) /\ g.pc # "unlinked"
  BY <1>1, <1>3, <1>4 DEF FrameUse, IsCode, Awaits
<1> QED
  BY <1>1, <1>4, <1>5, <1>6, CodeSteady

LEMMA WaitCheckStack ==
  ASSUME IInv, StackInv, WaitCheck
  PROVE  StackInv'
<1> DEFINE e == WaitList[Top.wait]
<1>1. /\ Top \in Frame /\ FrameOK(Top) /\ FrameUse(Top, life) /\ IsCode(Top)
      /\ Top.pc = "wait" /\ Top.wait \in 0 .. Len(WaitList) /\ Top.wait > 0
      /\ Len(WaitList) \in Nat
  BY TopUse, FrameTypes, LenProperties, EventAssumption DEF WaitCheck, AtCode, FrameOK
<1>2. e \in Event /\ Top.wait \in DOMAIN WaitList
  BY <1>1, EventAssumption, ElementOfSeq, LenProperties
<1>3. Signature(e)
  BY <1>1, <1>2 DEF FrameUse, IsCode, Signature
<1>4. UNCHANGED <<life, closedTpl, late, queue>>
  BY DEF WaitCheck
<1>5. CASE IsSignal(e)
  <2> DEFINE g == [Top EXCEPT !.pc = "idle", !.wait = 0]
  <2>1. stack' = Replace(g)
    BY <1>5 DEF WaitCheck
  <2>2. 0 \in 0 .. Len(WaitList)
    BY <1>1
  <2>3. /\ g \in Frame /\ g.kind = Top.kind /\ g.tpl = Top.tpl /\ g.local = Top.local
        /\ g.pc = "idle" /\ g.wait = 0 /\ g.ev = Top.ev /\ g.await = Top.await
    BY <1>1, <2>2 DEF Frame, CodePc
  <2> HIDE DEF g
  <2>4. Continues(g)
    BY <1>1, <2>3 DEF Continues, FrameOK, RestorePc, IsCode
  <2>5. FrameUse(g, life) /\ ~Awaits(g) /\ g.pc # "unlinked"
    BY <1>1, <2>3 DEF FrameUse, IsCode, Awaits
  <2> QED
    BY <1>1, <1>4, <2>1, <2>4, <2>5, CodeSteady
<1>6. CASE ~IsSignal(e)
  <2>1. stack' = Replace(CheckBegin(Top, e))
    BY <1>6 DEF WaitCheck
  <2>2. /\ FrameUse(CheckBegin(Top, e), life) /\ ~Awaits(CheckBegin(Top, e))
        /\ Continues(CheckBegin(Top, e)) /\ CheckBegin(Top, e).pc # "unlinked"
    BY <1>1, <1>2, <1>3, CheckBeginUse
  <2> QED
    BY <1>1, <1>4, <2>1, <2>2, CodeSteady
<1> QED
  BY <1>5, <1>6

(* The events a frame uses are not the one whose state changes.             *)
LEMMA OtherLife ==
  ASSUME NEW f \in Frame, FrameOK(f), FrameUse(f, life), NEW e \in Event, NEW v,
         TypeOK, life' = [life EXCEPT ![e] = v],
         f.kind # "restore" =>
           /\ f.ev # e
           /\ f.wait > 0 => \A k \in DOMAIN WaitList : WaitList[k] # e
  PROVE  FrameUse(f, life')
<1>1. \A d \in Event : d # e => life'[d] = life[d]
  BY DEF TypeOK
<1>2. f.ev \in Event \cup {None}
  BY FrameTypes
<1>3. \A k \in DOMAIN WaitList : WaitList[k] \in Event
  BY EventAssumption, LenProperties, ElementOfSeq
<1>4. f.pc = "unlinked" => f.ev \in Event
  BY DEF FrameOK
<1> QED
  BY <1>1, <1>2, <1>3, <1>4 DEF FrameUse

LEMMA CreateEventStack ==
  ASSUME IInv, StackInv, NEW e \in Event, CreateEvent(e)
  PROVE  StackInv'
<1>1. IsCode(Top) /\ Top.pc = "idle" /\ Continues(Top) /\ ~Awaits(Top)
  BY TopContinues, TopUse DEF CreateEvent, Running, IsCode
<1>2. /\ ReleaseEventLock(Top, Top.tpl) /\ life[e] = "none"
      /\ life' = [life EXCEPT ![e] = "live"] /\ UNCHANGED <<closedTpl, late, queue>>
  BY DEF CreateEvent
<1>3. ASSUME NEW i \in 1 .. Len(stack)
      PROVE  FrameUse(stack[i], life') /\ CallUse(stack[i], life', closedTpl', late')
  <2>1. /\ stack[i] \in Frame /\ FrameOK(stack[i]) /\ FrameUse(stack[i], life)
        /\ CallUse(stack[i], life, closedTpl, late)
    BY Frames DEF IInv, StackInv, FramesUse, CallsUse
  <2>2. FrameUse(stack[i], life')
    <3>1. stack[i].kind # "restore" =>
            /\ stack[i].ev # e
            /\ stack[i].wait > 0 => \A k \in DOMAIN WaitList : WaitList[k] # e
      BY <1>2, <2>1, NoneNotEvent DEF FrameUse
    <3> QED
      BY <1>2, <2>1, <3>1, OtherLife DEF IInv
  <2>3. CallUse(stack[i], life', closedTpl', late')
    <3>1. stack[i].pc = "call" => stack[i].ev \in Event
      BY <2>1 DEF FrameOK
    <3>2. \A d \in Event : life'[d] = IF d = e THEN "live" ELSE life[d]
      BY <1>2 DEF IInv, TypeOK
    <3> QED
      BY <1>2, <2>1, <3>1, <3>2 DEF CallUse
  <2> QED
    BY <2>2, <2>3
<1>4. Len(stack) \in Nat /\ Len(stack) > 0 /\ stack[Len(stack)] = Top
  BY Frames DEF IInv
<1>5. /\ FrameUse(Top, life')
      /\ \A i \in 1 .. Len(stack) - 1 :
           /\ FrameUse(stack[i], life') /\ CallUse(stack[i], life', closedTpl', late')
           /\ (Awaits(stack[i]) /\ InQueue(queue, stack[i].ev)) =>
                InQueue(queue', stack[i].ev)
  <2>1. Len(stack) \in 1 .. Len(stack) /\ \A i \in 1 .. Len(stack) - 1 : i \in 1 .. Len(stack)
    BY <1>4
  <2> QED
    BY <2>1, <1>2, <1>3, <1>4
<1>6. \E new \in Tpl, at \in Tpl : Release(Top, new, at)
  BY <1>2, EventRelease
<1>7. ClosesAlone(Top)
  BY <1>1 DEF ClosesAlone
<1> QED
  BY <1>1, <1>5, <1>6, <1>7, CodeMoves

(* An event is closed from above the level of every dispatcher that has taken
   it, and only when no interrupted operation works on it.                  *)
LEMMA CloseEventStack ==
  ASSUME IInv, StackInv, NEW e \in Event, MayClose(e), CloseEvent(e)
  PROVE  StackInv'
<1> DEFINE g == [Top EXCEPT !.pc = "unlinked", !.ev = e]
<1>1. /\ Top \in Frame /\ FrameOK(Top) /\ FrameUse(Top, life) /\ IsCode(Top)
      /\ Top.pc = "idle" /\ currentTpl = Top.tpl /\ Top.tpl <= TPL_NOTIFY
  BY TopUse, CodeLevel DEF CloseEvent, Running, IsCode
<1>2. /\ g \in Frame /\ g.kind = Top.kind /\ g.tpl = Top.tpl /\ g.local = Top.local
      /\ g.pc = "unlinked" /\ g.ev = e /\ g.wait = Top.wait /\ g.await = Top.await
  BY <1>1 DEF Frame, CodePc
<1>3. /\ ReleaseEventLock(g, Top.tpl) /\ ~InUse(e) /\ UNCHANGED late
      /\ life' = [life EXCEPT ![e] = "closing"]
      /\ closedTpl' = [closedTpl EXCEPT ![e] = Top.tpl]
      /\ queue' = [queue EXCEPT ![NotifyTpl(e)] = Unlink(@, e)]
  BY <1>1 DEF CloseEvent, MayClose
<1> HIDE DEF g
<1>4. /\ Len(stack) \in Nat /\ Len(stack) > 0 /\ stack[Len(stack)] = Top
      /\ DOMAIN stack = 1 .. Len(stack)
  BY Frames, TopFacts, LenProperties DEF IInv
<1>5. \A d \in Event : /\ life'[d] = IF d = e THEN "closing" ELSE life[d]
                       /\ closedTpl'[d] = IF d = e THEN Top.tpl ELSE closedTpl[d]
  BY <1>3 DEF IInv, TypeOK
<1>6. \A i \in 1 .. Len(stack) : stack[i].kind # "restore" =>
        /\ stack[i].ev # e
        /\ stack[i].wait > 0 => \A k \in DOMAIN WaitList : WaitList[k] # e
  BY <1>3, <1>4 DEF InUse
<1>7. ASSUME NEW i \in 1 .. Len(stack)
      PROVE  FrameUse(stack[i], life')
  <2>1. stack[i] \in Frame /\ FrameOK(stack[i]) /\ FrameUse(stack[i], life)
    BY Frames DEF IInv, StackInv, FramesUse
  <2> QED
    BY <1>3, <1>6, <2>1, OtherLife DEF IInv
<1>8. ASSUME NEW i \in 1 .. Len(stack) - 1
      PROVE  /\ CallUse(stack[i], life', closedTpl', late')
             /\ (Awaits(stack[i]) /\ InQueue(queue, stack[i].ev)) =>
                  InQueue(queue', stack[i].ev)
  <2>1. i \in 1 .. Len(stack) /\ i < Len(stack) /\ Len(stack) \in 1 .. Len(stack)
    BY <1>4
  <2>2. FrameOK(stack[i]) /\ CallUse(stack[i], life, closedTpl, late) /\ CodeAbove
    BY <2>1, Frames DEF IInv, StackInv, CallsUse
  <2>3. CallUse(stack[i], life', closedTpl', late')
    <3> SUFFICES ASSUME stack[i].kind = "restore", stack[i].pc = "call",
                        life'[stack[i].ev] # "live"
                 PROVE  closedTpl'[stack[i].ev] > NotifyTpl(stack[i].ev) \/ stack[i].ev \in late'
      BY <2>2 DEF CallUse
    <3>1. stack[i].ev \in Event
      BY <2>2 DEF FrameOK
    <3>2. CASE stack[i].ev = e
      <4>1. stack[Len(stack)].tpl > Level(stack[i])
        BY <1>1, <1>4, <2>1, <2>2 DEF CodeAbove, Waits
      <4>2. Level(stack[i]) = NotifyTpl(stack[i].ev)
        BY <2>2 DEF Level, CallUse
      <4> QED
        BY <4>1, <4>2, <3>1, <3>2, <1>4, <1>5
    <3>3. CASE stack[i].ev # e
      BY <3>1, <3>3, <1>3, <1>5, <2>2 DEF CallUse
    <3> QED
      BY <3>2, <3>3
  <2>4. ASSUME Awaits(stack[i]), InQueue(queue, stack[i].ev)
        PROVE  InQueue(queue', stack[i].ev)
    <3>1. stack[i].ev \in Event
      BY <2>1, <2>4, AwaitedEvent
    <3>2. stack[i].ev # e
      BY <2>1, <2>4, <1>6 DEF Awaits
    <3> QED
      BY <3>1, <3>2, <2>4, <1>3, UnlinkQueued DEF IInv
  <2> QED
    BY <2>3, <2>4
<1>9. Continues(g)
  BY <1>1, <1>2 DEF Continues, FrameOK, RestorePc, IsCode
<1>10. FrameUse(g, life') /\ ~Awaits(g)
  <2>1. FrameUse(Top, life')
    <3>1. Len(stack) \in 1 .. Len(stack)
      BY <1>4
    <3> QED
      BY <3>1, <1>4, <1>7
  <2>2. life'[e] = "closing"
    BY <1>5
  <2>3. ~g.await
    BY <1>1, <1>2 DEF FrameUse, IsCode
  <2> QED
    BY <2>1, <2>2, <2>3, <1>1, <1>2 DEF FrameUse, IsCode, Awaits
<1>11. \E new \in Tpl, at \in Tpl : Release(g, new, at)
  BY <1>3, EventRelease
<1>12. \A i \in 1 .. Len(stack) - 1 :
         /\ FrameUse(stack[i], life') /\ CallUse(stack[i], life', closedTpl', late')
         /\ (Awaits(stack[i]) /\ InQueue(queue, stack[i].ev)) =>
              InQueue(queue', stack[i].ev)
  BY <1>4, <1>7, <1>8
<1>13. ClosesAlone(g)
  BY <1>2, <1>4, <1>6 DEF ClosesAlone
<1> QED
  BY <1>1, <1>9, <1>10, <1>11, <1>12, <1>13, CodeMoves

LEMMA CloseFreeStack ==
  ASSUME IInv, StackInv, CloseFree
  PROVE  StackInv'
<1> DEFINE g == [Top EXCEPT !.pc = "idle", !.ev = None]
           e == Top.ev
<1>1. /\ Top \in Frame /\ FrameOK(Top) /\ FrameUse(Top, life) /\ IsCode(Top)
      /\ Top.pc = "unlinked" /\ e \in Event
  BY TopUse DEF CloseFree, AtCode, FrameOK
<1>2. /\ g \in Frame /\ g.kind = Top.kind /\ g.tpl = Top.tpl /\ g.local = Top.local
      /\ g.pc = "idle" /\ g.ev = None /\ g.wait = Top.wait /\ g.await = Top.await
  BY <1>1 DEF Frame, CodePc
<1>3. /\ stack' = Replace(g) /\ life' = [life EXCEPT ![e] = "freed"]
      /\ UNCHANGED <<closedTpl, late, queue>>
  BY DEF CloseFree
<1> HIDE DEF g
<1>4. life[e] = "closing"
  BY <1>1 DEF FrameUse, IsCode
<1>5. \A d \in Event : life'[d] = IF d = e THEN "freed" ELSE life[d]
  BY <1>3 DEF IInv, TypeOK
<1>6. Len(stack) \in Nat /\ Len(stack) > 0 /\ stack[Len(stack)] = Top
  BY Frames DEF IInv
<1>w. \A k \in DOMAIN WaitList : WaitList[k] \in Event
  BY EventAssumption, LenProperties, ElementOfSeq
<1>7. Len(stack) \in 1 .. Len(stack) /\ \A i \in 1 .. Len(stack) - 1 :
        i \in 1 .. Len(stack) /\ i < Len(stack)
  BY <1>6
<1>8. ASSUME NEW i \in 1 .. Len(stack) - 1
      PROVE  FrameUse(stack[i], life') /\ CallUse(stack[i], life', closedTpl', late')
  <2>1. /\ stack[i] \in Frame /\ FrameOK(stack[i]) /\ FrameUse(stack[i], life)
        /\ CallUse(stack[i], life, closedTpl, late) /\ CloseBelow
    BY <1>7, Frames DEF IInv, StackInv, FramesUse, CallsUse
  <2>2. stack[i].pc = "call" => stack[i].ev \in Event
    BY <2>1 DEF FrameOK
  <2>3. stack[i].kind # "restore" =>
          /\ stack[i].ev # e
          /\ stack[i].wait > 0 => \A k \in DOMAIN WaitList : WaitList[k] # e
    <3>1. stack[i].kind # "restore" => stack[i].ev # e
      BY <2>1, <1>1, <1>6, <1>7 DEF CloseBelow
    <3> QED
      BY <3>1, <2>1, <1>4 DEF FrameUse
  <2>4. FrameUse(stack[i], life')
    BY <2>1, <2>3, <1>1, <1>3, OtherLife DEF IInv
  <2>5. CallUse(stack[i], life', closedTpl', late')
    BY <2>1, <2>2, <1>3, <1>4, <1>5 DEF CallUse
  <2> QED
    BY <2>4, <2>5
<1>9. Continues(g) /\ ClosesAlone(g)
  BY <1>1, <1>2 DEF Continues, FrameOK, RestorePc, IsCode, ClosesAlone
<1>10. FrameUse(g, life') /\ ~Awaits(g)
  <2>1. g.wait > 0 => \A k \in DOMAIN WaitList : life'[WaitList[k]] = "live"
    BY <1>1, <1>2, <1>4, <1>5, <1>w DEF FrameUse, IsCode
  <2> QED
    BY <2>1, <1>1, <1>2 DEF FrameUse, IsCode, Awaits
<1>11. \A i \in 1 .. Len(stack) - 1 :
         /\ FrameUse(stack[i], life') /\ CallUse(stack[i], life', closedTpl', late')
         /\ (Awaits(stack[i]) /\ InQueue(queue, stack[i].ev)) =>
              InQueue(queue', stack[i].ev)
  BY <1>3, <1>8
<1> QED
  BY <1>1, <1>3, <1>9, <1>10, <1>11, CodeMoves

(* RegisterProtocolNotify and CoreUnregisterProtocolNotify go on as they are. *)
LEMMA ProtocolStack ==
  ASSUME IInv, StackInv, IsCode(Top), ReleaseProtocolLock(Top),
         UNCHANGED <<life, closedTpl, late, queue>>
  PROVE  StackInv'
<1>1. Continues(Top) /\ FrameUse(Top, life) /\ ~Awaits(Top) /\ Top.tpl \in Tpl
  BY TopContinues, TopUse, FrameTypes
<1>2. ProtocolLockTpl \in Tpl
  BY DEF ProtocolLockTpl, Tpl, TPL_HIGH_LEVEL, TPL_NOTIFY
<1>3. \E new \in Tpl, at \in Tpl : Release(Top, new, at)
  BY <1>1, <1>2 DEF ReleaseProtocolLock
<1> QED
  BY <1>1, <1>3, CodeSteady

LEMMA RaiseTplStack ==
  ASSUME IInv, StackInv, NEW new \in RaiseLevels, RaiseTpl(new)
  PROVE  StackInv'
<1> DEFINE h == CodeFrame("raised", new, currentTpl)
<1>1. new \in Tpl /\ currentTpl \in Tpl /\ currentTpl <= new
  BY EventAssumption DEF RaiseTpl, IInv, TypeOK, Tpl, TPL_APPLICATION, TPL_HIGH_LEVEL
<1>2. h \in Frame
  BY <1>1, CodeFrameOK
<1>3. /\ h.kind = "raised" /\ h.tpl = new /\ h.pc = "idle" /\ h.ev = None
      /\ h.wait = 0 /\ h.await = FALSE
  BY DEF CodeFrame
<1>4. Running /\ stack' = Append(stack, h) /\ UNCHANGED <<life, closedTpl, late, queue>>
  BY DEF RaiseTpl
<1>5. Top.tpl = currentTpl
  BY <1>4, CodeLevel DEF Running, IsCode
<1> HIDE DEF h
<1>6. IsCode(h) /\ FrameUse(h, life) /\ ~h.await /\ h.pc # "unlinked"
  BY <1>3 DEF IsCode, FrameUse
<1> QED
  BY <1>1, <1>2, <1>3, <1>4, <1>5, <1>6, CodePush

LEMMA InstallProtocolStack ==
  ASSUME IInv, StackInv, EventsUse, NEW e \in Event, InstallProtocol(e)
  PROVE  StackInv'
<1> DEFINE c == CodeFrame("locked", ProtocolLockTpl, currentTpl)
           h == [c EXCEPT !.pc = "install", !.ev = e]
<1>1. /\ currentTpl \in Tpl /\ ProtocolLockTpl \in Tpl /\ currentTpl <= ProtocolLockTpl
      /\ ProtocolLockTpl = TPL_NOTIFY
  BY DEF InstallProtocol, IInv, TypeOK, ProtocolLockTpl, Tpl, TPL_NOTIFY, TPL_HIGH_LEVEL
<1>2. c \in Frame
  BY <1>1, CodeFrameOK
<1>3. /\ h \in Frame /\ h.kind = "locked" /\ h.tpl = ProtocolLockTpl /\ h.pc = "install"
      /\ h.ev = e /\ h.wait = 0 /\ h.await = FALSE
  <2>1. c.kind = "locked" /\ c.tpl = ProtocolLockTpl /\ c.wait = 0 /\ c.await = FALSE
    BY DEF CodeFrame
  <2> HIDE DEF c
  <2> QED
    BY <1>2, <2>1 DEF Frame, CodePc
<1>4. /\ Running /\ stack' = Append(stack, h) /\ UNCHANGED <<life, closedTpl, late, queue>>
      /\ e \in protoReg
  BY DEF InstallProtocol
<1>5. Top.tpl = currentTpl
  BY <1>4, CodeLevel DEF Running, IsCode
<1> HIDE DEF h
<1>6. life[e] \in {"live", "closing"}
  BY <1>4 DEF EventsUse
<1>7. IsCode(h) /\ FrameUse(h, life) /\ ~h.await /\ h.pc # "unlinked"
  BY <1>1, <1>3, <1>6 DEF IsCode, FrameUse
<1> QED
  BY <1>1, <1>3, <1>4, <1>5, <1>7, CodePush

LEMMA InterruptStack ==
  ASSUME IInv, StackInv, NEW expired \in BOOLEAN, Interrupt(expired)
  PROVE  StackInv'
<1> DEFINE h == CodeFrame("isr", currentTpl, currentTpl)
           r == RestoreFrame(currentTpl)
<1>1. currentTpl \in Tpl /\ currentTpl <= currentTpl
  BY DEF IInv, TypeOK, Tpl, TPL_HIGH_LEVEL
<1>2. h \in Frame /\ r \in Frame
  BY <1>1, CodeFrameOK, RestoreFrameOK
<1>3. /\ h.kind = "isr" /\ h.pc = "idle" /\ h.ev = None /\ h.wait = 0 /\ h.await = FALSE
      /\ r.kind = "restore" /\ r.pc = "test"
  BY DEF CodeFrame, RestoreFrame
<1>4. stack' = Append(Append(stack, h), r) /\ UNCHANGED <<life, closedTpl>>
  BY DEF Interrupt
<1> HIDE DEF h, r
<1>5. FrameUse(h, life) /\ ~h.await
  BY <1>3 DEF FrameUse
<1>6. NotifyEvent(TickEvent) \/ UNCHANGED <<queue, pending, late>>
  BY DEF Interrupt
<1>7. late \subseteq late' /\ \A d \in Event : InQueue(queue, d) => InQueue(queue', d)
  BY <1>6, NotifyKeeps, CoreEventAssumption
<1>8. \A i \in 1 .. Len(stack) :
        (Awaits(stack[i]) /\ InQueue(queue, stack[i].ev)) => InQueue(queue', stack[i].ev)
  BY <1>7, AwaitedEvent
<1> QED
  BY <1>2, <1>3, <1>4, <1>5, <1>7, <1>8, InterruptMoves

LEMMA RestoreTplStack ==
  ASSUME IInv, StackInv, RestoreTpl
  PROVE  StackInv'
<1> DEFINE g == RestoreFrame(Top.local)
<1>1. Top.kind \in {"raised", "locked"} /\ Top.local \in Tpl
  BY TopUse, FrameTypes DEF RestoreTpl
<1>2. g \in Frame /\ g.kind = "restore" /\ g.pc = "test"
  BY <1>1, RestoreFrameOK
<1>3. stack' = Replace(g) /\ UNCHANGED <<life, closedTpl, late, queue>>
  BY DEF RestoreTpl
<1> HIDE DEF g
<1>4. CallUse(g, life, closedTpl, late)
  BY <1>2 DEF CallUse
<1>5. \A i \in 1 .. Len(stack) - 1 : Awaits(stack[i]) =>
        /\ (i + 1 = Len(stack) /\ Top.kind = "restore") => g.pc # "exit"
        /\ InQueue(queue, stack[i].ev) =>
             (InQueue(queue', stack[i].ev) \/ Taken(g, stack[i].ev))
        /\ Taken(Top, stack[i].ev) => Taken(g, stack[i].ev)
  BY <1>1, <1>3 DEF Taken
<1> QED
  BY <1>2, <1>3, <1>4, <1>5, RestoreMoves

(* Moving within CoreRestoreTpl.                                            *)
LEMMA GotoStack ==
  ASSUME IInv, StackInv, Top.kind = "restore",
         NEW pc \in {"reread", "lower", "take", "exit", "assert", "freed"}, NEW p \in Tpl,
         stack' = Goto(pc, p), UNCHANGED <<life, closedTpl, late, queue>>,
         Top.pc \in {"call", "freed"} => pc = "freed",
         pc = "exit" => \A i \in 1 .. Len(stack) - 1 : i + 1 = Len(stack) => ~Awaits(stack[i])
  PROVE  StackInv'
<1> DEFINE g == [Top EXCEPT !.pc = pc, !.local = p]
<1>1. Top \in Frame
  BY TopUse
<1>2. g \in Frame /\ g.kind = "restore" /\ g.pc = pc /\ g.ev = Top.ev
  BY <1>1 DEF Frame, RestorePc
<1>3. stack' = Replace(g)
  BY DEF Goto
<1> HIDE DEF g
<1>4. CallUse(g, life, closedTpl, late)
  BY <1>2 DEF CallUse
<1>5. \A i \in 1 .. Len(stack) - 1 : Awaits(stack[i]) =>
        /\ (i + 1 = Len(stack) /\ Top.kind = "restore") => g.pc # "exit"
        /\ InQueue(queue, stack[i].ev) =>
             (InQueue(queue', stack[i].ev) \/ Taken(g, stack[i].ev))
        /\ Taken(Top, stack[i].ev) => Taken(g, stack[i].ev)
  BY <1>2 DEF Taken
<1> QED
  BY <1>2, <1>3, <1>4, <1>5, RestoreMoves

(* CoreRestoreTpl is about to return: nothing is pending above NewTpl, so the
   frame below waits for no notification.                                   *)
LEMMA NothingAwaited ==
  ASSUME IInv, StackInv, Top.kind = "restore", Top.pc \in {"test", "reread"},
         \A q \in pending : q <= Top.tpl
  PROVE  \A i \in 1 .. Len(stack) - 1 : i + 1 = Len(stack) => ~Awaits(stack[i])
<1> SUFFICES ASSUME NEW i \in 1 .. Len(stack) - 1, i + 1 = Len(stack), Awaits(stack[i])
             PROVE  FALSE
  OBVIOUS
<1> DEFINE e == stack[i].ev
<1>1. /\ Len(stack) \in Nat /\ stack[Len(stack)] = Top /\ i \in 1 .. Len(stack)
      /\ stack[i].tpl \in Int
  BY Frames DEF IInv
<1>2. e \in Event
  BY <1>1, AwaitedEvent
<1>3. \/ InQueue(queue, e)
      \/ \E j \in 1 .. Len(stack) : i < j /\ Taken(stack[j], e)
  BY <1>1 DEF StackInv, AwaitServed
<1>4. InQueue(queue, e)
  <2>1. \A j \in 1 .. Len(stack) : i < j => j = Len(stack)
    BY <1>1
  <2> QED
    BY <2>1, <1>1, <1>3 DEF Taken
<1>5. NotifyTpl(e) \in pending
  BY <1>2, <1>4, NotifyTplType DEF InQueue, IInv, QueuedPending
<1>6. Pushed(stack[i], stack[i + 1])
  BY DEF IInv, StackDiscipline, WellNested
<1>7. Top.tpl = stack[i].tpl
  BY <1>1, <1>6 DEF Pushed, Suits, ReturnTpl, Awaits
<1>8. stack[i].tpl < NotifyTpl(e)
  BY DEF Awaits
<1>9. NotifyTpl(e) \in Int
  <2>1. NotifyTpl(e) \in Tpl
    BY <1>2, NotifyTplType
  <2>2. Tpl \subseteq Int
    BY DEF Tpl, TPL_HIGH_LEVEL
  <2> QED
    BY <2>1, <2>2
<1> QED
  BY <1>1, <1>5, <1>7, <1>8, <1>9

LEMMA MaskedAll ==
  ASSUME IInv, StackInv, NEW p \in pending, Highest(p), ~Unmasked(p, Top.tpl)
  PROVE  \A q \in pending : q <= Top.tpl
<1>1. Top.tpl \in Int
  BY TopUse, FrameTypes
<1>2. \A q \in pending : q \in Int /\ q <= p
  BY DEF Highest, IInv, TypeOK, Tpl, TPL_HIGH_LEVEL
<1> QED
  BY <1>1, <1>2 DEF Unmasked

LEMMA TestPendingStack ==
  ASSUME IInv, StackInv, TestPending \/ RereadPending
  PROVE  StackInv'
<1>1. /\ Top.kind = "restore" /\ Top.pc \in {"test", "reread"} /\ pending \subseteq Tpl
      /\ UNCHANGED <<life, closedTpl, late, queue>>
  BY DEF TestPending, RereadPending, AtRestore, IInv, TypeOK
<1>2. Top.local \in Tpl
  BY TopUse, FrameTypes
<1>3. \/ /\ pending = {} \/ \E p \in pending : Highest(p) /\ ~Unmasked(p, Top.tpl)
         /\ stack' = Goto("exit", Top.local)
      \/ stack' = Goto("reread", Top.local)
      \/ stack' = Goto("assert", Top.local)
      \/ \E p \in pending : stack' = Goto("lower", p)
  BY DEF TestPending, RereadPending
<1>4. CASE /\ pending = {} \/ \E p \in pending : Highest(p) /\ ~Unmasked(p, Top.tpl)
           /\ stack' = Goto("exit", Top.local)
  <2>1. \A q \in pending : q <= Top.tpl
    BY <1>4, MaskedAll
  <2>2. \A i \in 1 .. Len(stack) - 1 : i + 1 = Len(stack) => ~Awaits(stack[i])
    BY <2>1, <1>1, NothingAwaited
  <2> QED
    BY <1>1, <1>2, <1>4, <2>2, GotoStack
<1>5. CASE stack' = Goto("reread", Top.local)
  BY <1>1, <1>2, <1>5, GotoStack
<1>6. CASE stack' = Goto("assert", Top.local)
  BY <1>1, <1>2, <1>6, GotoStack
<1>7. CASE \E p \in pending : stack' = Goto("lower", p)
  BY <1>1, <1>7, GotoStack
<1> QED
  BY <1>3, <1>4, <1>5, <1>6, <1>7

LEMMA LowerToPendingStack ==
  ASSUME IInv, StackInv, LowerToPending
  PROVE  StackInv'
<1>1. /\ Top.kind = "restore" /\ Top.pc = "lower" /\ Top.local \in Tpl
      /\ stack' = Goto("take", Top.local) /\ UNCHANGED <<life, closedTpl, late, queue>>
  BY TopUse, FrameTypes DEF LowerToPending, AtRestore
<1> QED
  BY <1>1, GotoStack

LEMMA CallFreedStack ==
  ASSUME IInv, StackInv, CallFreed
  PROVE  StackInv'
<1>1. /\ Top.kind = "restore" /\ Top.pc = "call" /\ Top.local \in Tpl
      /\ stack' = Goto("freed", Top.local) /\ UNCHANGED <<life, closedTpl, late, queue>>
  BY TopUse, FrameTypes DEF CallFreed, AtRestore
<1> QED
  BY <1>1, GotoStack

(* The dispatcher takes an event, which those who wait for it see taken.    *)
LEMMA TakeEventStack ==
  ASSUME IInv, StackInv, EventsUse, TakeEvent
  PROVE  StackInv'
<1> DEFINE p == Top.local
           q == queue[p]
<1>1. /\ Top \in Frame /\ Top.kind = "restore" /\ Top.pc = "take" /\ p \in Tpl
      /\ UNCHANGED <<life, closedTpl, late>>
  BY TopUse, FrameTypes DEF TakeEvent, AtRestore
<1>2. CASE q # << >> /\ life[Head(q)] = "freed"
  <2>1. stack' = Goto("freed", p) /\ UNCHANGED queue
    BY <1>2 DEF TakeEvent
  <2> QED
    BY <1>1, <2>1, GotoStack
<1>3. CASE q # << >> /\ life[Head(q)] # "freed"
  <2> DEFINE e == Head(q)
             g == [Top EXCEPT !.pc = "call", !.ev = e]
  <2>1. /\ queue' = [queue EXCEPT ![p] = Tail(@)]
        /\ ReleaseEventLock(g, p)
    BY <1>3 DEF TakeEvent
  <2>2. /\ e \in Event /\ NotifyTpl(e) = p /\ InQueue(queue, e)
        /\ \A d \in Event : d # e => (InQueue(queue', d) <=> InQueue(queue, d))
    BY <1>1, <1>3, <2>1, TakeQueued DEF IInv
  <2> HIDE DEF e
  <2>3. g \in Frame /\ g.kind = "restore" /\ g.pc = "call" /\ g.ev = e /\ g.local = p
    BY <1>1, <2>2 DEF Frame, RestorePc
  <2> HIDE DEF g
  <2>4. life[e] = "live" \/ e \in late
    BY <2>2 DEF EventsUse
  <2>5. CallUse(g, life, closedTpl, late)
    BY <2>2, <2>3, <2>4 DEF CallUse
  <2>6. \A i \in 1 .. Len(stack) - 1 : Awaits(stack[i]) =>
          /\ (i + 1 = Len(stack) /\ Top.kind = "restore") => g.pc # "exit"
          /\ InQueue(queue, stack[i].ev) =>
               (InQueue(queue', stack[i].ev) \/ Taken(g, stack[i].ev))
          /\ Taken(Top, stack[i].ev) => Taken(g, stack[i].ev)
    <3> SUFFICES ASSUME NEW i \in 1 .. Len(stack) - 1, Awaits(stack[i])
                 PROVE  /\ g.pc # "exit"
                        /\ InQueue(queue, stack[i].ev) =>
                             (InQueue(queue', stack[i].ev) \/ Taken(g, stack[i].ev))
                        /\ Taken(Top, stack[i].ev) => Taken(g, stack[i].ev)
      OBVIOUS
    <3>1. i \in 1 .. Len(stack)
      BY Frames DEF IInv
    <3>2. stack[i].ev \in Event
      BY <3>1, AwaitedEvent
    <3> QED
      BY <3>2, <2>2, <2>3, <1>1 DEF Taken
  <2>7. \E new \in Tpl, at \in Tpl : Release(g, new, at)
    <3>1. TPL_HIGH_LEVEL \in Tpl
      BY DEF Tpl, TPL_HIGH_LEVEL
    <3> QED
      BY <3>1, <2>1, <1>1 DEF ReleaseEventLock
  <2> QED
    BY <1>1, <2>3, <2>5, <2>6, <2>7, RestoreMoves
<1>4. CASE q = << >>
  <2> DEFINE g == [Top EXCEPT !.pc = "test"]
  <2>1. ReleaseEventLock(g, p) /\ UNCHANGED queue
    BY <1>4 DEF TakeEvent
  <2>2. g \in Frame /\ g.kind = "restore" /\ g.pc = "test"
    BY <1>1 DEF Frame, RestorePc
  <2> HIDE DEF g
  <2>3. CallUse(g, life, closedTpl, late)
    BY <2>2 DEF CallUse
  <2>4. \A i \in 1 .. Len(stack) - 1 : Awaits(stack[i]) =>
          /\ (i + 1 = Len(stack) /\ Top.kind = "restore") => g.pc # "exit"
          /\ InQueue(queue, stack[i].ev) =>
               (InQueue(queue', stack[i].ev) \/ Taken(g, stack[i].ev))
          /\ Taken(Top, stack[i].ev) => Taken(g, stack[i].ev)
    BY <1>1, <2>1, <2>2 DEF Taken
  <2>5. \E new \in Tpl, at \in Tpl : Release(g, new, at)
    <3>1. TPL_HIGH_LEVEL \in Tpl
      BY DEF Tpl, TPL_HIGH_LEVEL
    <3> QED
      BY <3>1, <2>1, <1>1 DEF ReleaseEventLock
  <2> QED
    BY <1>1, <2>2, <2>3, <2>4, <2>5, RestoreMoves
<1> QED
  BY <1>2, <1>3, <1>4

LEMMA ReturnStack ==
  ASSUME IInv, StackInv, NotifyReturn \/ RestoreExit \/ InterruptReturn
  PROVE  StackInv'
<1>1. /\ stack' = Pop /\ UNCHANGED <<life, closedTpl, late, queue>>
      /\ Top.kind # "app" /\ (Top.kind = "restore" => Top.pc = "exit")
  BY DEF NotifyReturn, RestoreExit, InterruptReturn, AtRestore
<1> QED
  BY <1>1, PopMoves

(* Who signals: a caller, WaitForEvent with gIdleLoopEvent, or
   InstallProtocolInterface with a registered event.                        *)
SignalCall(e) ==
  \/ e \in Event /\ Signal(e)
  \/ WaitIdle /\ e = IdleEvent
  \/ InstallSignal /\ e = Top.ev

LEMMA SignalCalls ==
  ASSUME IInv, StackInv, EventsUse, NEW e, SignalCall(e)
  PROVE  /\ IsCode(Top) /\ Top.pc \in {"idle", "loop", "install"} /\ e \in Event
         /\ life[e] \in {"live", "closing"}
         /\ SignalEvent(Top, e) /\ UNCHANGED <<signalList, life, protoReg, closedTpl>>
<1>1. CASE e \in Event /\ Signal(e)
  BY <1>1 DEF Signal, Signature, Running, IsCode
<1>2. CASE WaitIdle /\ e = IdleEvent
  BY <1>2, CoreEventAssumption DEF WaitIdle, AtCode, EventsUse
<1>3. CASE InstallSignal /\ e = Top.ev
  <2>1. IsCode(Top) /\ Top.pc = "install" /\ e \in Event
    BY <1>3, TopUse DEF InstallSignal, AtCode, FrameOK
  <2>2. life[e] \in {"live", "closing"}
    BY <1>3, <2>1, TopUse, NoneNotEvent DEF FrameUse, IsCode
  <2> QED
    BY <1>3, <2>1, <2>2 DEF InstallSignal
<1> QED
  BY <1>1, <1>2, <1>3 DEF SignalCall

LEMMA NextStack ==
  ASSUME IInv, SInv, [Next]_vars
  PROVE  StackInv'
<1> USE DEF SInv, EventInv, SignalInv
<1>1. CASE UNCHANGED vars
  BY <1>1 DEF vars, StackInv, FramesUse, CloseBelow, CodeAbove, AwaitServed, CallsUse
<1>2. ASSUME NEW new \in RaiseLevels, RaiseTpl(new)
      PROVE  StackInv'
  BY <1>2, RaiseTplStack
<1>3. CASE RestoreTpl \/ TestPending \/ RereadPending \/ LowerToPending
  BY <1>3, RestoreTplStack, TestPendingStack, LowerToPendingStack
<1>4. CASE TakeEvent \/ CallNotify \/ CallFreed
  BY <1>4, TakeEventStack, CallMoves, CallFreedStack
<1>5. CASE NotifyReturn \/ RestoreExit \/ InterruptReturn
  BY <1>5, ReturnStack
<1>6. ASSUME NEW e \in Event,
             \/ CreateEvent(e) \/ CheckEvent(e) \/ InstallProtocol(e)
             \/ MayClose(e) /\ CloseEvent(e)
      PROVE  StackInv'
  BY <1>6, CreateEventStack, CheckEventStack, CloseEventStack, InstallProtocolStack
<1>7. ASSUME NEW e \in Event, RegisterProtocolNotify(e)
      PROVE  StackInv'
  BY <1>7, ProtocolStack DEF RegisterProtocolNotify, Running, IsCode
<1>8. CASE CloseUnregister
  BY <1>8, ProtocolStack DEF CloseUnregister, AtCode
<1>9. ASSUME NEW e, SignalCall(e)
      PROVE  StackInv'
  <2>1. /\ IsCode(Top) /\ Top.pc \in {"idle", "loop", "install"} /\ e \in Event
        /\ life[e] \in {"live", "closing"}
        /\ SignalEvent(Top, e) /\ UNCHANGED <<signalList, life, protoReg, closedTpl>>
    BY <1>9, SignalCalls
  <2> QED
    BY <2>1, SignalStack
<1>10. CASE SignalReturn \/ WalkBegin \/ WalkStep \/ WalkEnd \/ GroupSignalled
  BY <1>10, SignalReturnStack, WalkBeginStack, WalkStepStack, WalkEndStack, GroupSignalledStack
<1>11. CASE CheckQueue \/ CheckTest \/ CheckClear \/ (MayWait /\ WaitForEvent) \/ WaitCheck
  BY <1>11, CheckQueueStack, CheckTestStack, CheckClearStack, WaitForEventStack, WaitCheckStack
<1>12. CASE CloseFree
  BY <1>12, CloseFreeStack
<1>13. ASSUME NEW expired \in BOOLEAN, Interrupt(expired)
       PROVE  StackInv'
  BY <1>13, InterruptStack
<1> QED
  BY <1>1, <1>2, <1>3, <1>4, <1>5, <1>6, <1>7, <1>8, <1>9, <1>10, <1>11, <1>12, <1>13
     DEF Next, CpuStep, SignalCall

-----------------------------------------------------------------------------
(* The events under each action                                             *)

(* No event is created or closed.                                           *)
LEMMA EventSteady ==
  ASSUME EventInv, UNCHANGED <<life, signalList>>,
         protoReg' \subseteq ProtocolEvents, \A e \in protoReg' : life[e] \in {"live", "closing"},
         \A e \in Event : signalCount'[e] # 0 => (signalCount[e] # 0 \/ life[e] # "none"),
         \A e \in Event : InQueue(queue', e) =>
           (InQueue(queue, e) \/ life[e] = "live" \/ e \in late'),
         late \subseteq late'
  PROVE  EventInv'
<1>1. ListExact'
  BY DEF EventInv, ListExact
<1>2. EventsUse'
  BY DEF EventInv, EventsUse
<1> QED
  BY <1>1, <1>2 DEF EventInv

LEMMA NotifyLive ==
  ASSUME IInv, NEW e \in Event,
         NotifyEvent(e) \/ UNCHANGED <<queue, pending, late>>
  PROVE  /\ late \subseteq late'
         /\ \A d \in Event : InQueue(queue', d) =>
              (InQueue(queue, d) \/ life[d] = "live" \/ d \in late')
BY NotifyQueued DEF IInv, NotifyEvent

LEMMA CreateEventEvents ==
  ASSUME IInv, EventInv, NEW e \in Event, CreateEvent(e)
  PROVE  EventInv'
<1>1. /\ life[e] = "none" /\ life' = [life EXCEPT ![e] = "live"]
      /\ signalList' = IF IsSignal(e) THEN Cons(e, signalList) ELSE signalList
      /\ UNCHANGED <<queue, signalCount, protoReg, late>>
  BY DEF CreateEvent
<1>2. \A d \in Event : life'[d] = IF d = e THEN "live" ELSE life[d]
  BY <1>1 DEF IInv, TypeOK
<1>3. /\ signalList \in Seq(Event) /\ DOMAIN signalList = 1 .. Len(signalList)
      /\ Len(signalList) \in Nat
      /\ \A k \in DOMAIN signalList : signalList[k] \in Event
  BY LenProperties, ElementOfSeq DEF IInv, TypeOK
<1>4. ListExact /\ EventsUse
  BY DEF EventInv
<1>5. ListExact'
  <2>1. CASE IsSignal(e)
    <3> DEFINE s == <<e>> \o signalList
    <3>0. <<e>> \in Seq(Event) /\ Len(<<e>>) = 1 /\ <<e>>[1] = e
      OBVIOUS
    <3>1. /\ s \in Seq(Event) /\ Len(s) = 1 + Len(signalList)
          /\ \A i \in 1 .. 1 + Len(signalList) :
               s[i] = IF i <= 1 THEN <<e>>[i] ELSE signalList[i - 1]
      BY <3>0, <1>3, ConcatProperties
    <3>2. signalList' = s
      BY <1>1, <2>1 DEF Cons
    <3> HIDE DEF s
    <3>3. DOMAIN s = 1 .. 1 + Len(signalList)
      BY <3>1, LenProperties
    <3>4. 1 \in DOMAIN s /\ s[1] = e
      BY <3>0, <3>1, <3>3, <1>3
    <3>5. \A k \in DOMAIN s : k # 1 => k - 1 \in DOMAIN signalList /\ s[k] = signalList[k - 1]
      BY <3>1, <3>3, <1>3
    <3>6. \A k \in DOMAIN signalList : k + 1 \in DOMAIN s /\ s[k + 1] = signalList[k]
      BY <3>1, <3>3, <1>3
    <3>7. \A k \in DOMAIN signalList : signalList[k] # e
      BY <1>1, <1>4 DEF ListExact
    <3>8. \A k \in DOMAIN s : life'[s[k]] = "live" /\ IsSignal(s[k])
      <4> SUFFICES ASSUME NEW k \in DOMAIN s
                   PROVE  life'[s[k]] = "live" /\ IsSignal(s[k])
        OBVIOUS
      <4>1. CASE k = 1
        BY <4>1, <3>4, <2>1, <1>2
      <4>2. CASE k # 1
        BY <4>2, <3>5, <1>2, <1>3, <1>4 DEF ListExact
      <4> QED
        BY <4>1, <4>2
    <3>9. \A k, l \in DOMAIN s : s[k] = s[l] => k = l
      <4> SUFFICES ASSUME NEW k \in DOMAIN s, NEW l \in DOMAIN s, s[k] = s[l]
                   PROVE  k = l
        OBVIOUS
      <4>1. CASE k = 1 \/ l = 1
        BY <4>1, <3>4, <3>5, <3>7
      <4>2. CASE k # 1 /\ l # 1
        <5>1. k - 1 = l - 1
          BY <4>2, <3>5, <1>4 DEF ListExact
        <5>2. k \in Int /\ l \in Int
          BY <3>3, <1>3
        <5> QED
          BY <5>1, <5>2
      <4> QED
        BY <4>1, <4>2
    <3>10. \A d \in Event : life'[d] = "live" /\ IsSignal(d) => \E k \in DOMAIN s : s[k] = d
      <4> SUFFICES ASSUME NEW d \in Event, life'[d] = "live", IsSignal(d)
                   PROVE  \E k \in DOMAIN s : s[k] = d
        OBVIOUS
      <4>1. CASE d = e
        BY <4>1, <3>4
      <4>2. CASE d # e
        BY <4>2, <3>6, <1>2, <1>4 DEF ListExact
      <4> QED
        BY <4>1, <4>2
    <3> QED
      BY <3>2, <3>8, <3>9, <3>10 DEF ListExact
  <2>2. CASE ~IsSignal(e)
    BY <2>2, <1>1, <1>2, <1>3, <1>4 DEF ListExact
  <2> QED
    BY <2>1, <2>2
<1>6. EventsUse'
  <2>1. protoReg \subseteq Event /\ \A d \in Event :
          /\ life[d] # "none" => life'[d] # "none"
          /\ life[d] \in {"live", "closing"} => life'[d] \in {"live", "closing"}
    BY <1>2 DEF IInv, TypeOK
  <2>2. life'[TickEvent] = "live" /\ life'[IdleEvent] = "live"
    BY <1>2, <1>4, CoreEventAssumption DEF EventsUse
  <2>3. protoReg' \subseteq ProtocolEvents /\ \A d \in protoReg' : life'[d] \in {"live", "closing"}
    BY <2>1, <1>1, <1>4 DEF EventsUse
  <2>4. \A d \in Event : signalCount'[d] # 0 => life'[d] # "none"
    BY <2>1, <1>1, <1>4 DEF EventsUse
  <2>5. \A d \in Event : InQueue(queue', d) => life'[d] = "live" \/ d \in late'
    BY <1>1, <1>2, <1>4 DEF EventsUse
  <2> QED
    BY <2>2, <2>3, <2>4, <2>5 DEF EventsUse
<1> QED
  BY <1>5, <1>6 DEF EventInv

LEMMA CloseEventEvents ==
  ASSUME IInv, EventInv, NEW e \in Event, MayClose(e), CloseEvent(e)
  PROVE  EventInv'
<1> DEFINE s == Unlink(signalList, e)
<1>1. /\ life[e] \in {"live", "closing"} /\ life' = [life EXCEPT ![e] = "closing"]
      /\ e \notin {TickEvent, IdleEvent} /\ signalList' = s
      /\ queue' = [queue EXCEPT ![NotifyTpl(e)] = Unlink(@, e)]
      /\ UNCHANGED <<signalCount, protoReg, late>>
  BY DEF CloseEvent, MayClose, Signature
<1>2. \A d \in Event : life'[d] = IF d = e THEN "closing" ELSE life[d]
  BY <1>1 DEF IInv, TypeOK
<1>3. ListExact /\ EventsUse /\ signalList \in Seq(Event)
  BY DEF EventInv, IInv, TypeOK
<1>4. \A k, l \in DOMAIN signalList : signalList[k] = signalList[l] => k = l
  BY <1>3 DEF ListExact
<1>5. /\ \A i \in DOMAIN s : \E k \in DOMAIN signalList : s[i] = signalList[k]
      /\ \A i \in DOMAIN s : s[i] # e
      /\ \A i, j \in DOMAIN s : s[i] = s[j] => i = j
  BY <1>3, <1>4, UnlinkPoint
<1>6. \A k \in DOMAIN signalList : signalList[k] # e => \E i \in DOMAIN s : s[i] = signalList[k]
  BY <1>3, UnlinkKeeps
<1> HIDE DEF s
<1>7. \A k \in DOMAIN signalList : signalList[k] \in Event
  BY <1>3, LenProperties, ElementOfSeq
<1>8. ListExact'
  <2>1. \A i \in DOMAIN s : life'[s[i]] = "live" /\ IsSignal(s[i])
    BY <1>2, <1>3, <1>5, <1>7 DEF ListExact
  <2>2. \A d \in Event : life'[d] = "live" /\ IsSignal(d) => \E i \in DOMAIN s : s[i] = d
    <3> SUFFICES ASSUME NEW d \in Event, life'[d] = "live", IsSignal(d)
                 PROVE  \E i \in DOMAIN s : s[i] = d
      OBVIOUS
    <3>1. d # e /\ life[d] = "live"
      BY <1>2
    <3>2. PICK k \in DOMAIN signalList : signalList[k] = d
      BY <3>1, <1>3 DEF ListExact
    <3> QED
      BY <3>1, <3>2, <1>6
  <2> QED
    BY <2>1, <2>2, <1>1, <1>5 DEF ListExact
<1>9. EventsUse'
  <2>1. /\ ~InQueue(queue', e)
        /\ \A d \in Event : d # e => (InQueue(queue', d) <=> InQueue(queue, d))
    BY <1>1, UnlinkQueued DEF IInv
  <2>2. protoReg \subseteq Event /\ \A d \in Event :
          /\ life[d] # "none" => life'[d] # "none"
          /\ life[d] \in {"live", "closing"} => life'[d] \in {"live", "closing"}
    BY <1>2 DEF IInv, TypeOK
  <2>3. life'[TickEvent] = "live" /\ life'[IdleEvent] = "live"
    BY <1>1, <1>2, <1>3, CoreEventAssumption DEF EventsUse
  <2>4. protoReg' \subseteq ProtocolEvents /\ \A d \in protoReg' : life'[d] \in {"live", "closing"}
    BY <2>2, <1>1, <1>3 DEF EventsUse
  <2>5. \A d \in Event : signalCount'[d] # 0 => life'[d] # "none"
    BY <2>2, <1>1, <1>3 DEF EventsUse
  <2>6. \A d \in Event : InQueue(queue', d) => life'[d] = "live" \/ d \in late'
    BY <2>1, <1>1, <1>2, <1>3 DEF EventsUse
  <2> QED
    BY <2>3, <2>4, <2>5, <2>6 DEF EventsUse
<1> QED
  BY <1>8, <1>9 DEF EventInv

LEMMA CloseFreeEvents ==
  ASSUME IInv, StackInv, EventInv, CloseFree
  PROVE  EventInv'
<1> DEFINE e == Top.ev
<1>1. /\ e \in Event /\ life[e] = "closing" /\ e \notin protoReg
      /\ life' = [life EXCEPT ![e] = "freed"]
      /\ UNCHANGED <<queue, signalCount, protoReg, signalList, late>>
  BY TopUse DEF CloseFree, AtCode, IsCode, FrameOK, FrameUse
<1>2. \A d \in Event : life'[d] = IF d = e THEN "freed" ELSE life[d]
  BY <1>1 DEF IInv, TypeOK
<1>3. ListExact /\ EventsUse /\ protoReg \subseteq Event
      /\ \A k \in DOMAIN signalList : signalList[k] \in Event
  BY LenProperties, ElementOfSeq DEF EventInv, IInv, TypeOK
<1> HIDE DEF e
<1>4. ListExact'
  BY <1>1, <1>2, <1>3 DEF ListExact
<1>5. EventsUse'
  BY <1>1, <1>2, <1>3, CoreEventAssumption DEF EventsUse
<1> QED
  BY <1>4, <1>5 DEF EventInv

LEMMA SignalEvents ==
  ASSUME IInv, StackInv, EventInv, NEW e, SignalCall(e)
  PROVE  EventInv'
<1>1. /\ e \in Event /\ life[e] \in {"live", "closing"}
      /\ SignalEvent(Top, e) /\ UNCHANGED <<signalList, life, protoReg, closedTpl>>
  BY SignalCalls DEF EventInv
<1>2. /\ NotifyEvent(e) \/ UNCHANGED <<queue, pending, late>>
      /\ signalCount' = signalCount \/ signalCount' = [signalCount EXCEPT ![e] = 1]
  BY <1>1 DEF SignalEvent
<1>3. late \subseteq late' /\ \A d \in Event : InQueue(queue', d) =>
        (InQueue(queue, d) \/ life[d] = "live" \/ d \in late')
  BY <1>1, <1>2, NotifyLive
<1>4. \A d \in Event : signalCount'[d] # 0 => (signalCount[d] # 0 \/ life[d] # "none")
  BY <1>1, <1>2 DEF IInv, TypeOK
<1> QED
  BY <1>1, <1>3, <1>4, EventSteady DEF EventInv, EventsUse

LEMMA InterruptEvents ==
  ASSUME IInv, EventInv, NEW expired \in BOOLEAN, Interrupt(expired)
  PROVE  EventInv'
<1>1. /\ NotifyEvent(TickEvent) \/ UNCHANGED <<queue, pending, late>>
      /\ signalCount' = signalCount \/ signalCount' = [signalCount EXCEPT ![TickEvent] = 1]
      /\ UNCHANGED <<signalList, life, protoReg>>
  BY DEF Interrupt
<1>2. TickEvent \in Event /\ life[TickEvent] = "live"
  BY CoreEventAssumption DEF EventInv, EventsUse
<1>3. late \subseteq late' /\ \A d \in Event : InQueue(queue', d) =>
        (InQueue(queue, d) \/ life[d] = "live" \/ d \in late')
  BY <1>1, <1>2, NotifyLive
<1>4. \A d \in Event : signalCount'[d] # 0 => (signalCount[d] # 0 \/ life[d] # "none")
  BY <1>1, <1>2 DEF IInv, TypeOK
<1> QED
  BY <1>1, <1>3, <1>4, EventSteady DEF EventInv, EventsUse

LEMMA WalkStepEvents ==
  ASSUME IInv, EventInv, WalkStep
  PROVE  EventInv'
<1> DEFINE e == signalList[Top.idx]
<1>1. /\ NotifyEvent(e) \/ UNCHANGED <<queue, pending, late>>
      /\ UNCHANGED <<signalList, life, protoReg, signalCount>>
      /\ Top.idx \in DOMAIN signalList
  BY DEF WalkStep
<1>2. e \in Event /\ life[e] = "live"
  BY <1>1, LenProperties, ElementOfSeq DEF EventInv, ListExact, IInv, TypeOK
<1> HIDE DEF e
<1>3. late \subseteq late' /\ \A d \in Event : InQueue(queue', d) =>
        (InQueue(queue, d) \/ life[d] = "live" \/ d \in late')
  BY <1>1, <1>2, NotifyLive
<1> QED
  BY <1>1, <1>3, EventSteady DEF EventInv, EventsUse

LEMMA CheckQueueEvents ==
  ASSUME IInv, StackInv, EventInv, CheckQueue
  PROVE  EventInv'
<1>1. /\ NotifyEvent(Top.ev) \/ UNCHANGED <<queue, pending, late>>
      /\ UNCHANGED <<signalList, life, protoReg, signalCount>>
      /\ IsCode(Top) /\ Top.pc = "queue"
  BY DEF CheckQueue, AtCode
<1>2. Top.ev \in Event
  BY <1>1, TopUse DEF FrameOK
<1>3. late \subseteq late' /\ \A d \in Event : InQueue(queue', d) =>
        (InQueue(queue, d) \/ life[d] = "live" \/ d \in late')
  BY <1>1, <1>2, NotifyLive
<1> QED
  BY <1>1, <1>3, EventSteady DEF EventInv, EventsUse

LEMMA TakeEventEvents ==
  ASSUME IInv, StackInv, EventInv, TakeEvent
  PROVE  EventInv'
<1> DEFINE p == Top.local
           h == Head(queue[p])
<1>1. p \in Tpl /\ UNCHANGED <<signalList, life, protoReg, late>>
  BY TopUse, FrameTypes DEF TakeEvent
<1>2. CASE UNCHANGED <<queue, signalCount>>
  BY <1>1, <1>2, EventSteady DEF EventInv, EventsUse
<1>3. CASE /\ queue[p] # << >> /\ queue' = [queue EXCEPT ![p] = Tail(@)]
           /\ signalCount' = signalCount \/ signalCount' = [signalCount EXCEPT ![h] = 0]
  <2>1. /\ h \in Event
        /\ \A d \in Event : InQueue(queue', d) => InQueue(queue, d)
    BY <1>1, <1>3, TakeQueued DEF IInv
  <2> HIDE DEF h
  <2>2. \A d \in Event : signalCount'[d] # 0 => signalCount[d] # 0
    BY <1>3, <2>1 DEF IInv, TypeOK
  <2> QED
    BY <1>1, <2>1, <2>2, EventSteady DEF EventInv, EventsUse
<1> QED
  BY <1>2, <1>3 DEF TakeEvent

(* Steps that touch none of the events.                                     *)
Quiet ==
  \/ \E new \in RaiseLevels : RaiseTpl(new)
  \/ RestoreTpl \/ TestPending \/ RereadPending \/ LowerToPending
  \/ CallNotify \/ CallFreed \/ NotifyReturn \/ RestoreExit \/ InterruptReturn
  \/ \E e \in Event : CheckEvent(e) \/ InstallProtocol(e)
  \/ SignalReturn \/ GroupSignalled \/ CheckTest \/ WaitForEvent \/ WaitCheck

LEMMA QuietVars ==
  ASSUME Quiet
  PROVE  UNCHANGED <<queue, signalList, life, signalCount, protoReg, late>>
<1>1. CASE (\E new \in RaiseLevels : RaiseTpl(new)) \/ RestoreTpl \/ TestPending \/ RereadPending
  BY <1>1 DEF RaiseTpl, RestoreTpl, TestPending, RereadPending
<1>2. CASE LowerToPending \/ CallNotify \/ CallFreed \/ NotifyReturn
  BY <1>2 DEF LowerToPending, CallNotify, CallFreed, NotifyReturn
<1>3. CASE RestoreExit \/ InterruptReturn \/ SignalReturn \/ GroupSignalled \/ CheckTest
  BY <1>3 DEF RestoreExit, InterruptReturn, SignalReturn, GroupSignalled, CheckTest
<1>4. CASE WaitForEvent \/ WaitCheck \/ \E e \in Event : CheckEvent(e) \/ InstallProtocol(e)
  BY <1>4 DEF WaitForEvent, WaitCheck, CheckEvent, InstallProtocol
<1> QED
  BY <1>1, <1>2, <1>3, <1>4 DEF Quiet

LEMMA NextEvents ==
  ASSUME IInv, SInv, [Next]_vars
  PROVE  EventInv'
<1>0. StackInv /\ EventInv
  BY DEF SInv
<1>1. CASE UNCHANGED vars \/ Quiet \/ WalkBegin \/ WalkEnd
  <2>1. UNCHANGED <<queue, signalList, life, signalCount, protoReg, late>>
    BY <1>1, QuietVars DEF vars, WalkBegin, WalkEnd
  <2> QED
    BY <2>1, <1>0, EventSteady DEF EventInv, EventsUse
<1>2. ASSUME NEW e, SignalCall(e)
      PROVE  EventInv'
  BY <1>0, <1>2, SignalEvents
<1>3. ASSUME NEW expired \in BOOLEAN, Interrupt(expired)
      PROVE  EventInv'
  BY <1>0, <1>3, InterruptEvents
<1>4. CASE WalkStep \/ CheckQueue \/ TakeEvent \/ CloseFree
  BY <1>0, <1>4, WalkStepEvents, CheckQueueEvents, TakeEventEvents, CloseFreeEvents
<1>5. ASSUME NEW e \in Event, CreateEvent(e) \/ (MayClose(e) /\ CloseEvent(e))
      PROVE  EventInv'
  BY <1>0, <1>5, CreateEventEvents, CloseEventEvents
<1>6. ASSUME NEW e \in Event, MayRegister(e), RegisterProtocolNotify(e)
      PROVE  EventInv'
  <2>1. /\ protoReg' = protoReg \cup {e} /\ life[e] = "live" /\ e \in ProtocolEvents
        /\ UNCHANGED <<queue, signalList, life, signalCount, late>>
    BY <1>6 DEF RegisterProtocolNotify, MayRegister
  <2> QED
    BY <2>1, <1>0, EventSteady DEF EventInv, EventsUse
<1>7. CASE CloseUnregister
  <2>1. protoReg' \subseteq protoReg /\ UNCHANGED <<queue, signalList, life, signalCount, late>>
    BY <1>7 DEF CloseUnregister
  <2> QED
    BY <2>1, <1>0, EventSteady DEF EventInv, EventsUse
<1>8. CASE CheckClear
  <2>1. UNCHANGED <<queue, signalList, life, protoReg, late>>
        /\ signalCount' = [signalCount EXCEPT ![Top.ev] = 0]
    BY <1>8 DEF CheckClear
  <2>2. \A d \in Event : signalCount'[d] # 0 => signalCount[d] # 0
    BY <2>1 DEF IInv, TypeOK
  <2> QED
    BY <2>1, <2>2, <1>0, EventSteady DEF EventInv, EventsUse
<1> QED
  BY <1>1, <1>2, <1>3, <1>4, <1>5, <1>6, <1>7, <1>8 DEF Next, CpuStep, Quiet, SignalCall

-----------------------------------------------------------------------------
(* The signals under each action                                            *)

(* No walk of gEventSignalQueue is in progress, and the operations that have
   yet to begin one stay on the stack.                                      *)
Settles ==
  /\ Top.pc # "walk" /\ Top'.pc # "walk"
  /\ \A i \in 1 .. Len(stack) : stack[i].pc = "group" =>
       i \in 1 .. Len(stack') /\ stack'[i].ev = stack[i].ev /\ stack'[i].pc = "group"

(* The frame g need not be typed.                                           *)
LEMMA ReplaceAny ==
  ASSUME StackDiscipline, NEW g
  PROVE  /\ Replace(g) \in Seq(Frame \cup {g}) /\ Len(Replace(g)) = Len(stack)
         /\ \A i \in 1 .. Len(stack) : Replace(g)[i] = IF i = Len(stack) THEN g ELSE stack[i]
<1> DEFINE n == Len(stack)
           S == Frame \cup {g}
<1>1. stack \in Seq(Frame) /\ n \in Nat /\ n > 0
  BY TopFacts
<1>2. stack \in [1 .. n -> Frame]
  BY <1>1, LenProperties
<1>3. [stack EXCEPT ![n] = g] \in [1 .. n -> S]
  BY <1>2
<1>4. [stack EXCEPT ![n] = g] \in Seq(S) /\ Len([stack EXCEPT ![n] = g]) = n
  BY <1>1, <1>3, SeqDef, LenProperties
<1> QED
  BY <1>1, <1>2, <1>4 DEF Replace

(* The top frame goes on as g, under a new frame when it releases a lock.   *)
Becomes(g) == stack' = Replace(g) \/ \E new \in Tpl, at \in Tpl : Release(g, new, at)

LEMMA BecomesShape ==
  ASSUME StackDiscipline, NEW g, Becomes(g)
  PROVE  /\ Len(stack') \in {Len(stack), Len(stack) + 1}
         /\ \A i \in 1 .. Len(stack) : stack'[i] = IF i = Len(stack) THEN g ELSE stack[i]
         /\ Top' = g \/ Top'.pc = "test"
<1>1. Len(stack) \in Nat /\ Len(stack) > 0
  BY TopFacts
<1>2. CASE stack' = Replace(g)
  <2>1. /\ Len(stack') = Len(stack)
        /\ \A i \in 1 .. Len(stack) : stack'[i] = IF i = Len(stack) THEN g ELSE stack[i]
    BY <1>2, ReplaceAny
  <2>2. stack'[Len(stack)] = g
    BY <1>1, <2>1
  <2>3. Top' = g
    BY <2>1, <2>2 DEF Top
  <2> QED
    BY <2>1, <2>3
<1>3. ASSUME NEW new \in Tpl, NEW at \in Tpl, Release(g, new, at)
      PROVE  /\ Len(stack') = Len(stack) + 1
             /\ \A i \in 1 .. Len(stack) : stack'[i] = IF i = Len(stack) THEN g ELSE stack[i]
             /\ Top'.pc = "test"
  <2> DEFINE s == Replace(g)
             r == RestoreFrame(new)
             S == Frame \cup {g}
  <2>1. s \in Seq(S) /\ Len(s) = Len(stack) /\ r \in S /\ r.pc = "test"
    BY ReplaceAny, RestoreFrameOK DEF RestoreFrame
  <2>2. \A i \in 1 .. Len(stack) : s[i] = IF i = Len(stack) THEN g ELSE stack[i]
    BY ReplaceAny
  <2>3. stack' = Append(s, r)
    BY <1>3 DEF Release
  <2> HIDE DEF s, r, S
  <2>4. /\ Len(Append(s, r)) = Len(s) + 1
        /\ \A i \in 1 .. Len(s) : Append(s, r)[i] = s[i]
        /\ Append(s, r)[Len(s) + 1] = r
    BY <2>1, AppendProperties
  <2>5. Top' = stack'[Len(stack')]
    BY DEF Top
  <2> QED
    BY <2>1, <2>2, <2>3, <2>4, <2>5
<1> QED
  BY <1>2, <1>3 DEF Becomes

LEMMA BecomesSettles ==
  ASSUME StackDiscipline, Top.pc \notin {"group", "walk"}, NEW g, g.pc # "walk", Becomes(g)
  PROVE  Settles
<1>1. Len(stack) \in Nat /\ Len(stack) > 0 /\ stack[Len(stack)] = Top
  BY TopFacts DEF Top
<1>2. /\ Len(stack') \in {Len(stack), Len(stack) + 1}
      /\ \A i \in 1 .. Len(stack) : stack'[i] = IF i = Len(stack) THEN g ELSE stack[i]
      /\ Top'.pc # "walk"
  BY BecomesShape
<1>3. \A i \in 1 .. Len(stack) : i \in 1 .. Len(stack')
  BY <1>1, <1>2
<1> QED
  BY <1>1, <1>2, <1>3 DEF Settles

(* The signalled events are queued, about to be, or as they were.           *)
LEMMA NotLostKeeps ==
  ASSUME IInv, SignalNotLost, Settles,
         \A e \in Event : (life'[e] = "live" /\ IsSignal(e) /\ signalCount'[e] # 0) =>
           \/ InQueue(queue', e)
           \/ \E i \in 1 .. Len(stack') : stack'[i].ev = e /\ stack'[i].pc = "group"
           \/ /\ life[e] = "live" /\ signalCount[e] # 0
              /\ InQueue(queue, e) => InQueue(queue', e),
         IInv'
  PROVE  SignalInv'
<1>1. WalkedQueued'
  BY DEF Settles, WalkedQueued
<1>2. DOMAIN stack = 1 .. Len(stack) /\ DOMAIN stack' = 1 .. Len(stack')
  BY LenProperties DEF IInv, StackDiscipline, WellNested
<1>3. \A i \in 1 .. Len(stack) : stack[i].pc # "walk"
  <2> SUFFICES ASSUME NEW i \in 1 .. Len(stack), stack[i].pc = "walk"
               PROVE  FALSE
    OBVIOUS
  <2>1. Len(stack) \in Nat /\ stack[Len(stack)].pc # "walk"
    BY TopFacts DEF IInv, Settles, Top
  <2>2. i \in 1 .. Len(stack) - 1
    BY <2>1
  <2> QED
    BY <2>2 DEF IInv, StackDiscipline, WellNested, Pushed
<1>4. ASSUME NEW e \in Event, life'[e] = "live", IsSignal(e), signalCount'[e] # 0
      PROVE  \/ InQueue(queue', e)
             \/ \E i \in DOMAIN stack' : stack'[i].ev = e /\ stack'[i].pc = "group"
  <2>1. CASE InQueue(queue', e)
    BY <2>1
  <2>2. CASE \E i \in 1 .. Len(stack') : stack'[i].ev = e /\ stack'[i].pc = "group"
    BY <2>2, <1>2
  <2>3. CASE /\ life[e] = "live" /\ signalCount[e] # 0
             /\ InQueue(queue, e) => InQueue(queue', e)
    <3>1. CASE InQueue(queue, e)
      BY <3>1, <2>3
    <3>2. CASE ~InQueue(queue, e)
      <4>1. PICK i \in DOMAIN stack : stack[i].ev = e /\ stack[i].pc = "group"
        BY <3>2, <2>3, <1>2, <1>3, <1>4, QueuedIs DEF SignalNotLost
      <4> QED
        BY <4>1, <1>2 DEF Settles
    <3> QED
      BY <3>1, <3>2
  <2> QED
    BY <2>1, <2>2, <2>3, <1>4
<1>5. SignalNotLost'
  BY <1>4, QueuedIs DEF SignalNotLost
<1> QED
  BY <1>1, <1>5 DEF SignalInv

LEMMA NotLostSteady ==
  ASSUME IInv, SignalNotLost, Settles, UNCHANGED <<life, signalCount, queue>>, IInv'
  PROVE  SignalInv'
BY NotLostKeeps

LEMMA PushSettles ==
  ASSUME IInv, Top.pc # "walk", NEW h \in Frame, h.pc # "walk", stack' = Append(stack, h)
  PROVE  Settles
<1>1. Len(stack) \in Nat
  BY TopFacts DEF IInv
<1>2. /\ Len(stack') = Len(stack) + 1
      /\ \A i \in 1 .. Len(stack) : stack'[i] = stack[i]
      /\ stack'[Len(stack) + 1] = h
  BY PushShape DEF IInv
<1>3. Top' = h
  BY <1>2 DEF Top
<1>4. \A i \in 1 .. Len(stack) : i \in 1 .. Len(stack')
  BY <1>1, <1>2
<1> QED
  BY <1>2, <1>3, <1>4 DEF Settles

LEMMA PopSettles ==
  ASSUME IInv, Top.kind # "app", Top.pc \notin {"group", "walk"}, stack' = Pop
  PROVE  Settles
<1>1. /\ Len(stack) \in Nat /\ Len(stack) > 1 /\ Len(stack') = Len(stack) - 1
      /\ \A i \in 1 .. Len(stack) - 1 : stack'[i] = stack[i]
  BY PopShape, TopFacts DEF IInv
<1>2. Len(stack) - 1 \in 1 .. Len(stack) - 1
  BY <1>1
<1>3. stack[Len(stack) - 1].pc # "walk"
  BY <1>2 DEF IInv, StackDiscipline, WellNested, Pushed
<1>4. Top'.pc # "walk"
  BY <1>1, <1>2, <1>3 DEF Top
<1>5. \A i \in 1 .. Len(stack) : i # Len(stack) => i \in 1 .. Len(stack) - 1
  BY <1>1
<1>6. stack[Len(stack)].pc # "group"
  BY DEF Top
<1> QED
  BY <1>1, <1>4, <1>5, <1>6 DEF Settles

LEMMA CallSettles ==
  ASSUME IInv, CallNotify
  PROVE  Settles
<1>1. Top.kind = "restore" /\ Top.pc = "call" /\ Len(stack) \in Nat
  BY TopFacts DEF IInv, CallNotify, AtRestore
<1>2. /\ Len(stack') = Len(stack) + 1
      /\ \A i \in 1 .. Len(stack) - 1 :
           stack'[i] = IF stack[i].ev = Top.ev /\ stack[i].kind # "restore"
                       THEN [stack[i] EXCEPT !.await = FALSE] ELSE stack[i]
      /\ stack'[Len(stack) + 1] = CodeFrame("notify", Top.local, Top.local)
  BY CallShape
<1>3. Top'.pc # "walk"
  BY <1>2 DEF Top, CodeFrame
<1>4. ASSUME NEW i \in 1 .. Len(stack), stack[i].pc = "group"
      PROVE  i \in 1 .. Len(stack') /\ stack'[i].ev = stack[i].ev /\ stack'[i].pc = "group"
  <2>1. stack[i] \in Frame /\ i \in 1 .. Len(stack')
    BY <1>1, <1>2, Frames DEF IInv
  <2>2. i # Len(stack)
    BY <1>1, <1>4 DEF Top
  <2>3. i \in 1 .. Len(stack) - 1
    BY <1>1, <2>2
  <2> DEFINE f == [stack[i] EXCEPT !.await = FALSE]
  <2>4. f.ev = stack[i].ev /\ f.pc = stack[i].pc
    BY <2>1 DEF Frame
  <2>5. stack'[i] = f \/ stack'[i] = stack[i]
    BY <1>2, <2>3
  <2> HIDE DEF f
  <2> QED
    BY <1>4, <2>1, <2>4, <2>5
<1> QED
  BY <1>1, <1>3, <1>4 DEF Settles

LEMMA GotoSettles ==
  ASSUME IInv, Top.kind = "restore", NEW pc \in RestorePc, NEW p, stack' = Goto(pc, p)
  PROVE  Settles
<1> DEFINE g == [Top EXCEPT !.pc = pc, !.local = p]
<1>1. Top \in Frame /\ Top.pc \in RestorePc
  BY TopFacts DEF IInv, FrameOK
<1>2. g.pc = pc
  BY <1>1 DEF Frame
<1>3. Becomes(g)
  BY DEF Goto, Becomes
<1> HIDE DEF g
<1> QED
  BY <1>1, <1>2, <1>3, BecomesSettles DEF IInv, RestorePc

LEMMA QuietSettles ==
  ASSUME IInv, StackInv, Quiet
  PROVE  Settles
<1>0. Top \in Frame /\ FrameOK(Top) /\ StackDiscipline
  BY TopFacts DEF IInv
<1>1. ASSUME NEW new \in RaiseLevels, RaiseTpl(new)
      PROVE  Settles
  <2> DEFINE h == CodeFrame("raised", new, currentTpl)
  <2>1. Top.pc = "idle" /\ stack' = Append(stack, h) /\ currentTpl <= new
    BY <1>1 DEF RaiseTpl, Running, IInv, TypeOK, Tpl
  <2>2. new \in Tpl /\ currentTpl \in Tpl
    BY EventAssumption DEF IInv, TypeOK, Tpl, TPL_HIGH_LEVEL, TPL_APPLICATION
  <2>3. h \in Frame /\ h.pc = "idle"
    <3>1. h \in Frame
      BY <2>1, <2>2, CodeFrameOK
    <3> QED
      BY <3>1 DEF CodeFrame
  <2> HIDE DEF h
  <2> QED
    BY <2>1, <2>3, PushSettles
<1>2. CASE RestoreTpl
  <2>1. Top.pc = "idle" /\ stack' = Replace(RestoreFrame(Top.local))
    BY <1>2 DEF RestoreTpl
  <2> QED
    BY <1>0, <2>1, BecomesSettles DEF Becomes, RestoreFrame
<1>3. CASE TestPending \/ RereadPending \/ LowerToPending \/ CallFreed
  <2>1. /\ Top.kind = "restore"
        /\ \E pc \in RestorePc, p \in {Top.local} \cup pending : stack' = Goto(pc, p)
    BY <1>3 DEF TestPending, RereadPending, LowerToPending, CallFreed, AtRestore, RestorePc
  <2> QED
    BY <2>1, GotoSettles
<1>4. CASE CallNotify
  BY <1>4, CallSettles
<1>5. CASE NotifyReturn \/ RestoreExit \/ InterruptReturn
  <2>1. stack' = Pop /\ Top.kind # "app" /\ Top.pc \notin {"group", "walk"}
    BY <1>0, <1>5 DEF NotifyReturn, RestoreExit, InterruptReturn, Running, AtRestore, FrameOK
  <2> QED
    BY <2>1, PopSettles
<1>6. ASSUME NEW e \in Event, CheckEvent(e)
      PROVE  Settles
  <2>1. Top.pc = "idle" /\ IsCode(Top) /\ stack' = Replace(CheckBegin(Top, e))
    BY <1>6 DEF CheckEvent, Running, IsCode
  <2>2. CheckBegin(Top, e).pc # "walk"
    BY <2>1, CheckBeginContinues
  <2> QED
    BY <1>0, <2>1, <2>2, BecomesSettles DEF Becomes
<1>7. ASSUME NEW e \in Event, InstallProtocol(e)
      PROVE  Settles
  <2> DEFINE k == CodeFrame("locked", ProtocolLockTpl, currentTpl)
             h == [k EXCEPT !.pc = "install", !.ev = e]
  <2>1. Top.pc = "idle" /\ stack' = Append(stack, h) /\ currentTpl <= ProtocolLockTpl
    BY <1>7 DEF InstallProtocol, Running, ProtocolLockTpl
  <2>2. ProtocolLockTpl \in Tpl /\ currentTpl \in Tpl
    BY DEF IInv, TypeOK, Tpl, TPL_HIGH_LEVEL, ProtocolLockTpl, TPL_NOTIFY
  <2>3. k \in Frame
    BY <2>1, <2>2, CodeFrameOK
  <2> HIDE DEF k
  <2>4. h \in Frame /\ h.pc = "install"
    BY <2>3 DEF Frame, CodePc
  <2> HIDE DEF h
  <2> QED
    BY <2>1, <2>4, PushSettles
<1>8. CASE SignalReturn
  <2> DEFINE g == [Top EXCEPT !.pc = IF Top.wait > 0 THEN "wait" ELSE "idle",
                              !.wait = IF Top.wait > 0 THEN 1 ELSE 0,
                              !.ev = None, !.await = FALSE]
  <2>1. Top.pc = "return" /\ stack' = Replace(g) /\ g.pc # "walk"
    BY <1>0, <1>8 DEF SignalReturn, Frame
  <2> HIDE DEF g
  <2> QED
    BY <1>0, <2>1, BecomesSettles DEF Becomes
<1>9. CASE GroupSignalled
  <2> DEFINE g == [Top EXCEPT !.pc = "return"]
  <2>1. Top.pc = "walked" /\ ReleaseEventLock(g, Top.tpl) /\ g.pc # "walk"
    BY <1>0, <1>9 DEF GroupSignalled, AtCode, Frame
  <2> HIDE DEF g
  <2> QED
    BY <1>0, <2>1, BecomesSettles, EventRelease DEF Becomes
<1>10. CASE CheckTest
  <2> DEFINE g == IF signalCount[Top.ev] # 0 THEN [Top EXCEPT !.pc = "clear"]
                                             ELSE AfterCheck(Top, FALSE)
  <2>1. IsCode(Top) /\ Top.pc = "check" /\ stack' = Replace(g)
    BY <1>10 DEF CheckTest, AtCode
  <2>2. AfterCheck(Top, FALSE).pc # "walk"
    BY <2>1, AfterCheckContinues
  <2>3. g.pc # "walk"
    BY <1>0, <2>2 DEF Frame
  <2> HIDE DEF g
  <2> QED
    BY <1>0, <2>1, <2>3, BecomesSettles DEF Becomes
<1>11. CASE WaitForEvent
  <2> DEFINE g == [Top EXCEPT !.pc = "wait", !.wait = 1]
  <2>1. Top.pc = "idle" /\ stack' = Replace(g) /\ g.pc # "walk"
    BY <1>0, <1>11 DEF WaitForEvent, Running, Frame
  <2> HIDE DEF g
  <2> QED
    BY <1>0, <2>1, BecomesSettles DEF Becomes
<1>12. CASE WaitCheck
  <2> DEFINE e == WaitList[Top.wait]
             g == IF IsSignal(e) THEN [Top EXCEPT !.pc = "idle", !.wait = 0]
                                 ELSE CheckBegin(Top, e)
  <2>1. Top.pc = "wait" /\ stack' = Replace(g)
    BY <1>12 DEF WaitCheck, AtCode
  <2>2. CheckBegin(Top, e).pc # "walk"
    BY <1>0 DEF Frame, CheckBegin
  <2>3. g.pc # "walk"
    BY <1>0, <2>2 DEF Frame
  <2> HIDE DEF g
  <2> QED
    BY <1>0, <2>1, <2>3, BecomesSettles DEF Becomes
<1> QED
  BY <1>1, <1>2, <1>3, <1>4, <1>5, <1>6, <1>7, <1>8, <1>9, <1>10, <1>11, <1>12 DEF Quiet

LEMMA SignalSignals ==
  ASSUME IInv, IInv', SInv, NEW e, SignalCall(e)
  PROVE  SignalInv'
<1>1. /\ Top.pc \in {"idle", "loop", "install"} /\ e \in Event
      /\ SignalEvent(Top, e) /\ UNCHANGED life
  BY SignalCalls DEF SInv, EventInv
<1>2. /\ Top \in Frame /\ StackDiscipline /\ Len(stack) \in Nat /\ Len(stack) > 0
      /\ SignalNotLost /\ StackInv
  BY TopFacts DEF IInv, SInv, SignalInv
<1>3. /\ \A d \in Event : (d # e \/ signalCount[e] # 0) => signalCount'[d] = signalCount[d]
      /\ NotifyEvent(e) \/ UNCHANGED <<queue, pending, late>>
  BY <1>1 DEF IInv, TypeOK, SignalEvent
<1>4. \A d \in Event : InQueue(queue, d) => InQueue(queue', d)
  BY <1>1, <1>3, NotifyKeeps
<1>5. \E g : /\ ReleaseEventLock(g, Top.tpl) /\ g.pc # "walk"
             /\ (IsSignal(e) /\ signalCount[e] = 0) =>
                  (InQueue(queue', e) \/ (g.ev = e /\ g.pc = "group"))
  <2>1. CASE signalCount[e] # 0
    <3> DEFINE g == [Top EXCEPT !.pc = "return", !.ev = e, !.await = Queued(e)]
    <3>1. ReleaseEventLock(g, Top.tpl) /\ g.pc = "return"
      BY <2>1, <1>1, <1>2 DEF SignalEvent, Frame
    <3> QED
      BY <2>1, <3>1
  <2>2. CASE ~IsSignal(e) /\ signalCount[e] = 0
    <3> DEFINE g == [Top EXCEPT !.pc = "return", !.ev = e]
    <3>1. ReleaseEventLock(g, Top.tpl) /\ g.pc = "return"
      BY <2>2, <1>1, <1>2 DEF SignalEvent, Frame
    <3> QED
      BY <2>2, <3>1
  <2>3. CASE IsSignal(e) /\ EventGroup(e) = NoGroup /\ signalCount[e] = 0
    <3> DEFINE g == [Top EXCEPT !.pc = "return", !.ev = e, !.await = TRUE]
    <3>1. ReleaseEventLock(g, Top.tpl) /\ g.pc = "return" /\ NotifyEvent(e)
      BY <2>3, <1>1, <1>2 DEF SignalEvent, Frame
    <3>2. InQueue(queue', e)
      BY <1>1, <3>1, NotifyQueued DEF IInv
    <3> QED
      BY <3>1, <3>2
  <2>4. CASE IsSignal(e) /\ EventGroup(e) # NoGroup /\ signalCount[e] = 0
    <3> DEFINE g == [Top EXCEPT !.pc = "group", !.ev = e]
    <3>1. ReleaseEventLock(g, Top.tpl) /\ g.pc = "group" /\ g.ev = e
      BY <2>4, <1>1, <1>2 DEF SignalEvent, Frame
    <3> QED
      BY <3>1
  <2> QED
    BY <2>1, <2>2, <2>3, <2>4
<1>6. PICK g : /\ ReleaseEventLock(g, Top.tpl) /\ g.pc # "walk"
               /\ (IsSignal(e) /\ signalCount[e] = 0) =>
                    (InQueue(queue', e) \/ (g.ev = e /\ g.pc = "group"))
  BY <1>5
<1>7. Becomes(g)
  BY <1>2, <1>6, EventRelease DEF Becomes
<1>8. Settles
  BY <1>1, <1>2, <1>6, <1>7, BecomesSettles
<1>9. Len(stack) \in 1 .. Len(stack') /\ stack'[Len(stack)] = g
  <2>1. /\ Len(stack') \in {Len(stack), Len(stack) + 1}
        /\ \A i \in 1 .. Len(stack) : stack'[i] = IF i = Len(stack) THEN g ELSE stack[i]
    BY <1>2, <1>7, BecomesShape
  <2> QED
    BY <1>2, <2>1
<1>10. ASSUME NEW d \in Event, life'[d] = "live", IsSignal(d), signalCount'[d] # 0
       PROVE  \/ InQueue(queue', d)
              \/ \E i \in 1 .. Len(stack') : stack'[i].ev = d /\ stack'[i].pc = "group"
              \/ /\ life[d] = "live" /\ signalCount[d] # 0
                 /\ InQueue(queue, d) => InQueue(queue', d)
  <2>1. CASE d # e \/ signalCount[e] # 0
    BY <2>1, <1>1, <1>3, <1>4, <1>10
  <2>2. CASE d = e /\ signalCount[e] = 0
    BY <2>2, <1>6, <1>9, <1>10
  <2> QED
    BY <2>1, <2>2
<1> QED
  BY <1>2, <1>8, <1>10, NotLostKeeps

LEMMA InterruptSignals ==
  ASSUME IInv, IInv', SInv, NEW expired \in BOOLEAN, Interrupt(expired)
  PROVE  SignalInv'
<1> DEFINE h == CodeFrame("isr", currentTpl, currentTpl)
           r == RestoreFrame(currentTpl)
<1>1. /\ NotifyEvent(TickEvent) \/ (UNCHANGED <<queue, pending, late>> /\ UNCHANGED signalCount)
      /\ signalCount' = signalCount \/ signalCount' = [signalCount EXCEPT ![TickEvent] = 1]
      /\ UNCHANGED life /\ stack' = Append(Append(stack, h), r) /\ intr
  BY DEF Interrupt
<1>2. /\ TickEvent \in Event /\ SignalNotLost /\ Top.pc # "walk"
  BY <1>1, CoreEventAssumption DEF SInv, SignalInv, IInv, LevelRestored
<1>3. \A d \in Event : InQueue(queue, d) => InQueue(queue', d)
  BY <1>1, <1>2, NotifyKeeps
<1>4. Settles
  <2>1. h \in Frame /\ r \in Frame /\ r.pc = "test" /\ stack \in Seq(Frame) /\ Len(stack) \in Nat
    <3>1. currentTpl \in Tpl /\ currentTpl <= currentTpl
      BY DEF IInv, TypeOK, Tpl
    <3>2. h \in Frame
      BY <3>1, CodeFrameOK
    <3> QED
      BY <3>1, <3>2, TopFacts, RestoreFrameOK DEF IInv, RestoreFrame
  <2> DEFINE s == Append(stack, h)
  <2> HIDE DEF h, r
  <2>2. /\ s \in Seq(Frame) /\ Len(s) = Len(stack) + 1
        /\ \A i \in 1 .. Len(stack) : s[i] = stack[i]
    BY <2>1, AppendProperties
  <2> HIDE DEF s
  <2>3. /\ Len(Append(s, r)) = Len(s) + 1
        /\ \A i \in 1 .. Len(s) : Append(s, r)[i] = s[i]
        /\ Append(s, r)[Len(s) + 1] = r
    BY <2>1, <2>2, AppendProperties
  <2>4. stack' = Append(s, r)
    BY <1>1 DEF s
  <2>5. Top' = r
    BY <2>3, <2>4 DEF Top
  <2>6. \A i \in 1 .. Len(stack) : i \in 1 .. Len(stack') /\ stack'[i] = stack[i]
    BY <2>1, <2>2, <2>3, <2>4
  <2> QED
    BY <1>2, <2>1, <2>5, <2>6 DEF Settles
<1>5. ASSUME NEW d \in Event, life'[d] = "live", IsSignal(d), signalCount'[d] # 0
      PROVE  \/ InQueue(queue', d)
             \/ /\ life[d] = "live" /\ signalCount[d] # 0
                /\ InQueue(queue, d) => InQueue(queue', d)
  <2>1. CASE NotifyEvent(TickEvent) /\ d = TickEvent
    <3>1. InQueue(queue', TickEvent)
      BY <2>1, <1>2, NotifyQueued DEF IInv
    <3> QED
      BY <2>1, <3>1
  <2>2. CASE UNCHANGED signalCount \/ d # TickEvent
    BY <2>2, <1>1, <1>2, <1>3, <1>5 DEF IInv, TypeOK
  <2> QED
    BY <2>1, <2>2, <1>1
<1> QED
  BY <1>2, <1>4, <1>5, NotLostKeeps

LEMMA TakeEventSignals ==
  ASSUME IInv, IInv', SInv, TakeEvent
  PROVE  SignalInv'
<1> DEFINE p == Top.local
           h == Head(queue[p])
<1>1. /\ Top \in Frame /\ FrameOK(Top) /\ p \in Tpl /\ StackDiscipline /\ SignalNotLost
      /\ Top.kind = "restore" /\ Top.pc = "take" /\ UNCHANGED life
  BY TopFacts, FrameTypes DEF IInv, TakeEvent, AtRestore, SInv, SignalInv
<1>2. CASE stack' = Goto("freed", p) /\ UNCHANGED <<queue, signalCount>>
  <2>1. Settles
    BY <1>1, <1>2, GotoSettles DEF RestorePc
  <2> QED
    BY <1>1, <1>2, <2>1, NotLostSteady
<1>3. TPL_HIGH_LEVEL \in Tpl
  BY DEF Tpl, TPL_HIGH_LEVEL
<1>4. CASE ReleaseEventLock([Top EXCEPT !.pc = "test"], p) /\ UNCHANGED <<queue, signalCount>>
  <2> DEFINE g == [Top EXCEPT !.pc = "test"]
  <2>1. g.pc = "test" /\ Becomes(g)
    BY <1>1, <1>3, <1>4 DEF Frame, Becomes, ReleaseEventLock
  <2> HIDE DEF g
  <2>2. Settles
    BY <1>1, <2>1, BecomesSettles
  <2> QED
    BY <1>1, <1>4, <2>2, NotLostSteady
<1>5. CASE /\ queue[p] # << >> /\ queue' = [queue EXCEPT ![p] = Tail(@)]
           /\ signalCount' = IF ClearedByDispatch(h) THEN [signalCount EXCEPT ![h] = 0]
                                                     ELSE signalCount
           /\ ReleaseEventLock([Top EXCEPT !.pc = "call", !.ev = h], p)
  <2>1. /\ h \in Event
        /\ \A d \in Event : d # h => (InQueue(queue', d) <=> InQueue(queue, d))
    BY <1>1, <1>5, TakeQueued DEF IInv
  <2> DEFINE g == [Top EXCEPT !.pc = "call", !.ev = h]
  <2>2. g.pc = "call" /\ Becomes(g)
    BY <1>1, <1>3, <1>5 DEF Frame, Becomes, ReleaseEventLock
  <2> HIDE DEF g, h
  <2>3. Settles
    BY <1>1, <2>2, BecomesSettles
  <2>4. \A d \in Event : /\ d # h => signalCount'[d] = signalCount[d]
                         /\ IsSignal(d) /\ d = h => signalCount'[d] = 0
    BY <1>5, <2>1 DEF IInv, TypeOK, ClearedByDispatch
  <2> QED
    BY <1>1, <2>1, <2>3, <2>4, NotLostKeeps
<1> QED
  BY <1>2, <1>4, <1>5 DEF TakeEvent

LEMMA CreateEventSignals ==
  ASSUME IInv, IInv', SInv, NEW e \in Event, CreateEvent(e)
  PROVE  SignalInv'
<1>1. /\ life[e] = "none" /\ life' = [life EXCEPT ![e] = "live"] /\ Top.pc = "idle"
      /\ UNCHANGED <<queue, signalCount>> /\ ReleaseEventLock(Top, Top.tpl)
  BY DEF CreateEvent, Running
<1>2. signalCount[e] = 0 /\ SignalNotLost /\ StackInv /\ StackDiscipline
  BY <1>1 DEF SInv, EventInv, EventsUse, SignalInv, IInv
<1>3. \A d \in Event : d # e => life'[d] = life[d]
  BY <1>1 DEF IInv, TypeOK
<1>4. Settles
  BY <1>1, <1>2, BecomesSettles, EventRelease DEF Becomes
<1> QED
  BY <1>1, <1>2, <1>3, <1>4, NotLostKeeps

LEMMA CloseEventSignals ==
  ASSUME IInv, IInv', SInv, NEW e \in Event, CloseEvent(e)
  PROVE  SignalInv'
<1> DEFINE g == [Top EXCEPT !.pc = "unlinked", !.ev = e]
<1>1. /\ life' = [life EXCEPT ![e] = "closing"] /\ Top.pc = "idle"
      /\ queue' = [queue EXCEPT ![NotifyTpl(e)] = Unlink(@, e)]
      /\ UNCHANGED signalCount /\ ReleaseEventLock(g, Top.tpl)
  BY DEF CloseEvent, Running
<1>2. SignalNotLost /\ StackInv /\ StackDiscipline /\ Top \in Frame
  BY TopFacts DEF SInv, SignalInv, IInv
<1>3. g.pc = "unlinked"
  BY <1>2 DEF Frame
<1>4. \A d \in Event : /\ d # e => life'[d] = life[d]
                       /\ d = e => life'[d] # "live"
                       /\ d # e => (InQueue(queue', d) <=> InQueue(queue, d))
  <2>1. \A d \in Event : d # e => (InQueue(queue', d) <=> InQueue(queue, d))
    BY <1>1, UnlinkQueued DEF IInv
  <2>2. \A d \in Event : life'[d] = IF d = e THEN "closing" ELSE life[d]
    BY <1>1 DEF IInv, TypeOK
  <2> QED
    BY <2>1, <2>2
<1> HIDE DEF g
<1>5. Settles
  BY <1>1, <1>2, <1>3, BecomesSettles, EventRelease DEF Becomes
<1> QED
  BY <1>1, <1>2, <1>4, <1>5, NotLostKeeps

LEMMA CloseRestSignals ==
  ASSUME IInv, IInv', SInv, CloseFree \/ CloseUnregister
  PROVE  SignalInv'
<1>1. SignalNotLost /\ StackInv /\ StackDiscipline /\ Top \in Frame /\ Top.tpl \in Tpl
  BY TopFacts, FrameTypes DEF SInv, SignalInv, IInv
<1>2. CASE CloseFree
  <2> DEFINE g == [Top EXCEPT !.pc = "idle", !.ev = None]
  <2>1. /\ life' = [life EXCEPT ![Top.ev] = "freed"] /\ Top.pc = "unlinked"
        /\ UNCHANGED <<queue, signalCount>> /\ Becomes(g) /\ g.pc = "idle"
    BY <1>1, <1>2 DEF CloseFree, AtCode, Becomes, Frame
  <2>2. \A d \in Event : life'[d] = "live" => life[d] = "live"
    BY <2>1 DEF IInv, TypeOK
  <2> HIDE DEF g
  <2>3. Settles
    BY <1>1, <2>1, BecomesSettles
  <2> QED
    BY <1>1, <2>1, <2>2, <2>3, NotLostKeeps
<1>3. CASE CloseUnregister
  <2>1. /\ Top.pc = "unlinked" /\ UNCHANGED <<life, queue, signalCount>>
        /\ Release(Top, Top.tpl, ProtocolLockTpl)
    BY <1>3 DEF CloseUnregister, AtCode, ReleaseProtocolLock
  <2>2. ProtocolLockTpl \in Tpl
    BY DEF ProtocolLockTpl, TPL_NOTIFY, Tpl, TPL_HIGH_LEVEL
  <2>3. Settles
    BY <1>1, <2>1, <2>2, BecomesSettles DEF Becomes
  <2> QED
    BY <1>1, <2>1, <2>3, NotLostSteady
<1> QED
  BY <1>2, <1>3

LEMMA RegisterSignals ==
  ASSUME IInv, IInv', SInv, NEW e \in Event, RegisterProtocolNotify(e)
  PROVE  SignalInv'
<1>1. SignalNotLost /\ StackDiscipline /\ Top.tpl \in Tpl
  BY TopFacts, FrameTypes DEF SInv, SignalInv, IInv
<1>2. /\ Top.pc = "idle" /\ UNCHANGED <<life, queue, signalCount>>
      /\ Release(Top, Top.tpl, ProtocolLockTpl)
  BY DEF RegisterProtocolNotify, Running, ReleaseProtocolLock
<1>3. ProtocolLockTpl \in Tpl
  BY DEF ProtocolLockTpl, TPL_NOTIFY, Tpl, TPL_HIGH_LEVEL
<1>4. Settles
  BY <1>1, <1>2, <1>3, BecomesSettles DEF Becomes
<1> QED
  BY <1>1, <1>2, <1>4, NotLostSteady

LEMMA CheckSignals ==
  ASSUME IInv, IInv', SInv, CheckQueue \/ CheckClear
  PROVE  SignalInv'
<1>1. SignalNotLost /\ StackInv /\ StackDiscipline /\ Top \in Frame /\ FrameOK(Top)
  BY TopFacts DEF SInv, SignalInv, IInv
<1>2. CASE CheckQueue
  <2>1. /\ Top.pc = "queue" /\ UNCHANGED <<life, signalCount>>
        /\ NotifyEvent(Top.ev) \/ UNCHANGED <<queue, pending, late>>
    BY <1>2 DEF CheckQueue, AtCode
  <2>2. Top.ev \in Event
    BY <1>1, <2>1 DEF FrameOK
  <2>3. \A d \in Event : InQueue(queue, d) => InQueue(queue', d)
    BY <2>1, <2>2, NotifyKeeps
  <2>4. \E g \in {[Top EXCEPT !.pc = "check", !.await = TRUE], [Top EXCEPT !.pc = "check"]} :
          ReleaseEventLock(g, Top.tpl)
    BY <1>2 DEF CheckQueue
  <2>5. PICK g \in {[Top EXCEPT !.pc = "check", !.await = TRUE], [Top EXCEPT !.pc = "check"]} :
          ReleaseEventLock(g, Top.tpl)
    BY <2>4
  <2>6. g.pc = "check"
    BY <1>1, <2>5 DEF Frame
  <2>7. Becomes(g)
    BY <1>1, <2>5, EventRelease DEF Becomes
  <2>8. Settles
    BY <1>1, <2>1, <2>6, <2>7, BecomesSettles
  <2> QED
    BY <1>1, <2>1, <2>3, <2>8, NotLostKeeps
<1>3. CASE CheckClear
  <2> DEFINE g == AfterCheck(Top, signalCount[Top.ev] # 0)
  <2>1. /\ Top.pc = "clear" /\ IsCode(Top) /\ UNCHANGED <<life, queue>>
        /\ signalCount' = [signalCount EXCEPT ![Top.ev] = 0]
        /\ ReleaseEventLock(g, Top.tpl)
    BY <1>3 DEF CheckClear, AtCode
  <2>2. \A d \in Event : signalCount'[d] # 0 => signalCount[d] # 0
    BY <2>1 DEF IInv, TypeOK
  <2>3. (signalCount[Top.ev] # 0) \in BOOLEAN
    OBVIOUS
  <2>4. g.pc # "walk"
    BY <2>1, <2>3, AfterCheckContinues
  <2> HIDE DEF g
  <2>5. Settles
    BY <1>1, <2>1, <2>4, BecomesSettles, EventRelease DEF Becomes
  <2> QED
    BY <1>1, <2>1, <2>2, <2>5, NotLostKeeps
<1> QED
  BY <1>2, <1>3

(* While the list is walked, the walk is on top of the stack.               *)
LEMMA WalkFacts ==
  ASSUME IInv, SInv
  PROVE  /\ DOMAIN stack = 1 .. Len(stack) /\ Len(stack) \in Nat /\ Len(stack) > 0
         /\ stack[Len(stack)] = Top /\ Top \in Frame /\ StackDiscipline
         /\ \A i \in 1 .. Len(stack) : i # Len(stack) => stack[i].pc # "walk"
         /\ DOMAIN signalList = 1 .. Len(signalList) /\ Len(signalList) \in Nat
         /\ \A k \in DOMAIN signalList : signalList[k] \in Event
<1>1. /\ stack \in Seq(Frame) /\ Len(stack) \in Nat /\ Len(stack) > 0
      /\ stack[Len(stack)] = Top /\ Top \in Frame /\ StackDiscipline
  BY TopFacts DEF IInv, Top
<1>2. DOMAIN stack = 1 .. Len(stack)
  BY <1>1, LenProperties
<1>3. \A i \in 1 .. Len(stack) : i # Len(stack) => i \in 1 .. Len(stack) - 1
  BY <1>1
<1>4. \A i \in 1 .. Len(stack) - 1 : stack[i].pc # "walk"
  BY DEF IInv, StackDiscipline, WellNested, Pushed
<1>5. /\ DOMAIN signalList = 1 .. Len(signalList) /\ Len(signalList) \in Nat
      /\ \A k \in DOMAIN signalList : signalList[k] \in Event
  BY LenProperties, ElementOfSeq DEF IInv, TypeOK
<1> QED
  BY <1>1, <1>2, <1>3, <1>4, <1>5

(* Where a signal that is not queued is: in an operation below the top, or in
   the one on top, which has yet to walk the list or to reach it there.     *)
LEMMA WhereSignalled ==
  ASSUME IInv, SInv, NEW e \in Event, life[e] = "live", IsSignal(e), signalCount[e] # 0,
         ~InQueue(queue, e)
  PROVE  \/ \E i \in 1 .. Len(stack) :
              i # Len(stack) /\ stack[i].ev = e /\ stack[i].pc = "group"
         \/ Top.ev = e /\ Top.pc = "group"
         \/ /\ Top.ev = e /\ Top.pc = "walk"
            /\ \E k \in DOMAIN signalList : k >= Top.idx /\ signalList[k] = e
<1>1. ~Queued(e) /\ SignalNotLost
  BY QueuedIs DEF SInv, SignalInv
<1>2. PICK i \in DOMAIN stack :
        /\ stack[i].ev = e
        /\ \/ stack[i].pc = "group"
           \/ /\ stack[i].pc = "walk"
              /\ \E k \in DOMAIN signalList : k >= stack[i].idx /\ signalList[k] = e
  BY <1>1 DEF SignalNotLost
<1> QED
  BY <1>2, WalkFacts

LEMMA WalkBeginSignals ==
  ASSUME IInv, IInv', SInv, WalkBegin
  PROVE  SignalInv'
<1> DEFINE g == [Top EXCEPT !.pc = "walk", !.idx = 1]
<1>w. /\ Len(stack) \in Nat /\ Len(stack) > 0
      /\ DOMAIN signalList = 1 .. Len(signalList) /\ Len(signalList) \in Nat
  BY WalkFacts
<1>1. /\ Top.pc = "group" /\ stack' = Replace(g)
      /\ UNCHANGED <<queue, signalList, life, signalCount, late>>
  BY DEF WalkBegin, AtCode
<1>2. g.pc = "walk" /\ g.idx = 1 /\ g.ev = Top.ev
  BY WalkFacts DEF Frame
<1> HIDE DEF g
<1>3. /\ Len(stack') = Len(stack)
      /\ \A i \in 1 .. Len(stack) : stack'[i] = IF i = Len(stack) THEN g ELSE stack[i]
  BY <1>1, WalkFacts, ReplaceAny
<1>4. Len(stack) \in 1 .. Len(stack) /\ DOMAIN stack' = 1 .. Len(stack)
  BY <1>3, WalkFacts, LenProperties DEF IInv, StackDiscipline, WellNested
<1>5. Top' = g
  BY <1>3, <1>4 DEF Top
<1>6. WalkedQueued'
  <2>1. \A k \in DOMAIN signalList : ~(k < 1)
    BY <1>w
  <2> QED
    BY <1>1, <1>2, <1>5, <2>1 DEF WalkedQueued
<1>7. ASSUME NEW e \in Event, life'[e] = "live", IsSignal(e), signalCount'[e] # 0,
             ~InQueue(queue', e)
      PROVE  \E i \in DOMAIN stack' :
               /\ stack'[i].ev = e
               /\ \/ stack'[i].pc = "group"
                  \/ /\ stack'[i].pc = "walk"
                     /\ \E k \in DOMAIN signalList' : k >= stack'[i].idx /\ signalList'[k] = e
  <2>1. \/ \E i \in 1 .. Len(stack) :
             i # Len(stack) /\ stack[i].ev = e /\ stack[i].pc = "group"
        \/ Top.ev = e
    BY <1>1, <1>7, WhereSignalled
  <2>2. CASE \E i \in 1 .. Len(stack) :
               i # Len(stack) /\ stack[i].ev = e /\ stack[i].pc = "group"
    BY <2>2, <1>3, <1>4
  <2>3. CASE Top.ev = e
    <3>1. PICK k \in DOMAIN signalList : signalList[k] = e
      BY <1>1, <1>7 DEF SInv, EventInv, ListExact
    <3>2. k >= 1
      BY <1>w
    <3> QED
      BY <1>1, <1>2, <1>3, <1>4, <2>3, <3>1, <3>2
  <2> QED
    BY <2>1, <2>2, <2>3
<1>8. SignalNotLost'
  BY <1>7, QueuedIs DEF SignalNotLost
<1> QED
  BY <1>6, <1>8 DEF SignalInv

LEMMA WalkStepSignals ==
  ASSUME IInv, IInv', SInv, WalkStep
  PROVE  SignalInv'
<1> DEFINE g == [Top EXCEPT !.idx = Top.idx + 1]
           m == signalList[Top.idx]
<1>w. /\ Len(stack) \in Nat /\ Len(stack) > 0
      /\ DOMAIN signalList = 1 .. Len(signalList) /\ Len(signalList) \in Nat
  BY WalkFacts
<1>1. /\ Top.pc = "walk" /\ stack' = Replace(g) /\ Top.idx \in DOMAIN signalList
      /\ UNCHANGED <<signalList, life, signalCount>>
      /\ EventGroup(m) = EventGroup(Top.ev) => NotifyEvent(m)
      /\ NotifyEvent(m) \/ UNCHANGED <<queue, pending, late>>
  BY DEF WalkStep, AtCode
<1>2. /\ g.pc = "walk" /\ g.idx = Top.idx + 1 /\ g.ev = Top.ev
  BY <1>1, WalkFacts DEF Frame
<1>3. m \in Event
  BY <1>1, WalkFacts
<1> HIDE DEF g
<1>4. /\ Len(stack') = Len(stack)
      /\ \A i \in 1 .. Len(stack) : stack'[i] = IF i = Len(stack) THEN g ELSE stack[i]
  BY <1>1, WalkFacts, ReplaceAny
<1>5. Len(stack) \in 1 .. Len(stack) /\ DOMAIN stack' = 1 .. Len(stack)
  BY <1>4, WalkFacts, LenProperties DEF IInv, StackDiscipline, WellNested
<1>6. Top' = g
  BY <1>4, <1>5 DEF Top
<1>7. /\ \A d \in Event : InQueue(queue, d) => InQueue(queue', d)
      /\ EventGroup(m) = EventGroup(Top.ev) => InQueue(queue', m)
  BY <1>1, <1>3, NotifyKeeps, NotifyQueued DEF IInv
<1>8. WalkedQueued'
  <2> SUFFICES ASSUME NEW k \in DOMAIN signalList, k < Top.idx + 1,
                      EventGroup(signalList[k]) = EventGroup(Top.ev)
               PROVE  InQueue(queue', signalList[k])
    BY <1>1, <1>2, <1>6 DEF WalkedQueued
  <2>1. CASE k = Top.idx
    BY <2>1, <1>7
  <2>2. CASE k # Top.idx
    <3>1. k < Top.idx
      BY <2>2, <1>1, <1>w
    <3>2. InQueue(queue, signalList[k])
      BY <3>1, <1>1 DEF SInv, SignalInv, WalkedQueued
    <3> QED
      BY <3>2, <1>7, WalkFacts
  <2> QED
    BY <2>1, <2>2
<1>9. ASSUME NEW e \in Event, life'[e] = "live", IsSignal(e), signalCount'[e] # 0,
             ~InQueue(queue', e)
      PROVE  \E i \in DOMAIN stack' :
               /\ stack'[i].ev = e
               /\ \/ stack'[i].pc = "group"
                  \/ /\ stack'[i].pc = "walk"
                     /\ \E k \in DOMAIN signalList' : k >= stack'[i].idx /\ signalList'[k] = e
  <2>1. ~InQueue(queue, e)
    BY <1>7, <1>9
  <2>2. \/ \E i \in 1 .. Len(stack) :
             i # Len(stack) /\ stack[i].ev = e /\ stack[i].pc = "group"
        \/ /\ Top.ev = e
           /\ \E k \in DOMAIN signalList : k >= Top.idx /\ signalList[k] = e
    BY <1>1, <1>9, <2>1, WhereSignalled
  <2>3. CASE \E i \in 1 .. Len(stack) :
               i # Len(stack) /\ stack[i].ev = e /\ stack[i].pc = "group"
    BY <2>3, <1>4, <1>5
  <2>4. ASSUME Top.ev = e, NEW k \in DOMAIN signalList, k >= Top.idx, signalList[k] = e
        PROVE  \E i \in DOMAIN stack' :
                 /\ stack'[i].ev = e
                 /\ stack'[i].pc = "walk"
                 /\ \E l \in DOMAIN signalList' : l >= stack'[i].idx /\ signalList'[l] = e
    <3>1. k # Top.idx
      BY <2>4, <1>7, <1>9
    <3>2. k >= Top.idx + 1
      BY <2>4, <3>1, <1>1, <1>w
    <3> QED
      BY <2>4, <3>2, <1>1, <1>2, <1>4, <1>5
  <2> QED
    BY <2>2, <2>3, <2>4
<1>10. SignalNotLost'
  BY <1>9, QueuedIs DEF SignalNotLost
<1> QED
  BY <1>8, <1>10 DEF SignalInv

LEMMA WalkEndSignals ==
  ASSUME IInv, IInv', SInv, WalkEnd
  PROVE  SignalInv'
<1> DEFINE g == [Top EXCEPT !.pc = "walked", !.idx = 0, !.await = Queued(Top.ev)]
<1>w. /\ Len(stack) \in Nat /\ Len(stack) > 0
      /\ DOMAIN signalList = 1 .. Len(signalList) /\ Len(signalList) \in Nat
  BY WalkFacts
<1>1. /\ IsCode(Top) /\ Top.pc = "walk" /\ Top.idx \notin DOMAIN signalList
      /\ ReleaseEventLock(g, Top.tpl) /\ UNCHANGED <<queue, signalList, life, signalCount, late>>
  BY DEF WalkEnd, AtCode
<1>2. g.pc = "walked" /\ Top.idx \in Nat /\ StackInv
  BY WalkFacts DEF Frame, SInv
<1> HIDE DEF g
<1>3. Becomes(g)
  BY <1>1, <1>2, EventRelease DEF Becomes
<1>4. /\ Len(stack') \in {Len(stack), Len(stack) + 1}
      /\ \A i \in 1 .. Len(stack) : stack'[i] = IF i = Len(stack) THEN g ELSE stack[i]
      /\ Top'.pc # "walk"
  BY <1>2, <1>3, WalkFacts, BecomesShape
<1>5. \A i \in 1 .. Len(stack) : i \in DOMAIN stack'
  <2>1. DOMAIN stack' = 1 .. Len(stack')
    BY LenProperties DEF IInv, StackDiscipline, WellNested
  <2>2. Len(stack') \in Int /\ Len(stack) <= Len(stack')
    BY <1>4, <1>w
  <2> QED
    BY <2>1, <2>2, <1>w
<1>6. WalkedQueued'
  BY <1>4 DEF WalkedQueued
<1>7. \A k \in DOMAIN signalList : ~(k >= Top.idx)
  <2>1. Top.idx >= 1
    BY <1>1, <1>2, TopUse DEF FrameUse, IsCode
  <2> QED
    BY <2>1, <1>1, <1>2, <1>w
<1>8. ASSUME NEW e \in Event, life'[e] = "live", IsSignal(e), signalCount'[e] # 0,
             ~InQueue(queue', e)
      PROVE  \E i \in DOMAIN stack' : stack'[i].ev = e /\ stack'[i].pc = "group"
  <2>1. \E i \in 1 .. Len(stack) :
          i # Len(stack) /\ stack[i].ev = e /\ stack[i].pc = "group"
    BY <1>1, <1>7, <1>8, WhereSignalled
  <2> QED
    BY <2>1, <1>4, <1>5
<1>9. SignalNotLost'
  BY <1>8, QueuedIs DEF SignalNotLost
<1> QED
  BY <1>6, <1>9 DEF SignalInv

LEMMA NextSignals ==
  ASSUME IInv, SInv, [Next]_vars
  PROVE  SignalInv'
<1>0. IInv' /\ StackInv /\ SignalInv
  BY NextIInv DEF SInv
<1>1. CASE UNCHANGED vars
  BY <1>0, <1>1 DEF vars, SignalInv, WalkedQueued, SignalNotLost, Queued, Top, InQueue
<1>2. CASE Quiet
  <2>1. Settles /\ UNCHANGED <<queue, life, signalCount>>
    BY <1>0, <1>2, QuietSettles, QuietVars
  <2> QED
    BY <1>0, <2>1, NotLostSteady DEF SignalInv
<1>3. ASSUME NEW e, SignalCall(e)
      PROVE  SignalInv'
  BY <1>0, <1>3, SignalSignals
<1>4. ASSUME NEW expired \in BOOLEAN, Interrupt(expired)
      PROVE  SignalInv'
  BY <1>0, <1>4, InterruptSignals
<1>5. CASE WalkBegin \/ WalkStep \/ WalkEnd \/ TakeEvent
  BY <1>0, <1>5, WalkBeginSignals, WalkStepSignals, WalkEndSignals, TakeEventSignals
<1>6. CASE CheckQueue \/ CheckClear \/ CloseFree \/ CloseUnregister
  BY <1>0, <1>6, CheckSignals, CloseRestSignals
<1>7. ASSUME NEW e \in Event,
             CreateEvent(e) \/ CloseEvent(e) \/ RegisterProtocolNotify(e)
      PROVE  SignalInv'
  BY <1>0, <1>7, CreateEventSignals, CloseEventSignals, RegisterSignals
<1> QED
  BY <1>1, <1>2, <1>3, <1>4, <1>5, <1>6, <1>7 DEF Next, CpuStep, Quiet, SignalCall

-----------------------------------------------------------------------------
(* The theorems                                                             *)

LEMMA InitSInv == Init => SInv
<1> SUFFICES ASSUME Init
             PROVE  SInv
  OBVIOUS
<1> DEFINE a == CodeFrame("app", TPL_APPLICATION, TPL_APPLICATION)
<1>1. stack = <<a>>
  BY DEF Init
<1>2. /\ a.kind = "app" /\ a.pc = "idle" /\ a.ev = None /\ a.await = FALSE /\ a.wait = 0
  BY DEF CodeFrame
<1> HIDE DEF a
<1>3. Len(stack) = 1 /\ stack[1] = a /\ DOMAIN stack = {1}
  BY <1>1
<1>4. \A i \in 1 .. Len(stack) : i = 1
  BY <1>3
<1>5. StackInv
  <2>1. FramesUse
    BY <1>2, <1>3, <1>4 DEF FramesUse, FrameUse
  <2>2. CodeAbove /\ CloseBelow
    BY <1>4 DEF CodeAbove, CloseBelow
  <2>3. AwaitServed
    BY <1>2, <1>3, <1>4 DEF AwaitServed, Awaits
  <2>4. CallsUse
    BY <1>2, <1>3, <1>4 DEF CallsUse, CallUse
  <2> QED
    BY <2>1, <2>2, <2>3, <2>4 DEF StackInv
<1>6. /\ TickEvent \in Event /\ IdleEvent \in Event /\ TickEvent # IdleEvent
      /\ IsSignal(TickEvent) /\ IsSignal(IdleEvent)
  BY CoreEventAssumption DEF IsSignal
<1>7. /\ \A e \in Event : life[e] = IF e \in {TickEvent, IdleEvent} THEN "live" ELSE "none"
      /\ \A e \in Event : signalCount[e] = 0
      /\ protoReg = {} /\ signalList = <<IdleEvent, TickEvent>>
      /\ \A t \in Tpl : queue[t] = << >>
  BY DEF Init
<1>8. ListExact
  <2>1. DOMAIN signalList = {1, 2} /\ signalList[1] = IdleEvent /\ signalList[2] = TickEvent
    BY <1>7
  <2> QED
    BY <2>1, <1>6, <1>7 DEF ListExact
<1>9. EventsUse
  <2>1. \A e \in Event : ~InQueue(queue, e)
    BY <1>7, NotifyTplType DEF InQueue
  <2> QED
    BY <2>1, <1>6, <1>7 DEF EventsUse
<1>10. SignalInv
  <2>1. Top.pc = "idle"
    BY <1>2, <1>3 DEF Top
  <2> QED
    BY <2>1, <1>7 DEF SignalInv, WalkedQueued, SignalNotLost
<1> QED
  BY <1>5, <1>8, <1>9, <1>10 DEF SInv, EventInv

LEMMA NextSInv == IInv /\ SInv /\ [Next]_vars => SInv'
BY NextStack, NextEvents, NextSignals DEF SInv

LEMMA SpecSInv == Spec => []SInv
BY InitSInv, NextSInv, SpecIInv, PTL DEF Spec

(* CoreAcquireProtocolLock never finds the lock held: whatever interrupts a
   section under gProtocolDatabaseLock and calls boot services runs above
   TPL_NOTIFY, the level of the lock.                                       *)
THEOREM ProtocolLockFreeHolds == Spec => []ProtocolLockFree
<1>1. ASSUME IInv, SInv
      PROVE  ProtocolLockFree
  <2>1. DOMAIN stack = 1 .. Len(stack) /\ Len(stack) \in Nat
    BY WalkFacts, <1>1
  <2>2. ASSUME NEW i \in 1 .. Len(stack), NEW j \in 1 .. Len(stack), i < j,
               stack[i].kind = "locked", stack[j].kind = "locked"
        PROVE  FALSE
    <3>1. IsCode(stack[j]) /\ Waits(stack[i]) /\ Level(stack[i]) = stack[i].tpl
      BY <2>2 DEF IsCode, Waits, Level
    <3>2. stack[j].tpl > stack[i].tpl
      BY <1>1, <2>2, <3>1 DEF SInv, StackInv, CodeAbove
    <3>3. stack[i].tpl = TPL_NOTIFY /\ stack[j].tpl = TPL_NOTIFY
      BY <1>1, <2>2 DEF SInv, StackInv, FramesUse, FrameUse
    <3> QED
      BY <3>2, <3>3 DEF TPL_NOTIFY
  <2>3. \A i, j \in 1 .. Len(stack) : i = j \/ i < j \/ j < i
    BY <2>1
  <2> QED
    BY <2>1, <2>2, <2>3 DEF ProtocolLockFree
<1> QED
  BY <1>1, SpecIInv, SpecSInv, PTL

(* No signal is lost: a signalled NOTIFY_SIGNAL event is queued by
   CoreNotifyEvent, or CoreNotifySignalList has yet to reach it, although
   other events are created, closed and signalled while the lock is dropped. *)
THEOREM SignalNotLostHolds == Spec => []SignalNotLost
BY SpecSInv, PTL DEF SInv, SignalInv

(* CoreSignalEvent and CoreCheckEvent do not go on before the notification they
   queued above the caller's level was called, of an event that is being
   closed too.                                                              *)
THEOREM NotifiedOnReturnHolds == Spec => []NotifiedOnReturn
<1>1. ASSUME IInv, SInv
      PROVE  NotifiedOnReturn
  <2>1. ~Awaits(Top) /\ Top.tpl \in Int /\ Top \in Frame /\ FrameOK(Top)
    BY <1>1, TopUse, FrameTypes DEF SInv
  <2> SUFFICES ASSUME IsCode(Top), Top.pc \in {"return", "check"}, Top.await
               PROVE  Top.tpl >= NotifyTpl(Top.ev)
    BY DEF NotifiedOnReturn
  <2>2. Top.ev \in Event /\ Top.kind # "restore"
    BY <2>1 DEF FrameOK, IsCode
  <2>3. NotifyTpl(Top.ev) \in Int
    BY <2>2, NotifyTplType DEF Tpl, TPL_HIGH_LEVEL
  <2>4. ~(Top.tpl < NotifyTpl(Top.ev))
    BY <2>1, <2>2 DEF Awaits
  <2> QED
    BY <2>1, <2>3, <2>4
<1> QED
  BY <1>1, SpecIInv, SpecSInv, PTL

(* CoreDispatchEventNotifies calls the function of an event that is no longer
   live only if CoreCloseEvent ran above the event's level after the event was
   taken, or if the event was queued after CoreCloseEvent had unlinked it.   *)
THEOREM NoCallAfterCloseHolds == Spec => []NoCallAfterClose
<1>1. ASSUME IInv, SInv
      PROVE  NoCallAfterClose
  <2>0. Len(stack) \in Nat /\ Len(stack) > 0 /\ stack[Len(stack)] = Top
    BY <1>1, WalkFacts
  <2>1. Len(stack) \in 1 .. Len(stack)
    BY <2>0
  <2>2. CallUse(Top, life, closedTpl, late)
    BY <1>1, <2>0, <2>1 DEF SInv, StackInv, CallsUse
  <2> QED
    BY <2>2 DEF CallUse, NoCallAfterClose, AtRestore
<1> QED
  BY <1>1, SpecIInv, SpecSInv, PTL

=============================================================================
