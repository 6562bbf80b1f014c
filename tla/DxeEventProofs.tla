--------------------------- MODULE DxeEventProofs ---------------------------
(***************************************************************************)
(* Theorems about DxeEvent: for every set of events and every argument they *)
(* are created with, and for any nesting of interrupts and RaiseTPL         *)
(* regions, the queues agree with gEventPending, every activation returns   *)
(* to the level its caller relies on, and no notification function is       *)
(* re-entered.                                                              *)
(***************************************************************************)
EXTENDS DxeEvent, ListLemmas

-----------------------------------------------------------------------------
(* Sequences                                                                *)

(* A list without duplicates, without the link of e: no new element, no e, no
   duplicate.                                                               *)
LEMMA UnlinkPoint ==
  ASSUME NEW s \in Seq(Event), NEW e
  PROVE  /\ Unlink(s, e) \in Seq(Event)
         /\ \A i \in DOMAIN Unlink(s, e) : \E k \in DOMAIN s : Unlink(s, e)[i] = s[k]
         /\ (\A i, j \in DOMAIN s : s[i] = s[j] => i = j) =>
              /\ \A i \in DOMAIN Unlink(s, e) : Unlink(s, e)[i] # e
              /\ \A i, j \in DOMAIN Unlink(s, e) :
                   Unlink(s, e)[i] = Unlink(s, e)[j] => i = j
<1>1. CASE \E i \in DOMAIN s : s[i] = e
  <2> DEFINE k == CHOOSE i \in DOMAIN s : s[i] = e
  <2>1. k \in DOMAIN s /\ s[k] = e
    BY <1>1
  <2> HIDE DEF k
  <2>2. Unlink(s, e) = RemoveAt(s, k)
    BY <1>1 DEF Unlink, k
  <2>3. k \in 1 .. Len(s)
    BY <2>1, LenProperties
  <2>4. /\ RemoveAt(s, k) \in Seq(Event)
        /\ Len(RemoveAt(s, k)) = Len(s) - 1
        /\ DOMAIN RemoveAt(s, k) = 1 .. Len(s) - 1
        /\ \A i \in 1 .. Len(s) - 1 :
             RemoveAt(s, k)[i] = IF i < k THEN s[i] ELSE s[i + 1]
    BY <2>3, RemoveAtPoint, LenProperties
  <2>5. DOMAIN s = 1 .. Len(s) /\ Len(s) \in Nat
    BY LenProperties
  <2> DEFINE u == RemoveAt(s, k)
  <2>6. \A i \in DOMAIN u : /\ i \in Nat
                            /\ i < k => i \in DOMAIN s /\ u[i] = s[i]
                            /\ ~(i < k) => i + 1 \in DOMAIN s /\ u[i] = s[i + 1]
    BY <2>3, <2>4, <2>5
  <2>7. k \in Nat
    BY <2>3, <2>5
  <2> HIDE DEF u
  <2>8. \A i \in DOMAIN u : \E j \in DOMAIN s : u[i] = s[j]
    BY <2>6
  <2>9. ASSUME \A i, j \in DOMAIN s : s[i] = s[j] => i = j
        PROVE  /\ \A i \in DOMAIN u : u[i] # e
               /\ \A i, j \in DOMAIN u : u[i] = u[j] => i = j
    BY <2>1, <2>6, <2>7, <2>9
  <2> QED
    BY <2>2, <2>4, <2>8, <2>9 DEF u
<1>2. CASE ~\E i \in DOMAIN s : s[i] = e
  BY <1>2 DEF Unlink
<1> QED
  BY <1>1, <1>2

-----------------------------------------------------------------------------
(* The stack of activations                                                 *)

LEMMA FrameTypes ==
  ASSUME NEW f \in Frame
  PROVE  /\ f.tpl \in Tpl /\ f.local \in Tpl
         /\ f.tpl \in Int /\ f.local \in Int
         /\ f.pc \in CodePc \cup RestorePc
         /\ f.ev \in Event \cup {None}
         /\ f.idx \in Nat /\ f.wait \in 0 .. Len(WaitList) /\ f.await \in BOOLEAN
<1>1. f.tpl \in Tpl /\ f.local \in Tpl
  BY DEF Frame
<1>2. /\ f.pc \in CodePc \cup RestorePc
      /\ f.ev \in Event \cup {None}
      /\ f.idx \in Nat /\ f.wait \in 0 .. Len(WaitList) /\ f.await \in BOOLEAN
  BY DEF Frame
<1>3. Tpl \subseteq Int
  BY DEF Tpl, TPL_HIGH_LEVEL
<1> QED
  BY ONLY <1>1, <1>2, <1>3

(* Replacing the top frame by one that returns to the same level.           *)
LEMMA ReplaceNested ==
  ASSUME NEW s, WellNested(s), NEW g \in Frame, FrameOK(g),
         g.kind = s[Len(s)].kind, g.tpl = s[Len(s)].tpl,
         ReturnTpl(g) = ReturnTpl(s[Len(s)])
  PROVE  /\ WellNested([s EXCEPT ![Len(s)] = g])
         /\ Len([s EXCEPT ![Len(s)] = g]) = Len(s)
         /\ [s EXCEPT ![Len(s)] = g][Len(s)] = g
<1> DEFINE n == Len(s)
           t == [s EXCEPT ![n] = g]
<1>1. s \in Seq(Frame) /\ n \in Nat /\ n > 0 /\ DOMAIN s = 1 .. n
  BY LenProperties DEF WellNested
<1>2. /\ t \in Seq(Frame) /\ Len(t) = n
      /\ \A j \in 1 .. n : t[j] = IF j = n THEN g ELSE s[j]
  BY <1>1, ExceptSeq
<1>w. /\ s[1].kind = "app"
      /\ \A i \in 1 .. n - 1 : Pushed(s[i], s[i + 1])
      /\ g.kind = s[n].kind /\ g.tpl = s[n].tpl /\ ReturnTpl(g) = ReturnTpl(s[n])
  BY DEF WellNested
<1> HIDE DEF n, t
<1>3. t[1].kind = "app"
  <2>1. 1 \in 1 .. n
    BY <1>1
  <2> QED
    BY ONLY <2>1, <1>2, <1>w
<1>4. \A i \in 1 .. n : FrameOK(t[i])
  BY <1>1, <1>2 DEF WellNested, n
<1>5. \A i \in 1 .. n - 1 : Pushed(t[i], t[i + 1])
  <2> SUFFICES ASSUME NEW i \in 1 .. n - 1
               PROVE  Pushed(t[i], t[i + 1])
    OBVIOUS
  <2>0. i \in 1 .. n /\ i # n /\ i + 1 \in 1 .. n
    BY <1>1
  <2>1. Pushed(s[i], s[i + 1]) /\ t[i] = s[i]
    BY ONLY <2>0, <1>2, <1>w, i \in 1 .. n - 1
  <2>2. CASE i + 1 = n
    BY ONLY <2>0, <2>1, <2>2, <1>2, <1>w DEF Pushed
  <2>3. CASE i + 1 # n
    BY ONLY <2>0, <2>1, <2>3, <1>2
  <2> QED
    BY <2>2, <2>3
<1>6. \A i, j \in 1 .. n : i < j => t[i].tpl <= t[j].tpl
  BY <1>1, <1>2 DEF WellNested, n
<1>7. t[n] = g
  BY <1>1, <1>2
<1> QED
  BY <1>1, <1>2, <1>3, <1>4, <1>5, <1>6, <1>7 DEF WellNested, n, t

(* Pushing a frame.                                                         *)
LEMMA PushNested ==
  ASSUME NEW s, WellNested(s), NEW g \in Frame, FrameOK(g),
         Pushed(s[Len(s)], g), s[Len(s)].tpl <= g.tpl
  PROVE  /\ WellNested(Append(s, g))
         /\ Len(Append(s, g)) = Len(s) + 1
         /\ Append(s, g)[Len(s) + 1] = g
<1> DEFINE n == Len(s)
           t == Append(s, g)
<1>1. s \in Seq(Frame) /\ n \in Nat /\ n > 0 /\ DOMAIN s = 1 .. n
  BY LenProperties DEF WellNested
<1>2. /\ t \in Seq(Frame) /\ Len(t) = n + 1
      /\ \A j \in 1 .. n : t[j] = s[j]
      /\ t[n + 1] = g
  BY <1>1, AppendProperties
<1>3. \A i \in 1 .. n : s[i] \in Frame /\ s[i].tpl \in Int
  BY <1>1, ElementOfSeq, FrameTypes
<1> HIDE DEF n, t
<1>4. t[1].kind = "app"
  BY <1>1, <1>2 DEF WellNested, n
<1>5. \A i \in 1 .. n + 1 : FrameOK(t[i])
  BY <1>1, <1>2 DEF WellNested, n
<1>6. \A i \in 1 .. n : Pushed(t[i], t[i + 1])
  <2> SUFFICES ASSUME NEW i \in 1 .. n
               PROVE  Pushed(t[i], t[i + 1])
    OBVIOUS
  <2>1. CASE i = n
    BY <2>1, <1>1, <1>2 DEF n
  <2>2. CASE i # n
    <3>1. i \in 1 .. n - 1 /\ i + 1 \in 1 .. n
      BY <2>2, <1>1
    <3>2. Pushed(s[i], s[i + 1])
      BY <3>1 DEF WellNested, n
    <3> QED
      BY <3>1, <3>2, <1>2
  <2> QED
    BY <2>1, <2>2
<1>7. \A i \in 1 .. n : s[i].tpl <= g.tpl
  <2> SUFFICES ASSUME NEW i \in 1 .. n
               PROVE  s[i].tpl <= g.tpl
    OBVIOUS
  <2>1. i < n => s[i].tpl <= s[n].tpl
    BY <1>1 DEF WellNested, n
  <2>2. g.tpl \in Int /\ s[n].tpl \in Int /\ s[n].tpl <= g.tpl /\ s[i].tpl \in Int
    BY <1>1, <1>3, FrameTypes DEF n
  <2> QED
    BY <1>1, <2>1, <2>2
<1>8. \A i, j \in 1 .. n + 1 : i < j => t[i].tpl <= t[j].tpl
  BY <1>1, <1>2, <1>7 DEF WellNested, n
<1> QED
  BY <1>1, <1>2, <1>4, <1>5, <1>6, <1>8 DEF WellNested, n, t

(* Returning from the top frame: the level it leaves suits the frame below. *)
LEMMA PopNested ==
  ASSUME NEW s, WellNested(s), s[Len(s)].kind # "app"
  PROVE  LET t == SubSeq(s, 1, Len(s) - 1)
         IN  /\ WellNested(t)
             /\ Len(t) = Len(s) - 1
             /\ Pushed(t[Len(t)], s[Len(s)])
<1> DEFINE n == Len(s)
           t == SubSeq(s, 1, n - 1)
<1>1. s \in Seq(Frame) /\ n \in Nat /\ n > 1 /\ DOMAIN s = 1 .. n
  <2>1. s \in Seq(Frame) /\ n > 0 /\ n # 1
    BY DEF WellNested
  <2>2. n \in Nat /\ DOMAIN s = 1 .. n
    BY <2>1, LenProperties
  <2> QED
    BY <2>1, <2>2
<1>2. /\ t \in Seq(Frame) /\ Len(t) = n - 1
      /\ \A j \in 1 .. n - 1 : t[j] = s[j]
  <2>1. \A i \in 1 .. n - 1 : s[i] \in Frame
    BY <1>1, ElementOfSeq
  <2>2. /\ SubSeq(s, 1, n - 1) \in Seq(Frame)
        /\ Len(SubSeq(s, 1, n - 1)) = IF 1 <= n - 1 THEN (n - 1) - 1 + 1 ELSE 0
        /\ \A i \in 1 .. (n - 1) - 1 + 1 : SubSeq(s, 1, n - 1)[i] = s[1 + i - 1]
    BY <2>1, <1>1, SubSeqProperties
  <2> QED
    BY <2>2, <1>1
<1> HIDE DEF n, t
<1>3. t[1].kind = "app" /\ Len(t) > 0
  BY <1>1, <1>2 DEF WellNested, n
<1>4. \A i \in 1 .. n - 1 : FrameOK(t[i])
  BY <1>1, <1>2 DEF WellNested, n
<1>5. \A i \in 1 .. n - 1 - 1 : Pushed(t[i], t[i + 1])
  <2> SUFFICES ASSUME NEW i \in 1 .. n - 1 - 1
               PROVE  Pushed(t[i], t[i + 1])
    OBVIOUS
  <2> QED
    BY <1>1, <1>2 DEF WellNested, n
<1>6. \A i, j \in 1 .. n - 1 : i < j => t[i].tpl <= t[j].tpl
  BY <1>1, <1>2 DEF WellNested, n
<1>7. Pushed(t[n - 1], s[n])
  <2>1. n - 1 \in 1 .. n - 1 /\ (n - 1) + 1 = n
    BY <1>1
  <2>2. Pushed(s[n - 1], s[(n - 1) + 1])
    BY <2>1 DEF WellNested, n
  <2> QED
    BY <2>1, <2>2, <1>2
<1> QED
  BY <1>1, <1>2, <1>3, <1>4, <1>5, <1>6, <1>7 DEF WellNested, n, t

-----------------------------------------------------------------------------
(* The inductive invariant                                                  *)
IInv == TypeOK /\ QueuedPending /\ StackDiscipline /\ LevelRestored

(* LevelRestored of a top frame f.                                          *)
LevelOf(f, t, enabled) == IF f.pc = "walk" THEN t = TPL_HIGH_LEVEL /\ ~enabled
                                           ELSE Suits(f, t)

LEMMA TopFacts ==
  ASSUME StackDiscipline
  PROVE  /\ Len(stack) \in Nat /\ Len(stack) > 0 /\ stack \in Seq(Frame)
         /\ Top \in Frame /\ FrameOK(Top)
<1>1. stack \in Seq(Frame) /\ Len(stack) > 0 /\ \A i \in 1 .. Len(stack) : FrameOK(stack[i])
  BY DEF StackDiscipline, WellNested
<1>2. Len(stack) \in Nat
  BY <1>1, LenProperties
<1>3. Len(stack) \in 1 .. Len(stack)
  BY <1>1, <1>2
<1>4. stack[Len(stack)] \in Frame
  BY <1>1, <1>3, ElementOfSeq
<1> QED
  BY <1>1, <1>2, <1>3, <1>4 DEF Top

(* A step that changes the top frame only.                                  *)
LEMMA StepReplace ==
  ASSUME StackDiscipline, NEW g \in Frame, FrameOK(g),
         g.kind = Top.kind, g.tpl = Top.tpl, ReturnTpl(g) = ReturnTpl(Top),
         stack' = Replace(g), LevelOf(g, currentTpl', intr')
  PROVE  StackDiscipline' /\ LevelRestored'
<1>1. /\ WellNested(stack')
      /\ Len(stack') = Len(stack)
      /\ stack'[Len(stack)] = g
  BY ReplaceNested DEF StackDiscipline, Top, Replace
<1>2. Top' = g
  BY <1>1 DEF Top
<1>3. LevelRestored'
  BY <1>2 DEF LevelRestored, LevelOf
<1> QED
  BY <1>1, <1>3 DEF StackDiscipline

(* A step that pushes a frame on the stack.                                 *)
LEMMA StepPush ==
  ASSUME StackDiscipline, NEW g \in Frame, FrameOK(g),
         Pushed(Top, g), Top.tpl <= g.tpl,
         stack' = Append(stack, g), LevelOf(g, currentTpl', intr')
  PROVE  StackDiscipline' /\ LevelRestored'
<1>1. /\ WellNested(stack')
      /\ Len(stack') = Len(stack) + 1
      /\ stack'[Len(stack) + 1] = g
  BY PushNested DEF StackDiscipline, Top
<1>2. Top' = g
  BY <1>1 DEF Top
<1>3. LevelRestored'
  BY <1>2 DEF LevelRestored, LevelOf
<1> QED
  BY <1>1, <1>3 DEF StackDiscipline

LEMMA RestoreFrameOK ==
  ASSUME NEW new \in Tpl
  PROVE  /\ RestoreFrame(new) \in Frame /\ FrameOK(RestoreFrame(new))
         /\ RestoreFrame(new).kind = "restore" /\ RestoreFrame(new).tpl = new
         /\ RestoreFrame(new).pc = "test" /\ ReturnTpl(RestoreFrame(new)) = new
         /\ \A t : Suits(RestoreFrame(new), t) <=> t >= new
<1>1. RestoreFrame(new) \in Frame
  BY LenProperties, EventAssumption DEF RestoreFrame, Frame, RestorePc
<1>2. FrameOK(RestoreFrame(new))
  BY DEF RestoreFrame, FrameOK, RestorePc
<1> QED
  BY <1>1, <1>2 DEF RestoreFrame, ReturnTpl, Suits

(* The end of a section under a lock: the frame continues as g after the
   activation of CoreRestoreTpl now on top of it.                           *)
LEMMA StepRelease ==
  ASSUME StackDiscipline, NEW g \in Frame, FrameOK(g),
         g.kind = Top.kind, g.tpl = Top.tpl, ReturnTpl(g) = ReturnTpl(Top),
         g.pc # "walk", NEW new \in Tpl, Suits(g, new), g.tpl <= new,
         NEW at \in Tpl, new <= at,
         Release(g, new, at), intr \in BOOLEAN
  PROVE  /\ StackDiscipline' /\ LevelRestored'
         /\ currentTpl' \in Tpl /\ intr' \in BOOLEAN
<1> DEFINE s == Replace(g)
           r == RestoreFrame(new)
<1>1. /\ WellNested(s)
      /\ Len(s) = Len(stack)
      /\ s[Len(s)] = g
  BY ReplaceNested DEF StackDiscipline, Top, Replace
<1>2. /\ r \in Frame /\ FrameOK(r) /\ r.kind = "restore" /\ r.tpl = new
      /\ r.pc = "test" /\ ReturnTpl(r) = new /\ Suits(r, at)
  BY RestoreFrameOK
<1> HIDE DEF s, r
<1>3. Pushed(g, r)
  BY <1>2 DEF Pushed
<1>4. /\ WellNested(Append(s, r))
      /\ Len(Append(s, r)) = Len(s) + 1
      /\ Append(s, r)[Len(s) + 1] = r
  BY <1>1, <1>2, <1>3, PushNested
<1>5. stack' = Append(s, r) /\ currentTpl' = at /\ intr' \in BOOLEAN
  BY DEF Release, s, r
<1>6. Top' = r
  BY <1>4, <1>5 DEF Top
<1>7. LevelRestored'
  BY <1>2, <1>5, <1>6 DEF LevelRestored
<1> QED
  BY <1>4, <1>5, <1>7 DEF StackDiscipline

(* A step that returns from the top frame.                                  *)
LEMMA StepPop ==
  ASSUME StackDiscipline, Top.kind # "app",
         stack' = Pop, currentTpl' = ReturnTpl(Top)
  PROVE  StackDiscipline' /\ LevelRestored'
<1>1. /\ WellNested(stack')
      /\ Pushed(stack'[Len(stack')], stack[Len(stack)])
  BY PopNested DEF StackDiscipline, Top, Pop
<1>2. Pushed(Top', Top)
  BY <1>1 DEF Top
<1>3. Top'.pc # "walk" /\ Suits(Top', currentTpl')
  BY <1>2 DEF Pushed
<1>4. LevelRestored'
  BY <1>3 DEF LevelRestored, Suits
<1> QED
  BY <1>1, <1>4 DEF StackDiscipline

-----------------------------------------------------------------------------
(* The queues                                                               *)

LEMMA NotifyTplType ==
  ASSUME NEW e \in Event
  PROVE  NotifyTpl(e) \in Tpl
BY EventAssumption DEF NotifyTpl, EventArgs, Tpl, TPL_HIGH_LEVEL

(* Appending e to a list without duplicates from which it was unlinked.     *)
LEMMA RequeuePoint ==
  ASSUME NEW s \in Seq(Event), NEW e \in Event,
         \A i, j \in DOMAIN s : s[i] = s[j] => i = j
  PROVE  LET u == Append(Unlink(s, e), e)
         IN  /\ u \in Seq(Event)
             /\ \A i \in DOMAIN u : u[i] = e \/ \E k \in DOMAIN s : u[i] = s[k]
             /\ \A i, j \in DOMAIN u : u[i] = u[j] => i = j
<1> DEFINE v == Unlink(s, e)
           u == Append(v, e)
<1>1. /\ v \in Seq(Event)
      /\ \A i \in DOMAIN v : \E k \in DOMAIN s : v[i] = s[k]
      /\ \A i \in DOMAIN v : v[i] # e
      /\ \A i, j \in DOMAIN v : v[i] = v[j] => i = j
  BY UnlinkPoint
<1> HIDE DEF v
<1>2. /\ u \in Seq(Event) /\ Len(u) = Len(v) + 1
      /\ \A i \in 1 .. Len(v) : u[i] = v[i]
      /\ u[Len(v) + 1] = e
  BY <1>1, AppendProperties
<1>3. DOMAIN v = 1 .. Len(v) /\ Len(v) \in Nat
  BY <1>1, LenProperties
<1>4. DOMAIN u = 1 .. Len(v) + 1
  BY <1>2, LenProperties
<1> HIDE DEF u
<1>5. \A i \in DOMAIN u : (i \in DOMAIN v /\ u[i] = v[i]) \/ (i = Len(v) + 1 /\ u[i] = e)
  BY <1>2, <1>3, <1>4
<1>6. \A i \in DOMAIN u : u[i] = e \/ \E k \in DOMAIN s : u[i] = s[k]
  BY <1>1, <1>5
<1>7. \A i, j \in DOMAIN u : u[i] = u[j] => i = j
  BY <1>1, <1>5
<1> QED
  BY <1>2, <1>6, <1>7 DEF u, v

(* The part of QueuedPending about one level.                               *)
LevelQueued(q, t, p) ==
  /\ \A i \in DOMAIN q : NotifyTpl(q[i]) = t /\ t \in p
  /\ \A i, j \in DOMAIN q : q[i] = q[j] => i = j

LEMMA QueuedByLevel == QueuedPending <=> \A t \in Tpl : LevelQueued(queue[t], t, pending)
BY DEF QueuedPending, LevelQueued

LEMMA QueuedByLevelNext ==
  QueuedPending' <=> \A t \in Tpl : LevelQueued(queue'[t], t, pending')
BY DEF QueuedPending, LevelQueued

(* CoreNotifyEvent keeps the queues in agreement with gEventPending.        *)
LEMMA NotifyKeepsQueues ==
  ASSUME TypeOK, QueuedPending, NEW e \in Event, NotifyEvent(e)
  PROVE  /\ queue' \in [Tpl -> Seq(Event)] /\ pending' \subseteq Tpl
         /\ late' \subseteq Event
         /\ QueuedPending'
<1> DEFINE n == NotifyTpl(e)
           u == Append(Unlink(queue[n], e), e)
<1>1. n \in Tpl /\ queue[n] \in Seq(Event)
  BY NotifyTplType DEF TypeOK
<1>2. LevelQueued(queue[n], n, pending)
  BY <1>1, QueuedByLevel
<1>3. /\ u \in Seq(Event)
      /\ \A i \in DOMAIN u : u[i] = e \/ \E k \in DOMAIN queue[n] : u[i] = queue[n][k]
      /\ \A i, j \in DOMAIN u : u[i] = u[j] => i = j
  BY <1>1, <1>2, RequeuePoint DEF LevelQueued
<1>4. queue' = [queue EXCEPT ![n] = u] /\ pending' = pending \cup {n}
  BY DEF NotifyEvent
<1> HIDE DEF u
<1>5. queue' \in [Tpl -> Seq(Event)] /\ pending' \subseteq Tpl
  BY <1>1, <1>3, <1>4 DEF TypeOK
<1>6. LevelQueued(u, n, pending')
  BY <1>2, <1>3, <1>4 DEF LevelQueued
<1>7. \A t \in Tpl : t # n => queue'[t] = queue[t]
  BY <1>4 DEF TypeOK
<1>8. queue'[n] = u
  BY <1>1, <1>4 DEF TypeOK
<1>9. \A t \in Tpl : LevelQueued(queue'[t], t, pending')
  <2> SUFFICES ASSUME NEW t \in Tpl, t # n
               PROVE  LevelQueued(queue'[t], t, pending')
    BY <1>6, <1>8
  <2>1. LevelQueued(queue[t], t, pending)
    BY QueuedByLevel
  <2> QED
    BY <2>1, <1>4, <1>7 DEF LevelQueued
<1>10. late' \subseteq Event
  BY DEF NotifyEvent, TypeOK
<1> QED
  BY <1>5, <1>9, <1>10, QueuedByLevelNext

-----------------------------------------------------------------------------
(* Steps that change nothing but the stack, the level and the interrupt flag *)

StoredVars == <<pending, queue, signalList, life, signalCount, protoReg, closedTpl,
               late>>

LEMMA StackOnly ==
  ASSUME IInv, UNCHANGED StoredVars, StackDiscipline', LevelRestored',
         currentTpl' \in Tpl, intr' \in BOOLEAN
  PROVE  IInv'
<1>1. TypeOK'
  <2>1. stack' \in Seq(Frame) /\ Len(stack') > 0
    BY DEF StackDiscipline, WellNested
  <2>2. stack' # << >>
    BY <2>1, EmptySeq
  <2> QED
    BY <2>1, <2>2 DEF IInv, TypeOK, StoredVars
<1>2. QueuedPending'
  BY DEF IInv, QueuedPending, StoredVars
<1> QED
  BY <1>1, <1>2 DEF IInv

LEMMA CodeFrameOK ==
  ASSUME NEW kind \in {"raised", "locked", "notify", "isr"}, NEW t \in Tpl,
         NEW old \in Tpl, old <= t
  PROVE  LET g == CodeFrame(kind, t, old)
         IN  /\ g \in Frame /\ FrameOK(g)
             /\ g.kind = kind /\ g.tpl = t /\ g.local = old /\ g.pc = "idle"
<1>1. CodeFrame(kind, t, old) \in Frame
  BY LenProperties, EventAssumption DEF CodeFrame, Frame, CodePc
<1>2. FrameOK(CodeFrame(kind, t, old))
  BY DEF CodeFrame, FrameOK, RestorePc
<1> QED
  BY <1>1, <1>2 DEF CodeFrame

LEMMA RaiseTplStep ==
  ASSUME IInv, NEW new \in RaiseLevels, RaiseTpl(new)
  PROVE  IInv'
<1> DEFINE g == CodeFrame("raised", new, currentTpl)
<1>1. new \in Tpl /\ currentTpl \in Tpl /\ currentTpl <= new
  BY EventAssumption DEF RaiseTpl, IInv, TypeOK, Tpl, TPL_APPLICATION, TPL_HIGH_LEVEL
<1>2. /\ g \in Frame /\ FrameOK(g)
      /\ g.kind = "raised" /\ g.tpl = new /\ g.local = currentTpl /\ g.pc = "idle"
  BY <1>1, CodeFrameOK
<1> HIDE DEF g
<1>3. Top.kind \in {"app", "raised", "notify"} /\ Top.pc = "idle" /\ currentTpl = Top.tpl
  BY DEF RaiseTpl, Running, IInv, LevelRestored, Suits
<1>4. Pushed(Top, g)
  BY <1>2, <1>3 DEF Pushed, Suits, ReturnTpl
<1>5. stack' = Append(stack, g) /\ currentTpl' = new /\ intr' \in BOOLEAN /\ UNCHANGED StoredVars
  BY DEF RaiseTpl, g, StoredVars
<1>6. LevelOf(g, currentTpl', intr')
  BY <1>2, <1>5 DEF LevelOf, Suits
<1>7. StackDiscipline' /\ LevelRestored'
  BY <1>1, <1>2, <1>3, <1>4, <1>5, <1>6, StepPush DEF IInv
<1> QED
  BY <1>1, <1>5, <1>7, StackOnly

LEMMA RestoreTplStep ==
  ASSUME IInv, RestoreTpl
  PROVE  IInv'
<1> DEFINE n == Len(stack)
           r == RestoreFrame(Top.local)
           s == Pop
<1>1. /\ n \in Nat /\ n > 0 /\ stack \in Seq(Frame) /\ Top \in Frame /\ FrameOK(Top)
      /\ Top.kind \in {"raised", "locked"} /\ Top.pc = "idle"
  BY TopFacts DEF IInv, RestoreTpl
<1>2. /\ WellNested(s) /\ Len(s) = n - 1 /\ Pushed(s[Len(s)], Top)
  BY <1>1, PopNested DEF IInv, StackDiscipline, Top, Pop
<1>3. Top.local \in Tpl /\ Top.local \in Int /\ Top.tpl \in Tpl /\ Top.local <= Top.tpl
  BY <1>1, FrameTypes DEF FrameOK
<1>4. /\ r \in Frame /\ FrameOK(r) /\ r.kind = "restore" /\ r.tpl = Top.local
      /\ r.pc = "test" /\ ReturnTpl(r) = Top.local /\ Suits(r, Top.tpl)
  BY <1>3, RestoreFrameOK
<1> HIDE DEF r, s
<1>5. s[Len(s)].tpl = Top.local /\ Pushed(s[Len(s)], r)
  BY <1>1, <1>2, <1>4 DEF Pushed, Suits, ReturnTpl
<1>6. s[Len(s)].tpl <= r.tpl
  BY ONLY <1>3, <1>4, <1>5
<1>7. /\ WellNested(Append(s, r))
      /\ Len(Append(s, r)) = n /\ Append(s, r)[n] = r
  BY <1>1, <1>2, <1>4, <1>5, <1>6, PushNested
<1>8. stack' = Append(s, r)
  <2>1. /\ Replace(r) \in Seq(Frame) /\ Len(Replace(r)) = n
        /\ \A j \in 1 .. n : Replace(r)[j] = IF j = n THEN r ELSE stack[j]
    BY <1>1, <1>4, ExceptSeq DEF Replace
  <2>2. \A j \in 1 .. n - 1 : s[j] = stack[j]
    <3>1. \A i \in 1 .. n - 1 : stack[i] \in Frame
      BY <1>1, ElementOfSeq
    <3>2. \A i \in 1 .. (n - 1) - 1 + 1 : SubSeq(stack, 1, n - 1)[i] = stack[1 + i - 1]
      BY <3>1, <1>1, SubSeqProperties
    <3> QED
      BY <3>2, <1>1 DEF s, Pop
  <2>3. /\ Append(s, r) \in Seq(Frame) /\ s \in Seq(Frame)
        /\ \A j \in 1 .. Len(s) : Append(s, r)[j] = s[j]
    BY <1>2, <1>4, AppendProperties DEF WellNested
  <2>4. \A j \in 1 .. n : Replace(r)[j] = Append(s, r)[j]
    BY <2>1, <2>2, <2>3, <1>1, <1>2, <1>7
  <2>5. Replace(r) = Append(s, r)
    BY <2>1, <2>3, <2>4, <1>7, SeqEqual
  <2> QED
    BY <2>5 DEF RestoreTpl, r
<1>9. StackDiscipline'
  BY <1>7, <1>8 DEF StackDiscipline
<1>10. currentTpl' = Top.tpl
  BY <1>1 DEF RestoreTpl, IInv, LevelRestored, Suits
<1>11. LevelRestored'
  <2>1. Top' = r
    BY <1>7, <1>8 DEF Top
  <2> QED
    BY <2>1, <1>4, <1>10 DEF LevelRestored
<1> QED
  BY <1>3, <1>9, <1>10, <1>11, StackOnly DEF RestoreTpl, StoredVars, IInv, TypeOK

(* Moving within CoreRestoreTpl without touching the level.                 *)
LEMMA GotoStep ==
  ASSUME IInv, Top.kind = "restore",
         NEW pc \in {"test", "reread", "lower", "exit", "assert", "freed"},
         NEW p \in Tpl, pc = "lower" => p > Top.tpl,
         stack' = Goto(pc, p), UNCHANGED <<currentTpl, intr, StoredVars>>
  PROVE  IInv'
<1> DEFINE g == [Top EXCEPT !.pc = pc, !.local = p]
<1>1. Top \in Frame /\ FrameOK(Top)
  BY TopFacts DEF IInv
<1>2. /\ g \in Frame /\ g.kind = "restore" /\ g.tpl = Top.tpl /\ g.pc = pc /\ g.local = p
  BY <1>1 DEF Frame, RestorePc
<1>3. FrameOK(g)
  BY <1>1, <1>2 DEF FrameOK, RestorePc
<1>4. currentTpl >= Top.tpl
  <2>1. Top.tpl \in Int /\ Top.local \in Int /\ Top.pc # "walk"
    BY <1>1, FrameTypes DEF FrameOK, RestorePc
  <2>2. Top.pc \in {"take", "call"} => currentTpl = Top.local /\ Top.local > Top.tpl
    BY <1>1, <2>1 DEF IInv, LevelRestored, Suits, FrameOK
  <2>3. Top.pc \notin {"take", "call"} => currentTpl >= Top.tpl
    BY <2>1 DEF IInv, LevelRestored, Suits
  <2> QED
    BY <2>1, <2>2, <2>3
<1> HIDE DEF g
<1>5. LevelOf(g, currentTpl', intr')
  BY <1>2, <1>4 DEF LevelOf, Suits
<1>6. stack' = Replace(g)
  BY DEF Goto, g
<1>7. StackDiscipline' /\ LevelRestored'
  BY <1>2, <1>3, <1>5, <1>6, StepReplace DEF ReturnTpl, IInv
<1> QED
  BY <1>7, StackOnly DEF IInv, TypeOK

LEMMA TestPendingStep ==
  ASSUME IInv, TestPending
  PROVE  IInv'
<1>1. /\ Top.kind = "restore" /\ Top.pc = "test" /\ pending \subseteq Tpl
      /\ UNCHANGED <<currentTpl, intr, StoredVars>>
  BY DEF TestPending, AtRestore, IInv, TypeOK, StoredVars
<1>2. Top.local \in Tpl
  BY TopFacts, FrameTypes DEF IInv
<1>3. \/ stack' = Goto("exit", Top.local)
      \/ stack' = Goto("reread", Top.local)
      \/ \E p \in pending : p > Top.tpl /\ stack' = Goto("lower", p)
  BY DEF TestPending, Unmasked
<1> QED
  BY <1>1, <1>2, <1>3, GotoStep

LEMMA RereadPendingStep ==
  ASSUME IInv, RereadPending
  PROVE  IInv'
<1>1. /\ Top.kind = "restore" /\ Top.pc = "reread" /\ pending \subseteq Tpl
      /\ UNCHANGED <<currentTpl, intr, StoredVars>>
  BY DEF RereadPending, AtRestore, IInv, TypeOK, StoredVars
<1>2. Top.local \in Tpl
  BY TopFacts, FrameTypes DEF IInv
<1>3. \/ stack' = Goto("exit", Top.local)
      \/ stack' = Goto("assert", Top.local)
      \/ \E p \in pending : p > Top.tpl /\ stack' = Goto("lower", p)
  BY DEF RereadPending, Unmasked
<1> QED
  BY <1>1, <1>2, <1>3, GotoStep

LEMMA LowerToPendingStep ==
  ASSUME IInv, LowerToPending
  PROVE  IInv'
<1> DEFINE g == [Top EXCEPT !.pc = "take", !.local = Top.local]
<1>1. /\ Top \in Frame /\ FrameOK(Top) /\ Top.kind = "restore" /\ Top.pc = "lower"
      /\ Top.local \in Tpl
  BY TopFacts, FrameTypes DEF IInv, LowerToPending, AtRestore
<1>2. /\ g \in Frame /\ g.kind = "restore" /\ g.tpl = Top.tpl /\ g.pc = "take"
      /\ g.local = Top.local
  BY <1>1 DEF Frame, RestorePc
<1>3. FrameOK(g)
  BY <1>1, <1>2 DEF FrameOK, RestorePc
<1>4. /\ stack' = Replace(g) /\ currentTpl' = Top.local /\ intr' \in BOOLEAN
      /\ UNCHANGED StoredVars
  BY DEF LowerToPending, Goto, StoredVars
<1> HIDE DEF g
<1>5. LevelOf(g, currentTpl', intr')
  BY <1>2, <1>4 DEF LevelOf, Suits
<1>6. StackDiscipline' /\ LevelRestored'
  BY <1>1, <1>2, <1>3, <1>4, <1>5, StepReplace DEF ReturnTpl, IInv
<1> QED
  BY <1>1, <1>4, <1>6, StackOnly

LEMMA NotifyReturnStep ==
  ASSUME IInv, NotifyReturn
  PROVE  IInv'
<1>1. Top.kind = "notify" /\ Top.pc = "idle" /\ currentTpl = Top.tpl
  BY DEF NotifyReturn, Running, IInv, LevelRestored, Suits
<1>2. /\ stack' = Pop /\ currentTpl' = currentTpl /\ intr' = intr /\ UNCHANGED StoredVars
  BY DEF NotifyReturn, StoredVars
<1>3. StackDiscipline' /\ LevelRestored'
  BY <1>1, <1>2, StepPop DEF ReturnTpl, IInv
<1> QED
  BY <1>2, <1>3, StackOnly DEF IInv, TypeOK

LEMMA RestoreExitStep ==
  ASSUME IInv, RestoreExit
  PROVE  IInv'
<1>1. Top.kind = "restore" /\ Top.tpl \in Tpl
  BY TopFacts, FrameTypes DEF RestoreExit, AtRestore, IInv
<1>2. /\ stack' = Pop /\ currentTpl' = Top.tpl /\ intr' \in BOOLEAN /\ UNCHANGED StoredVars
  BY DEF RestoreExit, StoredVars
<1>3. StackDiscipline' /\ LevelRestored'
  BY <1>1, <1>2, StepPop DEF ReturnTpl, IInv
<1> QED
  BY <1>1, <1>2, <1>3, StackOnly

LEMMA InterruptReturnStep ==
  ASSUME IInv, InterruptReturn
  PROVE  IInv'
<1>1. Top.kind = "isr" /\ Top.pc = "idle"
  BY TopFacts DEF InterruptReturn, IInv, FrameOK
<1>2. currentTpl = Top.tpl
  BY <1>1 DEF IInv, LevelRestored, Suits
<1>3. /\ stack' = Pop /\ currentTpl' = currentTpl /\ intr' = TRUE /\ UNCHANGED StoredVars
  BY DEF InterruptReturn, StoredVars
<1>4. StackDiscipline' /\ LevelRestored'
  BY <1>1, <1>2, <1>3, StepPop DEF ReturnTpl, IInv
<1> QED
  BY <1>3, <1>4, StackOnly DEF IInv, TypeOK

LEMMA CallFreedStep ==
  ASSUME IInv, CallFreed
  PROVE  IInv'
<1>1. /\ Top.kind = "restore" /\ stack' = Goto("freed", Top.local)
      /\ UNCHANGED <<currentTpl, intr, StoredVars>>
  BY DEF CallFreed, AtRestore, StoredVars
<1>2. Top.local \in Tpl
  BY TopFacts, FrameTypes DEF IInv
<1> QED
  BY <1>1, <1>2, GotoStep

(* Clearing the await mark of frames changes nothing of the discipline.     *)
LEMMA AwaitNested ==
  ASSUME NEW s, WellNested(s), NEW A,
         NEW t, t = [i \in DOMAIN s |-> IF i \in A THEN [s[i] EXCEPT !.await = FALSE]
                                                   ELSE s[i]]
  PROVE  /\ WellNested(t) /\ Len(t) = Len(s)
         /\ Len(s) \notin A => t[Len(t)] = s[Len(s)]
<1>1. s \in Seq(Frame) /\ Len(s) > 0 /\ Len(s) \in Nat /\ DOMAIN s = 1 .. Len(s)
  BY LenProperties DEF WellNested
<1>2. ASSUME NEW i \in 1 .. Len(s)
      PROVE  /\ s[i] \in Frame /\ t[i] \in Frame
             /\ t[i].kind = s[i].kind /\ t[i].tpl = s[i].tpl /\ t[i].pc = s[i].pc
             /\ t[i].local = s[i].local /\ t[i].ev = s[i].ev /\ t[i].wait = s[i].wait
  <2>1. s[i] \in Frame
    BY <1>1, ElementOfSeq
  <2>2. [s[i] EXCEPT !.await = FALSE] \in Frame
    BY <2>1 DEF Frame
  <2>3. CASE i \in A
    <3>1. t[i] = [s[i] EXCEPT !.await = FALSE]
      BY <1>1, <2>3
    <3> QED
      BY <2>1, <2>2, <3>1 DEF Frame
  <2>4. CASE i \notin A
    BY <1>1, <2>1, <2>4
  <2> QED
    BY <2>3, <2>4
<1>3. t \in [1 .. Len(s) -> Frame]
  BY <1>1, <1>2
<1>4. t \in Seq(Frame) /\ Len(t) = Len(s)
  BY <1>1, <1>3
<1>5. \A i \in 1 .. Len(s) : FrameOK(t[i])
  BY <1>2 DEF WellNested, FrameOK
<1>6. \A i \in 1 .. Len(s) - 1 : Pushed(t[i], t[i + 1])
  <2> SUFFICES ASSUME NEW i \in 1 .. Len(s) - 1
               PROVE  Pushed(t[i], t[i + 1])
    OBVIOUS
  <2>1. i \in 1 .. Len(s) /\ i + 1 \in 1 .. Len(s)
    BY <1>1
  <2>2. Pushed(s[i], s[i + 1])
    BY DEF WellNested
  <2> QED
    BY <2>1, <2>2, <1>2 DEF Pushed, Suits, ReturnTpl
<1>7. \A i, j \in 1 .. Len(s) : i < j => t[i].tpl <= t[j].tpl
  BY <1>2 DEF WellNested
<1>8. t[1].kind = "app"
  <2>1. 1 \in 1 .. Len(s)
    BY <1>1
  <2> QED
    BY <2>1, <1>2 DEF WellNested
<1>9. Len(s) \notin A => t[Len(t)] = s[Len(s)]
  <2>1. Len(s) \in DOMAIN s
    BY <1>1
  <2> QED
    BY <2>1, <1>4
<1> QED
  BY <1>1, <1>4, <1>5, <1>6, <1>7, <1>8, <1>9 DEF WellNested

LEMMA CallNotifyStep ==
  ASSUME IInv, CallNotify
  PROVE  IInv'
<1> DEFINE A == {i \in DOMAIN stack : stack[i].ev = Top.ev /\ stack[i].kind # "restore"}
           s == [i \in DOMAIN stack |-> IF stack[i].ev = Top.ev /\ stack[i].kind # "restore"
                                        THEN [stack[i] EXCEPT !.await = FALSE] ELSE stack[i]]
           g == [Top EXCEPT !.pc = "take", !.ev = None]
           h == CodeFrame("notify", Top.local, Top.local)
<1>1. /\ Top \in Frame /\ FrameOK(Top) /\ Top.kind = "restore" /\ Top.pc = "call"
      /\ Top.local \in Tpl /\ Top.tpl \in Int /\ Top.local \in Int /\ Top.local > Top.tpl
  BY TopFacts, FrameTypes DEF IInv, CallNotify, AtRestore, FrameOK
<1>2. /\ g \in Frame /\ FrameOK(g) /\ g.kind = "restore" /\ g.tpl = Top.tpl
      /\ g.pc = "take" /\ g.local = Top.local
  <2>1. /\ g \in Frame /\ g.kind = "restore" /\ g.tpl = Top.tpl
        /\ g.pc = "take" /\ g.local = Top.local
    BY <1>1 DEF Frame, RestorePc
  <2> QED
    BY <2>1, <1>1 DEF FrameOK, RestorePc
<1>3. /\ h \in Frame /\ FrameOK(h) /\ h.kind = "notify" /\ h.tpl = Top.local
      /\ h.pc = "idle"
  BY <1>1, CodeFrameOK
<1>4. s = [i \in DOMAIN stack |-> IF i \in A THEN [stack[i] EXCEPT !.await = FALSE]
                                             ELSE stack[i]]
  OBVIOUS
<1>5. /\ stack' = Append([s EXCEPT ![Len(stack)] = g], h)
      /\ UNCHANGED <<currentTpl, intr, StoredVars>>
  BY DEF CallNotify, StoredVars
<1>6. Len(stack) \notin A
  BY <1>1 DEF Top
<1> HIDE DEF s, A, g, h
<1>7. WellNested(s) /\ Len(s) = Len(stack) /\ s[Len(s)] = Top
  BY <1>4, <1>6, AwaitNested DEF IInv, StackDiscipline, Top
<1> DEFINE u == [s EXCEPT ![Len(s)] = g]
<1>8. WellNested(u) /\ Len(u) = Len(s) /\ u[Len(u)] = g
  BY <1>1, <1>2, <1>7, ReplaceNested DEF ReturnTpl
<1> HIDE DEF u
<1>9. Pushed(g, h)
  BY <1>2, <1>3 DEF Pushed, Suits, ReturnTpl
<1>10. g.tpl <= h.tpl
  BY <1>1, <1>2, <1>3
<1>11. /\ WellNested(Append(u, h)) /\ Len(Append(u, h)) = Len(u) + 1
       /\ Append(u, h)[Len(u) + 1] = h
  BY <1>3, <1>8, <1>9, <1>10, PushNested
<1>12. stack' = Append(u, h)
  BY <1>5, <1>7 DEF u
<1>13. StackDiscipline'
  BY <1>11, <1>12 DEF StackDiscipline
<1>14. LevelRestored'
  <2>1. Top' = h
    BY <1>11, <1>12 DEF Top
  <2>2. currentTpl' = Top.local
    BY <1>1, <1>5 DEF IInv, LevelRestored, Suits
  <2> QED
    BY <2>1, <2>2, <1>3 DEF LevelRestored, Suits
<1> QED
  BY <1>5, <1>13, <1>14, StackOnly DEF IInv, TypeOK

-----------------------------------------------------------------------------
(* Steps of code frames                                                     *)

(* The operation in progress moves on to the frame g.                       *)
Continues(g) ==
  /\ g \in Frame /\ FrameOK(g)
  /\ g.kind = Top.kind /\ g.tpl = Top.tpl /\ g.local = Top.local

LEMMA CodeLevel ==
  ASSUME IInv, IsCode(Top), Top.pc # "walk"
  PROVE  currentTpl = Top.tpl
BY DEF IInv, LevelRestored, Suits, IsCode

LEMMA CodeReplace ==
  ASSUME IInv, IsCode(Top), Top.pc # "walk", NEW g, Continues(g), g.pc # "walk",
         stack' = Replace(g), currentTpl' = currentTpl
  PROVE  StackDiscipline' /\ LevelRestored'
<1>1. LevelOf(g, currentTpl', intr')
  BY CodeLevel DEF LevelOf, Suits, IsCode, Continues
<1> QED
  BY <1>1, StepReplace DEF ReturnTpl, IInv, Continues

LEMMA CodeRelease ==
  ASSUME IInv, IsCode(Top), NEW g, Continues(g), g.pc # "walk",
         NEW at \in Tpl, Top.tpl <= at, Release(g, Top.tpl, at)
  PROVE  /\ StackDiscipline' /\ LevelRestored'
         /\ currentTpl' \in Tpl /\ intr' \in BOOLEAN
<1>1. Top.tpl \in Tpl /\ Top.tpl \in Int
  BY TopFacts, FrameTypes DEF IInv
<1>2. Suits(g, Top.tpl)
  BY DEF Suits, IsCode, Continues
<1>3. /\ g \in Frame /\ FrameOK(g) /\ g.kind = Top.kind /\ g.tpl = Top.tpl
      /\ ReturnTpl(g) = ReturnTpl(Top) /\ g.tpl <= Top.tpl
  BY <1>1 DEF Continues, ReturnTpl
<1>4. StackDiscipline /\ intr \in BOOLEAN
  BY DEF IInv, TypeOK
<1> QED
  BY <1>1, <1>2, <1>3, <1>4, StepRelease

(* Releasing gEventQueueLock.                                               *)
LEMMA CodeReleaseEvent ==
  ASSUME IInv, IsCode(Top), NEW g, Continues(g), g.pc # "walk",
         ReleaseEventLock(g, Top.tpl)
  PROVE  /\ StackDiscipline' /\ LevelRestored'
         /\ currentTpl' \in Tpl /\ intr' \in BOOLEAN
<1>1. TPL_HIGH_LEVEL \in Tpl /\ Top.tpl <= TPL_HIGH_LEVEL
  <2>1. Top.tpl \in Tpl
    BY TopFacts, FrameTypes DEF IInv
  <2> QED
    BY <2>1 DEF Tpl, TPL_HIGH_LEVEL
<1> QED
  BY <1>1, CodeRelease DEF ReleaseEventLock

LEMMA SignalReturnStep ==
  ASSUME IInv, SignalReturn
  PROVE  IInv'
<1> DEFINE w == IF Top.wait > 0 THEN 1 ELSE 0
           g == [Top EXCEPT !.pc = IF Top.wait > 0 THEN "wait" ELSE "idle",
                            !.wait = IF Top.wait > 0 THEN 1 ELSE 0,
                            !.ev = None, !.await = FALSE]
<1>1. /\ Top \in Frame /\ FrameOK(Top) /\ IsCode(Top) /\ Top.pc = "return"
      /\ Top.wait \in 0 .. Len(WaitList)
  BY TopFacts, FrameTypes DEF IInv, SignalReturn
<1>2. w \in 0 .. Len(WaitList)
  BY <1>1
<1>3. /\ g \in Frame /\ g.kind = Top.kind /\ g.tpl = Top.tpl /\ g.local = Top.local
      /\ g.pc = (IF Top.wait > 0 THEN "wait" ELSE "idle") /\ g.wait = w
  BY <1>1, <1>2 DEF Frame, CodePc
<1>4. Continues(g) /\ g.pc # "walk"
  BY <1>1, <1>3 DEF Continues, FrameOK, RestorePc, IsCode
<1>5. stack' = Replace(g) /\ UNCHANGED <<currentTpl, intr, StoredVars>>
  BY DEF SignalReturn, StoredVars
<1> HIDE DEF g
<1>6. StackDiscipline' /\ LevelRestored'
  BY <1>1, <1>4, <1>5, CodeReplace
<1> QED
  BY <1>5, <1>6, StackOnly DEF IInv, TypeOK

LEMMA WalkBeginStep ==
  ASSUME IInv, WalkBegin
  PROVE  IInv'
<1> DEFINE g == [Top EXCEPT !.pc = "walk", !.idx = 1]
<1>1. Top \in Frame /\ FrameOK(Top) /\ IsCode(Top) /\ Top.pc = "group"
  BY TopFacts DEF IInv, WalkBegin, AtCode
<1>2. /\ g \in Frame /\ g.kind = Top.kind /\ g.tpl = Top.tpl /\ g.local = Top.local
      /\ g.pc = "walk" /\ g.ev = Top.ev
  BY <1>1 DEF Frame, CodePc
<1>3. FrameOK(g)
  BY <1>1, <1>2 DEF FrameOK, RestorePc, IsCode
<1>4. /\ stack' = Replace(g) /\ currentTpl' = TPL_HIGH_LEVEL /\ intr' = FALSE
      /\ UNCHANGED StoredVars
  BY DEF WalkBegin, StoredVars
<1> HIDE DEF g
<1>5. LevelOf(g, currentTpl', intr')
  BY <1>2, <1>4 DEF LevelOf
<1>6. StackDiscipline' /\ LevelRestored'
  BY <1>2, <1>3, <1>4, <1>5, StepReplace DEF IInv, ReturnTpl
<1>7. TPL_HIGH_LEVEL \in Tpl
  BY DEF Tpl, TPL_HIGH_LEVEL
<1>8. currentTpl' \in Tpl /\ intr' \in BOOLEAN
  BY ONLY <1>4, <1>7
<1> QED
  BY <1>4, <1>6, <1>8, StackOnly

LEMMA WalkEndStep ==
  ASSUME IInv, WalkEnd
  PROVE  IInv'
<1> DEFINE g == [Top EXCEPT !.pc = "walked", !.idx = 0, !.await = Queued(Top.ev)]
<1>1. Top \in Frame /\ FrameOK(Top) /\ IsCode(Top) /\ Top.pc = "walk"
  BY TopFacts DEF IInv, WalkEnd, AtCode
<1>2. /\ g \in Frame /\ g.kind = Top.kind /\ g.tpl = Top.tpl /\ g.local = Top.local
      /\ g.pc = "walked" /\ g.ev = Top.ev
  BY <1>1 DEF Frame, CodePc, Queued
<1>3. Continues(g)
  BY <1>1, <1>2 DEF Continues, FrameOK, RestorePc, IsCode
<1>4. ReleaseEventLock(g, Top.tpl) /\ UNCHANGED StoredVars
  BY DEF WalkEnd, StoredVars
<1> HIDE DEF g
<1> QED
  BY <1>1, <1>2, <1>3, <1>4, CodeReleaseEvent, StackOnly

LEMMA GroupSignalledStep ==
  ASSUME IInv, GroupSignalled
  PROVE  IInv'
<1> DEFINE g == [Top EXCEPT !.pc = "return"]
<1>1. Top \in Frame /\ FrameOK(Top) /\ IsCode(Top) /\ Top.pc = "walked"
  BY TopFacts DEF IInv, GroupSignalled, AtCode
<1>2. /\ g \in Frame /\ g.kind = Top.kind /\ g.tpl = Top.tpl /\ g.local = Top.local
      /\ g.pc = "return" /\ g.ev = Top.ev
  BY <1>1 DEF Frame, CodePc
<1>3. Continues(g)
  BY <1>1, <1>2 DEF Continues, FrameOK, RestorePc, IsCode
<1>4. ReleaseEventLock(g, Top.tpl) /\ UNCHANGED StoredVars
  BY DEF GroupSignalled, StoredVars
<1> HIDE DEF g
<1> QED
  BY <1>1, <1>2, <1>3, <1>4, CodeReleaseEvent, StackOnly

LEMMA CheckBeginContinues ==
  ASSUME IInv, IsCode(Top), NEW e \in Event
  PROVE  Continues(CheckBegin(Top, e)) /\ CheckBegin(Top, e).pc # "walk"
<1> DEFINE g == CheckBegin(Top, e)
<1>1. Top \in Frame /\ FrameOK(Top)
  BY TopFacts DEF IInv
<1>2. /\ g \in Frame /\ g.kind = Top.kind /\ g.tpl = Top.tpl /\ g.local = Top.local
      /\ g.pc \in {"queue", "check"} /\ g.ev = e
  BY <1>1 DEF Frame, CodePc, CheckBegin
<1> HIDE DEF g
<1>3. FrameOK(g)
  BY <1>1, <1>2 DEF FrameOK, RestorePc, IsCode
<1> QED
  BY <1>2, <1>3 DEF Continues, g

LEMMA AfterCheckContinues ==
  ASSUME IInv, IsCode(Top), NEW ok \in BOOLEAN
  PROVE  Continues(AfterCheck(Top, ok)) /\ AfterCheck(Top, ok).pc # "walk"
<1> DEFINE h == [Top EXCEPT !.ev = None, !.await = FALSE]
           g == AfterCheck(Top, ok)
<1>1. /\ Top \in Frame /\ FrameOK(Top) /\ Top.wait \in 0 .. Len(WaitList)
      /\ Len(WaitList) \in Nat
  BY TopFacts, FrameTypes, LenProperties, EventAssumption DEF IInv
<1>2. /\ h \in Frame /\ h.kind = Top.kind /\ h.tpl = Top.tpl /\ h.local = Top.local
      /\ h.wait = Top.wait
  BY <1>1 DEF Frame
<1> HIDE DEF h
<1>3. CASE h.wait = 0 \/ ok
  <2>1. g = [h EXCEPT !.pc = "idle", !.wait = 0]
    BY <1>3 DEF AfterCheck, h
  <2>2. 0 \in 0 .. Len(WaitList)
    BY <1>1
  <2>3. /\ g \in Frame /\ g.kind = Top.kind /\ g.tpl = Top.tpl /\ g.local = Top.local
        /\ g.pc = "idle"
    BY <1>2, <2>1, <2>2 DEF Frame, CodePc
  <2> QED
    BY <1>1, <2>3 DEF Continues, FrameOK, RestorePc, IsCode
<1>4. CASE ~ok /\ h.wait > 0 /\ h.wait < Len(WaitList)
  <2>1. g = [h EXCEPT !.pc = "wait", !.wait = h.wait + 1]
    BY <1>1, <1>2, <1>4 DEF AfterCheck, h
  <2>2. h.wait + 1 \in 0 .. Len(WaitList) /\ h.wait + 1 > 0
    BY <1>1, <1>2, <1>4
  <2>3. /\ g \in Frame /\ g.kind = Top.kind /\ g.tpl = Top.tpl /\ g.local = Top.local
        /\ g.pc = "wait" /\ g.wait > 0
    BY <1>2, <2>1, <2>2 DEF Frame, CodePc
  <2> QED
    BY <1>1, <2>3 DEF Continues, FrameOK, RestorePc, IsCode
<1>5. CASE ~ok /\ h.wait > 0 /\ h.wait >= Len(WaitList)
  <2>1. g = [h EXCEPT !.pc = "loop"]
    BY <1>1, <1>2, <1>5 DEF AfterCheck, h
  <2>2. /\ g \in Frame /\ g.kind = Top.kind /\ g.tpl = Top.tpl /\ g.local = Top.local
        /\ g.pc = "loop" /\ g.wait > 0
    BY <1>2, <1>5, <2>1 DEF Frame, CodePc
  <2> QED
    BY <1>1, <2>2 DEF Continues, FrameOK, RestorePc, IsCode
<1> QED
  BY <1>1, <1>2, <1>3, <1>4, <1>5

LEMMA CheckEventStep ==
  ASSUME IInv, NEW e \in Event, CheckEvent(e)
  PROVE  IInv'
<1>1. IsCode(Top) /\ Top.pc = "idle"
  BY DEF CheckEvent, Running, IsCode
<1>2. Continues(CheckBegin(Top, e)) /\ CheckBegin(Top, e).pc # "walk"
  BY <1>1, CheckBeginContinues
<1>3. stack' = Replace(CheckBegin(Top, e)) /\ UNCHANGED <<currentTpl, intr, StoredVars>>
  BY DEF CheckEvent, StoredVars
<1>4. StackDiscipline' /\ LevelRestored'
  BY <1>1, <1>2, <1>3, CodeReplace
<1> QED
  BY <1>3, <1>4, StackOnly DEF IInv, TypeOK

LEMMA CheckTestStep ==
  ASSUME IInv, CheckTest
  PROVE  IInv'
<1> DEFINE g == IF signalCount[Top.ev] # 0 THEN [Top EXCEPT !.pc = "clear"]
                                           ELSE AfterCheck(Top, FALSE)
<1>1. Top \in Frame /\ FrameOK(Top) /\ IsCode(Top) /\ Top.pc = "check"
  BY TopFacts DEF CheckTest, AtCode, IInv
<1>2. Continues(g) /\ g.pc # "walk"
  <2>1. CASE signalCount[Top.ev] # 0
    <3>1. /\ g \in Frame /\ g.kind = Top.kind /\ g.tpl = Top.tpl /\ g.local = Top.local
          /\ g.pc = "clear" /\ g.ev = Top.ev
      BY <1>1, <2>1 DEF Frame, CodePc
    <3> QED
      BY <1>1, <3>1 DEF Continues, FrameOK, RestorePc, IsCode
  <2>2. CASE signalCount[Top.ev] = 0
    BY <1>1, <2>2, AfterCheckContinues
  <2> QED
    BY <2>1, <2>2
<1>3. stack' = Replace(g) /\ UNCHANGED <<currentTpl, intr, StoredVars>>
  BY DEF CheckTest, StoredVars
<1> HIDE DEF g
<1>4. StackDiscipline' /\ LevelRestored'
  BY <1>1, <1>2, <1>3, CodeReplace
<1> QED
  BY <1>3, <1>4, StackOnly DEF IInv, TypeOK

LEMMA WaitForEventStep ==
  ASSUME IInv, WaitForEvent
  PROVE  IInv'
<1> DEFINE g == [Top EXCEPT !.pc = "wait", !.wait = 1]
<1>1. Top \in Frame /\ FrameOK(Top) /\ IsCode(Top) /\ Top.pc = "idle"
  BY TopFacts DEF WaitForEvent, Running, IsCode, IInv
<1>2. 1 \in 0 .. Len(WaitList)
  BY EventAssumption, EmptySeq DEF WaitForEvent
<1>3. /\ g \in Frame /\ g.kind = Top.kind /\ g.tpl = Top.tpl /\ g.local = Top.local
      /\ g.pc = "wait" /\ g.wait = 1
  BY <1>1, <1>2 DEF Frame, CodePc
<1>4. Continues(g)
  BY <1>1, <1>3 DEF Continues, FrameOK, RestorePc, IsCode
<1>5. stack' = Replace(g) /\ UNCHANGED <<currentTpl, intr, StoredVars>>
  BY DEF WaitForEvent, StoredVars
<1> HIDE DEF g
<1>6. StackDiscipline' /\ LevelRestored'
  BY <1>1, <1>3, <1>4, <1>5, CodeReplace
<1> QED
  BY <1>5, <1>6, StackOnly DEF IInv, TypeOK

LEMMA WaitCheckStep ==
  ASSUME IInv, WaitCheck
  PROVE  IInv'
<1> DEFINE e == WaitList[Top.wait]
           g == IF IsSignal(e) THEN [Top EXCEPT !.pc = "idle", !.wait = 0]
                               ELSE CheckBegin(Top, e)
<1>1. /\ Top \in Frame /\ FrameOK(Top) /\ IsCode(Top) /\ Top.pc = "wait"
      /\ Top.wait \in 0 .. Len(WaitList) /\ Top.wait > 0 /\ Len(WaitList) \in Nat
  BY TopFacts, FrameTypes, LenProperties, EventAssumption
     DEF WaitCheck, AtCode, IInv, FrameOK
<1>2. e \in Event
  BY <1>1, EventAssumption, ElementOfSeq
<1>3. Continues(g) /\ g.pc # "walk"
  <2>1. CASE IsSignal(e)
    <3>1. 0 \in 0 .. Len(WaitList)
      BY <1>1
    <3>2. g = [Top EXCEPT !.pc = "idle", !.wait = 0]
      BY <2>1
    <3>3. /\ g \in Frame /\ g.kind = Top.kind /\ g.tpl = Top.tpl /\ g.local = Top.local
          /\ g.pc = "idle"
      BY <1>1, <3>1, <3>2 DEF Frame, CodePc
    <3> QED
      BY <1>1, <3>3 DEF Continues, FrameOK, RestorePc, IsCode
  <2>2. CASE ~IsSignal(e)
    BY <1>1, <1>2, <2>2, CheckBeginContinues
  <2> QED
    BY <2>1, <2>2
<1>4. stack' = Replace(g) /\ UNCHANGED <<currentTpl, intr, StoredVars>>
  BY DEF WaitCheck, StoredVars
<1> HIDE DEF g
<1>5. StackDiscipline' /\ LevelRestored'
  BY <1>1, <1>3, <1>4, CodeReplace
<1> QED
  BY <1>4, <1>5, StackOnly DEF IInv, TypeOK

LEMMA InstallProtocolStep ==
  ASSUME IInv, NEW e \in Event, InstallProtocol(e)
  PROVE  IInv'
<1> DEFINE h == CodeFrame("locked", ProtocolLockTpl, currentTpl)
           g == [h EXCEPT !.pc = "install", !.ev = e]
<1>1. ProtocolLockTpl \in Tpl /\ currentTpl \in Tpl /\ currentTpl <= ProtocolLockTpl
  BY DEF InstallProtocol, ProtocolLockTpl, IInv, TypeOK, Tpl, TPL_NOTIFY, TPL_HIGH_LEVEL
<1>2. /\ h \in Frame /\ FrameOK(h) /\ h.kind = "locked" /\ h.tpl = ProtocolLockTpl
      /\ h.local = currentTpl
  BY <1>1, CodeFrameOK
<1> HIDE DEF h
<1>3. /\ g \in Frame /\ g.kind = "locked" /\ g.tpl = ProtocolLockTpl
      /\ g.local = currentTpl /\ g.pc = "install" /\ g.ev = e
  BY <1>2 DEF Frame, CodePc
<1>4. FrameOK(g)
  BY <1>1, <1>3 DEF FrameOK, RestorePc
<1>5. IsCode(Top) /\ Top.pc = "idle" /\ Top.kind # "restore" /\ currentTpl = Top.tpl
  BY CodeLevel DEF InstallProtocol, Running, IsCode
<1>6. /\ stack' = Append(stack, g) /\ currentTpl' = ProtocolLockTpl /\ intr' = intr
      /\ UNCHANGED StoredVars
  BY DEF InstallProtocol, StoredVars, h
<1> HIDE DEF g
<1>7. Pushed(Top, g)
  BY <1>3, <1>5 DEF Pushed, Suits, ReturnTpl
<1>8. LevelOf(g, currentTpl', intr')
  BY <1>3, <1>6 DEF LevelOf, Suits
<1>9. StackDiscipline' /\ LevelRestored'
  BY <1>1, <1>3, <1>4, <1>5, <1>6, <1>7, <1>8, StepPush DEF IInv
<1> QED
  BY <1>1, <1>6, <1>9, StackOnly DEF IInv, TypeOK

-----------------------------------------------------------------------------
(* Steps that change the events                                             *)

LEMMA Together ==
  ASSUME StackDiscipline', LevelRestored', QueuedPending',
         currentTpl' \in Tpl, intr' \in BOOLEAN,
         pending' \subseteq Tpl, queue' \in [Tpl -> Seq(Event)],
         signalList' \in Seq(Event),
         life' \in [Event -> {"none", "live", "closing", "freed"}],
         signalCount' \in [Event -> {0, 1}],
         protoReg' \subseteq Event, closedTpl' \in [Event -> Tpl],
         late' \subseteq Event
  PROVE  IInv'
<1>1. stack' \in Seq(Frame) /\ Len(stack') > 0
  BY DEF StackDiscipline, WellNested
<1>2. stack' # << >>
  BY <1>1, EmptySeq
<1>3. TypeOK'
  BY <1>1, <1>2 DEF TypeOK
<1> QED
  BY <1>3 DEF IInv

LEMMA SameQueues ==
  ASSUME TypeOK, QueuedPending, UNCHANGED <<queue, pending, late>>
  PROVE  /\ queue' \in [Tpl -> Seq(Event)] /\ pending' \subseteq Tpl
         /\ late' \subseteq Event
         /\ QueuedPending'
BY DEF TypeOK, QueuedPending

(* CoreSignalEvent called by the top frame.                                 *)
LEMMA SignalEventStep ==
  ASSUME IInv, IsCode(Top), NEW e \in Event, SignalEvent(Top, e),
         UNCHANGED <<signalList, life, protoReg, closedTpl>>
  PROVE  IInv'
<1> DEFINE F == {[Top EXCEPT !.pc = "return", !.ev = e, !.await = a] : a \in BOOLEAN}
                  \cup {[Top EXCEPT !.pc = "return", !.ev = e],
                        [Top EXCEPT !.pc = "group", !.ev = e]}
<1>1. Top \in Frame /\ FrameOK(Top)
  BY TopFacts DEF IInv
<1>2. ASSUME NEW g \in F
      PROVE  Continues(g) /\ g.pc # "walk"
  <2>1. /\ g \in Frame /\ g.kind = Top.kind /\ g.tpl = Top.tpl /\ g.local = Top.local
        /\ g.pc \in {"return", "group"} /\ g.ev = e
    <3>1. CASE g \in {[Top EXCEPT !.pc = "return", !.ev = e, !.await = a] : a \in BOOLEAN}
      <4>1. PICK a \in BOOLEAN : g = [Top EXCEPT !.pc = "return", !.ev = e, !.await = a]
        BY <3>1
      <4> QED
        BY <4>1, <1>1 DEF Frame, CodePc
    <3>2. CASE g = [Top EXCEPT !.pc = "return", !.ev = e]
      BY <3>2, <1>1 DEF Frame, CodePc
    <3>3. CASE g = [Top EXCEPT !.pc = "group", !.ev = e]
      BY <3>3, <1>1 DEF Frame, CodePc
    <3> QED
      BY <3>1, <3>2, <3>3
  <2> QED
    BY <1>1, <2>1 DEF Continues, FrameOK, RestorePc, IsCode
<1>3. \E g \in F : ReleaseEventLock(g, Top.tpl)
  <2>1. Queued(e) \in BOOLEAN /\ TRUE \in BOOLEAN
    BY DEF Queued
  <2> QED
    BY <2>1 DEF SignalEvent
<1> HIDE DEF F
<1>4. /\ StackDiscipline' /\ LevelRestored'
      /\ currentTpl' \in Tpl /\ intr' \in BOOLEAN
  BY <1>2, <1>3, CodeReleaseEvent
<1>5. signalCount' \in [Event -> {0, 1}]
  BY DEF SignalEvent, IInv, TypeOK
<1>6. NotifyEvent(e) \/ UNCHANGED <<queue, pending, late>>
  BY DEF SignalEvent
<1>7. /\ queue' \in [Tpl -> Seq(Event)] /\ pending' \subseteq Tpl
      /\ late' \subseteq Event
      /\ QueuedPending'
  BY <1>6, NotifyKeepsQueues, SameQueues DEF IInv
<1> QED
  BY <1>4, <1>5, <1>7, Together DEF IInv, TypeOK

LEMMA WalkStepStep ==
  ASSUME IInv, WalkStep
  PROVE  IInv'
<1> DEFINE g == [Top EXCEPT !.idx = Top.idx + 1]
           e == signalList[Top.idx]
<1>1. /\ Top \in Frame /\ FrameOK(Top) /\ IsCode(Top) /\ Top.pc = "walk"
      /\ Top.idx \in Nat
  BY TopFacts, FrameTypes DEF IInv, WalkStep, AtCode
<1>2. /\ g \in Frame /\ g.kind = Top.kind /\ g.tpl = Top.tpl /\ g.local = Top.local
      /\ g.pc = "walk" /\ g.ev = Top.ev
  BY <1>1 DEF Frame
<1>3. FrameOK(g)
  BY <1>1, <1>2 DEF FrameOK, RestorePc, IsCode
<1>4. /\ stack' = Replace(g)
      /\ UNCHANGED <<currentTpl, intr, signalList, life, signalCount, protoReg, closedTpl>>
  BY DEF WalkStep
<1> HIDE DEF g
<1>5. LevelOf(g, currentTpl', intr')
  BY <1>1, <1>2, <1>4 DEF LevelOf, IInv, LevelRestored
<1>6. StackDiscipline' /\ LevelRestored'
  BY <1>2, <1>3, <1>4, <1>5, StepReplace DEF IInv, ReturnTpl
<1>7. e \in Event
  BY LenProperties DEF WalkStep, IInv, TypeOK
<1>8. NotifyEvent(e) \/ UNCHANGED <<queue, pending, late>>
  BY DEF WalkStep
<1>9. /\ queue' \in [Tpl -> Seq(Event)] /\ pending' \subseteq Tpl
      /\ late' \subseteq Event
      /\ QueuedPending'
  BY <1>7, <1>8, NotifyKeepsQueues, SameQueues DEF IInv
<1> QED
  BY <1>4, <1>6, <1>9, Together DEF IInv, TypeOK

LEMMA CheckQueueStep ==
  ASSUME IInv, CheckQueue
  PROVE  IInv'
<1> DEFINE F == {[Top EXCEPT !.pc = "check", !.await = TRUE], [Top EXCEPT !.pc = "check"]}
<1>1. /\ Top \in Frame /\ FrameOK(Top) /\ IsCode(Top) /\ Top.pc = "queue"
      /\ Top.ev \in Event
  BY TopFacts DEF IInv, CheckQueue, AtCode, FrameOK
<1>2. ASSUME NEW g \in F
      PROVE  Continues(g) /\ g.pc # "walk"
  <2>1. /\ g \in Frame /\ g.kind = Top.kind /\ g.tpl = Top.tpl /\ g.local = Top.local
        /\ g.pc = "check" /\ g.ev = Top.ev
    BY <1>1 DEF Frame, CodePc
  <2> QED
    BY <1>1, <2>1 DEF Continues, FrameOK, RestorePc, IsCode
<1>3. /\ \E g \in F : ReleaseEventLock(g, Top.tpl)
      /\ NotifyEvent(Top.ev) \/ UNCHANGED <<queue, pending, late>>
      /\ UNCHANGED <<signalList, life, signalCount, protoReg, closedTpl>>
  BY DEF CheckQueue
<1> HIDE DEF F
<1>4. /\ StackDiscipline' /\ LevelRestored'
      /\ currentTpl' \in Tpl /\ intr' \in BOOLEAN
  BY <1>1, <1>2, <1>3, CodeReleaseEvent
<1>5. /\ queue' \in [Tpl -> Seq(Event)] /\ pending' \subseteq Tpl
      /\ late' \subseteq Event
      /\ QueuedPending'
  BY <1>1, <1>3, NotifyKeepsQueues, SameQueues DEF IInv
<1> QED
  BY <1>3, <1>4, <1>5, Together DEF IInv, TypeOK

LEMMA CheckClearStep ==
  ASSUME IInv, CheckClear
  PROVE  IInv'
<1> DEFINE g == AfterCheck(Top, signalCount[Top.ev] # 0)
<1>1. IsCode(Top)
  BY DEF CheckClear, AtCode
<1>2. Continues(g) /\ g.pc # "walk"
  BY <1>1, AfterCheckContinues
<1>3. /\ ReleaseEventLock(g, Top.tpl)
      /\ UNCHANGED <<pending, queue, signalList, life, protoReg, closedTpl, late>>
  BY DEF CheckClear
<1> HIDE DEF g
<1>4. /\ StackDiscipline' /\ LevelRestored'
      /\ currentTpl' \in Tpl /\ intr' \in BOOLEAN
  BY <1>1, <1>2, <1>3, CodeReleaseEvent
<1>5. signalCount' \in [Event -> {0, 1}]
  BY DEF CheckClear, IInv, TypeOK
<1>6. /\ queue' \in [Tpl -> Seq(Event)] /\ pending' \subseteq Tpl
      /\ late' \subseteq Event
      /\ QueuedPending'
  BY <1>3, SameQueues DEF IInv
<1> QED
  BY <1>3, <1>4, <1>5, <1>6, Together DEF IInv, TypeOK

LEMMA TopContinues ==
  ASSUME IInv
  PROVE  Continues(Top)
BY TopFacts DEF IInv, Continues

LEMMA CreateEventStep ==
  ASSUME IInv, NEW e \in Event, CreateEvent(e)
  PROVE  IInv'
<1>1. IsCode(Top) /\ Top.pc # "walk"
  BY DEF CreateEvent, Running, IsCode
<1>2. /\ ReleaseEventLock(Top, Top.tpl)
      /\ UNCHANGED <<pending, queue, signalCount, protoReg, closedTpl, late>>
      /\ life' = [life EXCEPT ![e] = "live"]
      /\ signalList' = IF IsSignal(e) THEN Cons(e, signalList) ELSE signalList
  BY DEF CreateEvent
<1>3. /\ StackDiscipline' /\ LevelRestored'
      /\ currentTpl' \in Tpl /\ intr' \in BOOLEAN
  BY <1>1, <1>2, TopContinues, CodeReleaseEvent
<1>4. signalList' \in Seq(Event)
  <2>1. <<e>> \in Seq(Event) /\ signalList \in Seq(Event)
    BY DEF IInv, TypeOK
  <2>2. <<e>> \o signalList \in Seq(Event)
    BY <2>1, ConcatProperties
  <2> QED
    BY <1>2, <2>1, <2>2 DEF Cons
<1>5. /\ queue' \in [Tpl -> Seq(Event)] /\ pending' \subseteq Tpl
      /\ late' \subseteq Event
      /\ QueuedPending'
  BY <1>2, SameQueues DEF IInv
<1> QED
  BY <1>2, <1>3, <1>4, <1>5, Together DEF IInv, TypeOK

LEMMA ProtocolRelease ==
  ASSUME IInv, IsCode(Top), Top.pc # "walk", Top.tpl <= TPL_NOTIFY,
         ReleaseProtocolLock(Top)
  PROVE  /\ StackDiscipline' /\ LevelRestored'
         /\ currentTpl' \in Tpl /\ intr' \in BOOLEAN
<1>1. ProtocolLockTpl \in Tpl /\ Top.tpl <= ProtocolLockTpl
  BY DEF ProtocolLockTpl, Tpl, TPL_HIGH_LEVEL, TPL_NOTIFY
<1> QED
  BY <1>1, TopContinues, CodeRelease DEF ReleaseProtocolLock

LEMMA RegisterStep ==
  ASSUME IInv, NEW e \in Event, RegisterProtocolNotify(e)
  PROVE  IInv'
<1>1. IsCode(Top) /\ Top.pc # "walk" /\ Top.tpl <= TPL_NOTIFY
  BY CodeLevel DEF RegisterProtocolNotify, Running, IsCode
<1>2. /\ ReleaseProtocolLock(Top) /\ protoReg' = protoReg \cup {e}
      /\ UNCHANGED <<pending, queue, signalList, life, signalCount, closedTpl, late>>
  BY DEF RegisterProtocolNotify
<1>3. /\ StackDiscipline' /\ LevelRestored'
      /\ currentTpl' \in Tpl /\ intr' \in BOOLEAN
  BY <1>1, <1>2, ProtocolRelease
<1>4. /\ queue' \in [Tpl -> Seq(Event)] /\ pending' \subseteq Tpl
      /\ late' \subseteq Event
      /\ QueuedPending'
  BY <1>2, SameQueues DEF IInv
<1> QED
  BY <1>2, <1>3, <1>4, Together DEF IInv, TypeOK

LEMMA CloseUnregisterStep ==
  ASSUME IInv, CloseUnregister
  PROVE  IInv'
<1>1. IsCode(Top) /\ Top.pc # "walk" /\ Top.tpl <= TPL_NOTIFY
  BY TopFacts DEF CloseUnregister, AtCode, IInv, FrameOK
<1>2. /\ ReleaseProtocolLock(Top) /\ protoReg' = protoReg \ {Top.ev}
      /\ UNCHANGED <<pending, queue, signalList, life, signalCount, closedTpl, late>>
  BY DEF CloseUnregister
<1>3. /\ StackDiscipline' /\ LevelRestored'
      /\ currentTpl' \in Tpl /\ intr' \in BOOLEAN
  BY <1>1, <1>2, ProtocolRelease
<1>4. /\ queue' \in [Tpl -> Seq(Event)] /\ pending' \subseteq Tpl
      /\ late' \subseteq Event
      /\ QueuedPending'
  BY <1>2, SameQueues DEF IInv
<1> QED
  BY <1>2, <1>3, <1>4, Together DEF IInv, TypeOK

LEMMA CloseFreeStep ==
  ASSUME IInv, CloseFree
  PROVE  IInv'
<1> DEFINE g == [Top EXCEPT !.pc = "idle", !.ev = None]
<1>1. Top \in Frame /\ FrameOK(Top) /\ IsCode(Top) /\ Top.pc = "unlinked"
  BY TopFacts DEF CloseFree, AtCode, IInv
<1>2. /\ g \in Frame /\ g.kind = Top.kind /\ g.tpl = Top.tpl /\ g.local = Top.local
      /\ g.pc = "idle"
  BY <1>1 DEF Frame, CodePc
<1>3. Continues(g)
  BY <1>1, <1>2 DEF Continues, FrameOK, RestorePc, IsCode
<1>4. /\ stack' = Replace(g) /\ life' = [life EXCEPT ![Top.ev] = "freed"]
      /\ UNCHANGED <<currentTpl, intr, pending, queue, signalList, signalCount,
                     protoReg, closedTpl, late>>
  BY DEF CloseFree
<1> HIDE DEF g
<1>5. StackDiscipline' /\ LevelRestored'
  BY <1>1, <1>2, <1>3, <1>4, CodeReplace
<1>6. /\ queue' \in [Tpl -> Seq(Event)] /\ pending' \subseteq Tpl
      /\ late' \subseteq Event
      /\ QueuedPending'
  BY <1>4, SameQueues DEF IInv
<1> QED
  BY <1>4, <1>5, <1>6, Together DEF IInv, TypeOK

(* The queue of one level is replaced by one with no new elements, and the
   pending bit of the level is kept unless the queue is empty.              *)
LEMMA ShrinkQueue ==
  ASSUME TypeOK, QueuedPending, NEW n \in Tpl, NEW u \in Seq(Event),
         \A i \in DOMAIN u : \E k \in DOMAIN queue[n] : u[i] = queue[n][k],
         \A i, j \in DOMAIN u : u[i] = u[j] => i = j,
         queue' = [queue EXCEPT ![n] = u], pending' = pending
  PROVE  /\ queue' \in [Tpl -> Seq(Event)] /\ pending' \subseteq Tpl
         /\ QueuedPending'
<1>1. queue' \in [Tpl -> Seq(Event)] /\ pending' \subseteq Tpl
  BY DEF TypeOK
<1>2. LevelQueued(u, n, pending')
  <2>1. LevelQueued(queue[n], n, pending)
    BY QueuedByLevel
  <2> QED
    BY <2>1 DEF LevelQueued
<1>3. \A t \in Tpl : queue'[t] = IF t = n THEN u ELSE queue[t]
  BY DEF TypeOK
<1>4. \A t \in Tpl : LevelQueued(queue'[t], t, pending')
  <2> SUFFICES ASSUME NEW t \in Tpl
               PROVE  LevelQueued(queue'[t], t, pending')
    OBVIOUS
  <2>1. LevelQueued(queue[t], t, pending)
    BY QueuedByLevel
  <2> QED
    BY <2>1, <1>2, <1>3
<1> QED
  BY <1>1, <1>4, QueuedByLevelNext

LEMMA CloseEventStep ==
  ASSUME IInv, NEW e \in Event, CloseEvent(e)
  PROVE  IInv'
<1> DEFINE g == [Top EXCEPT !.pc = "unlinked", !.ev = e]
           n == NotifyTpl(e)
           u == Unlink(queue[n], e)
<1>1. /\ Top \in Frame /\ FrameOK(Top) /\ IsCode(Top) /\ Top.pc = "idle"
      /\ Top.tpl <= TPL_NOTIFY /\ currentTpl \in Tpl
  BY TopFacts, CodeLevel DEF CloseEvent, Running, IsCode, IInv, TypeOK
<1>2. /\ g \in Frame /\ g.kind = Top.kind /\ g.tpl = Top.tpl /\ g.local = Top.local
      /\ g.pc = "unlinked" /\ g.ev = e
  BY <1>1 DEF Frame, CodePc
<1>3. Continues(g)
  BY <1>1, <1>2 DEF Continues, FrameOK, RestorePc, IsCode
<1>4. /\ ReleaseEventLock(g, Top.tpl)
      /\ life' = [life EXCEPT ![e] = "closing"]
      /\ closedTpl' = [closedTpl EXCEPT ![e] = currentTpl]
      /\ queue' = [queue EXCEPT ![n] = u]
      /\ signalList' = Unlink(signalList, e)
      /\ UNCHANGED <<pending, signalCount, protoReg, late>>
  BY DEF CloseEvent
<1>5. n \in Tpl /\ queue[n] \in Seq(Event) /\ signalList \in Seq(Event)
  BY NotifyTplType DEF IInv, TypeOK
<1>6. \A i, j \in DOMAIN queue[n] : queue[n][i] = queue[n][j] => i = j
  BY <1>5 DEF IInv, QueuedPending
<1>7. /\ u \in Seq(Event)
      /\ \A i \in DOMAIN u : \E k \in DOMAIN queue[n] : u[i] = queue[n][k]
      /\ \A i, j \in DOMAIN u : u[i] = u[j] => i = j
  BY <1>5, <1>6, UnlinkPoint
<1>8. signalList' \in Seq(Event)
  BY <1>4, <1>5, UnlinkPoint
<1> HIDE DEF g, u
<1>9. /\ StackDiscipline' /\ LevelRestored'
      /\ currentTpl' \in Tpl /\ intr' \in BOOLEAN
  BY <1>1, <1>2, <1>3, <1>4, CodeReleaseEvent
<1>10. /\ queue' \in [Tpl -> Seq(Event)] /\ pending' \subseteq Tpl
       /\ QueuedPending'
  BY <1>4, <1>5, <1>7, ShrinkQueue DEF IInv
<1>11. life' \in [Event -> {"none", "live", "closing", "freed"}]
  BY <1>4 DEF IInv, TypeOK
<1>12. closedTpl' \in [Event -> Tpl]
  BY <1>1, <1>4 DEF IInv, TypeOK
<1> QED
  BY <1>4, <1>8, <1>9, <1>10, <1>11, <1>12, Together DEF IInv, TypeOK

(* The dispatcher releases the lock at the level it dispatches.             *)
LEMMA DispatchRelease ==
  ASSUME IInv, Top.kind = "restore", Top.pc = "take", NEW g \in Frame,
         g.kind = "restore", g.tpl = Top.tpl, g.local = Top.local,
         g.pc = "test" \/ (g.pc = "call" /\ g.ev \in Event),
         ReleaseEventLock(g, Top.local)
  PROVE  /\ StackDiscipline' /\ LevelRestored'
         /\ currentTpl' \in Tpl /\ intr' \in BOOLEAN
<1>1. /\ Top \in Frame /\ FrameOK(Top) /\ Top.local > Top.tpl
      /\ Top.local \in Tpl /\ Top.local \in Int /\ Top.tpl \in Int
  BY TopFacts, FrameTypes DEF IInv, FrameOK
<1>2. FrameOK(g)
  BY <1>1 DEF FrameOK, RestorePc
<1>3. Suits(g, Top.local) /\ g.tpl <= Top.local /\ g.pc # "walk"
  <2>1. g.tpl <= Top.local /\ Top.local >= g.tpl
    BY ONLY <1>1, g.tpl = Top.tpl
  <2>2. CASE g.pc = "test"
    BY <2>1, <2>2 DEF Suits
  <2>3. CASE g.pc = "call"
    BY <2>1, <2>3 DEF Suits
  <2> QED
    BY <2>2, <2>3
<1>4. TPL_HIGH_LEVEL \in Tpl /\ Top.local <= TPL_HIGH_LEVEL
  BY <1>1 DEF Tpl, TPL_HIGH_LEVEL
<1>5. /\ g.kind = Top.kind /\ ReturnTpl(g) = ReturnTpl(Top)
      /\ StackDiscipline /\ intr \in BOOLEAN
  BY DEF ReturnTpl, IInv, TypeOK
<1> QED
  BY <1>1, <1>2, <1>3, <1>4, <1>5, StepRelease DEF ReleaseEventLock

LEMMA TakeEventStep ==
  ASSUME IInv, TakeEvent
  PROVE  IInv'
<1> DEFINE p == Top.local
           q == queue[p]
<1>1. /\ Top \in Frame /\ FrameOK(Top) /\ Top.kind = "restore" /\ Top.pc = "take"
      /\ p \in Tpl
  BY TopFacts, FrameTypes DEF TakeEvent, AtRestore, IInv
<1>2. q \in Seq(Event) /\ DOMAIN q = 1 .. Len(q) /\ Len(q) \in Nat
  BY <1>1, LenProperties DEF IInv, TypeOK
<1>3. CASE q # << >> /\ life[Head(q)] = "freed"
  <2>1. /\ stack' = Goto("freed", p)
        /\ UNCHANGED <<currentTpl, intr, StoredVars>>
    BY <1>3 DEF TakeEvent, StoredVars
  <2> QED
    BY <1>1, <2>1, GotoStep
<1>4. CASE q # << >> /\ life[Head(q)] # "freed"
  <2> DEFINE e == Head(q)
             g == [Top EXCEPT !.pc = "call", !.ev = e]
             u == Tail(q)
  <2>1. /\ queue' = [queue EXCEPT ![p] = u]
        /\ signalCount' = IF ClearedByDispatch(e)
                          THEN [signalCount EXCEPT ![e] = 0] ELSE signalCount
        /\ ReleaseEventLock(g, p)
        /\ UNCHANGED <<pending, signalList, life, protoReg, closedTpl, late>>
    BY <1>4 DEF TakeEvent
  <2>2. /\ e \in Event /\ u \in Seq(Event) /\ Len(u) = Len(q) - 1
        /\ \A i \in 1 .. Len(u) : u[i] = q[i + 1]
    BY <1>2, <1>4, HeadTailProperties
  <2>3. DOMAIN u = 1 .. Len(q) - 1
    BY <2>2, LenProperties
  <2>4. /\ g \in Frame /\ g.kind = "restore" /\ g.tpl = Top.tpl /\ g.local = p
        /\ g.pc = "call" /\ g.ev = e
    BY <1>1, <2>2 DEF Frame, RestorePc
  <2> HIDE DEF g, u, e
  <2>5. /\ StackDiscipline' /\ LevelRestored'
        /\ currentTpl' \in Tpl /\ intr' \in BOOLEAN
    BY <1>1, <2>1, <2>2, <2>4, DispatchRelease
  <2>6. \A i \in DOMAIN u : i + 1 \in DOMAIN q /\ u[i] = q[i + 1] /\ i \in Nat
    BY <1>2, <2>2, <2>3
  <2>7. \A i, j \in DOMAIN q : q[i] = q[j] => i = j
    BY <1>1 DEF IInv, QueuedPending
  <2>8. /\ \A i \in DOMAIN u : \E k \in DOMAIN q : u[i] = q[k]
        /\ \A i, j \in DOMAIN u : u[i] = u[j] => i = j
    BY <2>6, <2>7
  <2>9. /\ queue' \in [Tpl -> Seq(Event)] /\ pending' \subseteq Tpl
        /\ QueuedPending'
    BY <1>1, <2>1, <2>2, <2>8, ShrinkQueue DEF IInv
  <2>10. signalCount' \in [Event -> {0, 1}]
    BY <2>1, <2>2 DEF IInv, TypeOK
  <2> QED
    BY <2>1, <2>5, <2>9, <2>10, Together DEF IInv, TypeOK
<1>5. CASE q = << >>
  <2> DEFINE g == [Top EXCEPT !.pc = "test"]
  <2>1. /\ pending' = pending \ {p}
        /\ ReleaseEventLock(g, p)
        /\ UNCHANGED <<queue, signalCount, signalList, life, protoReg, closedTpl, late>>
    BY <1>5 DEF TakeEvent
  <2>2. /\ g \in Frame /\ g.kind = "restore" /\ g.tpl = Top.tpl /\ g.local = p
        /\ g.pc = "test"
    BY <1>1 DEF Frame, RestorePc
  <2> HIDE DEF g
  <2>3. /\ StackDiscipline' /\ LevelRestored'
        /\ currentTpl' \in Tpl /\ intr' \in BOOLEAN
    BY <1>1, <2>1, <2>2, DispatchRelease
  <2>4. DOMAIN q = {}
    <3>1. Len(q) = 0
      BY <1>5, EmptySeq
    <3> QED
      BY <3>1, <1>2
  <2>5. \A t \in Tpl : LevelQueued(queue'[t], t, pending')
    <3> SUFFICES ASSUME NEW t \in Tpl
                 PROVE  LevelQueued(queue[t], t, pending \ {p})
      BY <2>1
    <3>1. LevelQueued(queue[t], t, pending)
      BY QueuedByLevel DEF IInv
    <3> QED
      BY <3>1, <2>4 DEF LevelQueued
  <2>6. QueuedPending'
    BY <2>5, QueuedByLevelNext
  <2> QED
    BY <2>1, <2>3, <2>6, Together DEF IInv, TypeOK
<1> QED
  BY <1>3, <1>4, <1>5

LEMMA InterruptStep ==
  ASSUME IInv, NEW expired \in BOOLEAN, Interrupt(expired)
  PROVE  IInv'
<1> DEFINE h == CodeFrame("isr", currentTpl, currentTpl)
           r == RestoreFrame(currentTpl)
           s == Append(stack, h)
<1>1. currentTpl \in Tpl /\ currentTpl \in Int
  BY DEF IInv, TypeOK, Tpl, TPL_HIGH_LEVEL
<1>2. /\ h \in Frame /\ FrameOK(h) /\ h.kind = "isr" /\ h.tpl = currentTpl
      /\ h.pc = "idle"
  BY <1>1, CodeFrameOK
<1>3. /\ r \in Frame /\ FrameOK(r) /\ r.kind = "restore" /\ r.tpl = currentTpl
      /\ r.pc = "test" /\ ReturnTpl(r) = currentTpl
      /\ TPL_HIGH_LEVEL >= currentTpl => Suits(r, TPL_HIGH_LEVEL)
  BY <1>1, RestoreFrameOK
<1>4. /\ stack' = Append(s, r) /\ currentTpl' = TPL_HIGH_LEVEL /\ intr' = FALSE
      /\ UNCHANGED <<signalList, life, protoReg, closedTpl>>
  BY DEF Interrupt
<1> HIDE DEF h, r
<1>5. Top.pc # "walk" /\ Suits(Top, currentTpl)
  BY DEF Interrupt, IInv, LevelRestored
<1>6. Top.tpl <= currentTpl
  <2>1. Top \in Frame /\ FrameOK(Top) /\ Top.tpl \in Int /\ Top.local \in Int
    BY TopFacts, FrameTypes DEF IInv
  <2>2. CASE Top.kind = "restore" /\ Top.pc \in {"take", "call"}
    <3>1. currentTpl = Top.local /\ Top.local > Top.tpl
      BY <2>1, <2>2, <1>5 DEF FrameOK, Suits
    <3> QED
      BY ONLY <3>1, <2>1, <1>1
  <2>3. CASE Top.kind = "restore" /\ Top.pc \notin {"take", "call"}
    <3>1. currentTpl >= Top.tpl
      BY <2>3, <1>5 DEF Suits
    <3> QED
      BY ONLY <3>1, <2>1, <1>1
  <2>4. CASE Top.kind # "restore"
    <3>1. currentTpl = Top.tpl
      BY <2>4, <1>5 DEF Suits
    <3> QED
      BY ONLY <3>1, <2>1, <1>1
  <2> QED
    BY <2>2, <2>3, <2>4
<1>7. Pushed(Top, h)
  BY <1>2, <1>5 DEF Pushed, ReturnTpl
<1>8. /\ WellNested(s) /\ Len(s) = Len(stack) + 1 /\ s[Len(s)] = h
  BY <1>2, <1>6, <1>7, PushNested DEF IInv, StackDiscipline, Top
<1> HIDE DEF s
<1>9. Pushed(h, r) /\ h.tpl <= r.tpl
  BY <1>1, <1>2, <1>3 DEF Pushed, Suits
<1>10. /\ WellNested(Append(s, r)) /\ Len(Append(s, r)) = Len(s) + 1
       /\ Append(s, r)[Len(s) + 1] = r
  BY <1>3, <1>8, <1>9, PushNested
<1>11. TPL_HIGH_LEVEL \in Tpl /\ TPL_HIGH_LEVEL >= currentTpl
  BY <1>1 DEF Tpl, TPL_HIGH_LEVEL
<1>12. StackDiscipline' /\ LevelRestored'
  <2>1. Top' = r
    BY <1>4, <1>10 DEF Top
  <2>2. LevelRestored'
    BY <2>1, <1>3, <1>4, <1>11 DEF LevelRestored
  <2> QED
    BY <2>2, <1>4, <1>10 DEF StackDiscipline
<1>13. currentTpl' \in Tpl /\ intr' \in BOOLEAN
  BY ONLY <1>4, <1>11
<1>14. NotifyEvent(TickEvent) \/ UNCHANGED <<queue, pending, late>>
  BY DEF Interrupt
<1>15. /\ queue' \in [Tpl -> Seq(Event)] /\ pending' \subseteq Tpl
       /\ late' \subseteq Event
       /\ QueuedPending'
  BY <1>14, NotifyKeepsQueues, SameQueues, CoreEventAssumption DEF IInv
<1>16. signalCount' \in [Event -> {0, 1}]
  BY DEF Interrupt, IInv, TypeOK
<1> QED
  BY <1>4, <1>12, <1>13, <1>15, <1>16, Together DEF IInv, TypeOK

-----------------------------------------------------------------------------
(* The theorems                                                             *)

LEMMA InitIInv == Init => IInv
<1> SUFFICES ASSUME Init
             PROVE  IInv
  OBVIOUS
<1> DEFINE a == CodeFrame("app", TPL_APPLICATION, TPL_APPLICATION)
<1>1. TPL_APPLICATION \in Tpl
  BY DEF Tpl, TPL_APPLICATION, TPL_HIGH_LEVEL
<1>2. /\ a \in Frame /\ a.kind = "app" /\ a.pc = "idle" /\ a.tpl = TPL_APPLICATION
  BY <1>1, EventAssumption, LenProperties DEF CodeFrame, Frame, CodePc
<1>3. FrameOK(a)
  BY DEF CodeFrame, FrameOK, RestorePc
<1> HIDE DEF a
<1>4. stack = <<a>> /\ currentTpl = TPL_APPLICATION
  BY DEF Init, a
<1>5. stack \in Seq(Frame) /\ Len(stack) = 1 /\ stack[1] = a /\ stack # << >>
  BY <1>2, <1>4
<1>6. StackDiscipline
  BY <1>2, <1>3, <1>5 DEF StackDiscipline, WellNested
<1>7. LevelRestored
  BY <1>2, <1>4, <1>5 DEF LevelRestored, Suits, Top
<1>8. QueuedPending
  BY DEF Init, QueuedPending
<1>9. TypeOK
  <2>1. /\ queue \in [Tpl -> Seq(Event)] /\ signalList \in Seq(Event)
    BY CoreEventAssumption DEF Init
  <2>2. closedTpl \in [Event -> Tpl]
    BY DEF Init, Tpl, TPL_HIGH_LEVEL
  <2>3. life \in [Event -> {"none", "live", "closing", "freed"}]
    BY DEF Init
  <2> QED
    BY <1>1, <1>5, <2>1, <2>2, <2>3 DEF Init, TypeOK
<1> QED
  BY <1>6, <1>7, <1>8, <1>9 DEF IInv

LEMMA NextIInv == IInv /\ [Next]_vars => IInv'
<1> SUFFICES ASSUME IInv, [Next]_vars
             PROVE  IInv'
  OBVIOUS
<1>1. CASE UNCHANGED vars
  BY <1>1 DEF vars, IInv, TypeOK, QueuedPending, StackDiscipline, LevelRestored, Top
<1>2. ASSUME NEW new \in RaiseLevels, RaiseTpl(new)
      PROVE  IInv'
  BY <1>2, RaiseTplStep
<1>3. CASE RestoreTpl \/ TestPending \/ RereadPending \/ LowerToPending
  BY <1>3, RestoreTplStep, TestPendingStep, RereadPendingStep, LowerToPendingStep
<1>4. CASE TakeEvent \/ CallNotify \/ CallFreed \/ NotifyReturn
  BY <1>4, TakeEventStep, CallNotifyStep, CallFreedStep, NotifyReturnStep
<1>5. CASE RestoreExit \/ InterruptReturn
  BY <1>5, RestoreExitStep, InterruptReturnStep
<1>6. ASSUME NEW e \in Event,
             CreateEvent(e) \/ CheckEvent(e) \/ CloseEvent(e)
               \/ RegisterProtocolNotify(e) \/ InstallProtocol(e)
      PROVE  IInv'
  BY <1>6, CreateEventStep, CheckEventStep, CloseEventStep, RegisterStep,
     InstallProtocolStep
<1>7. ASSUME NEW e \in Event, Signal(e)
      PROVE  IInv'
  BY <1>7, SignalEventStep DEF Signal, Running, IsCode
<1>8. CASE WaitIdle
  BY <1>8, SignalEventStep, CoreEventAssumption DEF WaitIdle, AtCode
<1>9. CASE InstallSignal
  <2>1. IsCode(Top) /\ Top.ev \in Event
    BY <1>9, TopFacts DEF InstallSignal, AtCode, IInv, FrameOK
  <2> QED
    BY <1>9, <2>1, SignalEventStep DEF InstallSignal
<1>10. CASE SignalReturn \/ WalkBegin \/ WalkStep \/ WalkEnd \/ GroupSignalled
  BY <1>10, SignalReturnStep, WalkBeginStep, WalkStepStep, WalkEndStep, GroupSignalledStep
<1>11. CASE CheckQueue \/ CheckTest \/ CheckClear \/ WaitForEvent \/ WaitCheck
  BY <1>11, CheckQueueStep, CheckTestStep, CheckClearStep, WaitForEventStep, WaitCheckStep
<1>12. CASE CloseUnregister \/ CloseFree
  BY <1>12, CloseUnregisterStep, CloseFreeStep
<1>13. ASSUME NEW expired \in BOOLEAN, Interrupt(expired)
       PROVE  IInv'
  BY <1>13, InterruptStep
<1> QED
  BY <1>1, <1>2, <1>3, <1>4, <1>5, <1>6, <1>7, <1>8, <1>9, <1>10, <1>11, <1>12, <1>13
     DEF Next, CpuStep

(* A notification runs above the dispatcher of its own level, which runs above
   everything below it.                                                     *)
LEMMA NestedNoReentry == StackDiscipline => NoReentry
<1> SUFFICES ASSUME StackDiscipline,
                    NEW i \in DOMAIN stack, NEW j \in DOMAIN stack, i < j,
                    stack[i].kind = "notify", stack[j].kind = "notify"
             PROVE  stack[i].tpl < stack[j].tpl
  BY DEF NoReentry
<1>1. /\ stack \in Seq(Frame) /\ DOMAIN stack = 1 .. Len(stack) /\ Len(stack) \in Nat
  BY LenProperties DEF StackDiscipline, WellNested
<1>2. i \in 1 .. Len(stack) /\ j - 1 \in 1 .. Len(stack) - 1 /\ (j - 1) + 1 = j
      /\ j - 1 \in 1 .. Len(stack)
  BY <1>1
<1>3. Pushed(stack[j - 1], stack[(j - 1) + 1]) /\ FrameOK(stack[j - 1])
  BY <1>2 DEF StackDiscipline, WellNested
<1>4. stack[j].tpl = stack[j - 1].local /\ stack[j - 1].local > stack[j - 1].tpl
  BY <1>2, <1>3 DEF Pushed, Suits, ReturnTpl, FrameOK
<1>5. stack[i] \in Frame /\ stack[j - 1] \in Frame /\ stack[j] \in Frame
  BY <1>1, <1>2, ElementOfSeq
<1>6. /\ stack[i].tpl \in Int /\ stack[j - 1].tpl \in Int /\ stack[j - 1].local \in Int
  BY <1>5, FrameTypes
<1>7. i = j - 1 \/ stack[i].tpl <= stack[j - 1].tpl
  BY <1>1, <1>2 DEF StackDiscipline, WellNested
<1> QED
  BY <1>4, <1>6, <1>7

LEMMA SpecIInv == Spec => []IInv
BY InitIInv, NextIInv, PTL DEF Spec

(* The variables of the DXE core's event code keep their types, whatever
   events are created and however calls and interrupts nest.                *)
THEOREM TypeCorrect == Spec => []TypeOK
BY SpecIInv, PTL DEF IInv

(* No notification function is re-entered: CoreRestoreTpl dispatches a level
   only above everything that is running.                                   *)
THEOREM NoReentryHolds == Spec => []NoReentry
<1>1. IInv => NoReentry
  BY NestedNoReentry DEF IInv
<1> QED
  BY <1>1, SpecIInv, PTL

(* The queues of CoreNotifyEvent and gEventPending agree: a queued event is
   queued once, at its own level, and the level's pending bit is set.       *)
THEOREM QueuedPendingHolds == Spec => []QueuedPending
BY SpecIInv, PTL DEF IInv

(* The ASSERTs on levels hold: every activation continues at the level it
   relies on.                                                               *)
THEOREM LevelRestoredHolds == Spec => []LevelRestored
BY SpecIInv, PTL DEF IInv

=============================================================================
