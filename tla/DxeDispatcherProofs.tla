------------------------ MODULE DxeDispatcherProofs -------------------------
(***************************************************************************)
(* Theorems about DxeDispatcher, for all volumes, files and dependency      *)
(* expressions: every discovered driver is in one state and on each list    *)
(* once, drivers are started in the order BEFORE and AFTER ask for, and     *)
(* none that hangs on a scheduled driver is left behind.                    *)
(***************************************************************************)
EXTENDS DxeDispatcher, ListLemmas, FiniteSetTheorems

-----------------------------------------------------------------------------
(* The inductive invariant                                                  *)

Found == ToSet(discovered)

(* Lists hold an entry once; what is queued was discovered, and what was
   discovered is in a volume that has been processed.                       *)
ListsKept ==
  /\ IsInjective(discovered) /\ IsInjective(queue)
  /\ ToSet(queue) \subseteq Found
  /\ \A e \in Found : \E fv \in processed : e \in ToSet(Files[fv])

(* A driver entry before its discovery, and after: in one of its states, unless
   it is one of the a priori drivers that are in two.                       *)
Fresh(e, r) ==
  /\ ~r.dependent /\ ~r.unrequested /\ ~r.scheduled /\ ~r.untrusted
  /\ ~r.initialized /\ ~r.protocolError /\ ~r.before /\ ~r.after
  /\ r.depex \in Depexes[e] /\ r.image = None
Unread(r) == r.dependent \/ r.unrequested \/ r.protocolError
Put(r)    == r.scheduled \/ r.untrusted \/ r.initialized
InOneState(r) ==
  /\ Unread(r) \/ Put(r)
  /\ r.dependent => ~r.unrequested /\ ~r.protocolError
  /\ r.unrequested => ~r.protocolError
  /\ r.scheduled => ~r.untrusted /\ ~r.initialized
  /\ r.untrusted => ~r.initialized
  /\ ~(Unread(r) /\ Put(r))
  /\ Unread(r) => r.image = None
Sound(e, r) == e \notin Odd => InOneState(r)

(* What Before and After say of the expression, which Schedulable leaves as it
   is; an entry whose expression has yet to be read has neither.            *)
Hangs(r) == r.before \/ r.after
DepexRead(r) ==
  /\ r.depex # None => r.depex # <<>>
  /\ r.before => r.depex # None /\ r.depex[1].op = "BEFORE"
  /\ r.after => r.depex # None /\ r.depex[1].op = "AFTER"
  /\ r.protocolError => ~Hangs(r) /\ ~r.dependent /\ ~r.unrequested
ImageKept(r) == r.untrusted => r.image = "violation"
DriversKept ==
  /\ \A e \in Entries : e \notin Found => Fresh(e, driver[e])
  /\ \A e \in Found : Sound(e, driver[e])
  /\ \A e \in Entries : DepexRead(driver[e]) /\ ImageKept(driver[e])
  /\ \A e \in Entries : driver[e].scheduled <=> e \in ToSet(queue)

(* The entry CoreDispatcher is at.                                          *)
EntryKept ==
  /\ d.pc = "loaded" => /\ queue # <<>> /\ d.entry = queue[1]
                        /\ d.status = "violation" =>
                             driver[d.entry].image = "violation"
  /\ d.pc = "start" => d.entry \in Found /\ driver[d.entry].initialized
  /\ d.pc = "evaluate" => /\ d.entry \in Found /\ driver[d.entry].dependent
                          /\ ~Hangs(driver[d.entry])

(* The recursion over BEFORE and AFTER: each frame is for an entry that hangs on
   the entry of the frame below it, so no entry has two frames.             *)
FrameKept(k) ==
  LET f == d.frames[k]
      r == driver[f.entry]
  IN  /\ f.entry \in Found
      /\ f.phase = "after" => Put(r)
      /\ f.phase # "after" => r.dependent
      /\ k < Len(d.frames) => f.phase # "put"
      /\ k = 1 => ~Hangs(r)
      /\ k > 1 => /\ Hangs(r) /\ Target(f.entry) = d.frames[k - 1].entry
                  /\ d.frames[k - 1].phase = "before" => r.before
                  /\ d.frames[k - 1].phase = "after" => r.after
FramesKept ==
  /\ \A k \in DOMAIN d.frames : FrameKept(k)
  /\ \A j, k \in DOMAIN d.frames :
       d.frames[j].entry = d.frames[k].entry => j = k

(* A driver whose Trust is under way is Untrusted, or another Trust has put it on
   the queue; none else is linked twice but the odd ones.                   *)
TrustKept ==
  /\ \A k \in DOMAIN trusting :
       /\ trusting[k] \in Found
       /\ driver[trusting[k]].untrusted \/ driver[trusting[k]].scheduled
  /\ ~Whole => broken \in Odd \/ (trusting # <<>> /\ Last(trusting) = broken)

IInv == TypeOK /\ ListsKept /\ DriversKept /\ EntryKept /\ FramesKept

(* The order of starting.  x may be started before y: y is not BEFORE x, and x
   is not AFTER y.                                                          *)
Free(e) == e \notin AprioriEntries
MayPrecede(x, y) ==
  x \notin Odd /\ y \notin Odd =>
    /\ Free(y) /\ driver[y].before => Target(y) # x
    /\ Free(x) /\ driver[x].after => Target(x) # y

(* An image that was loaded with a security violation is not started.       *)
Live(e) == driver[e].image # "violation"

(* One that was scheduled because it hangs on another: not on itself, and if
   AFTER it, the other was scheduled.                                       *)
HangsOnPut ==
  \A e \in Found :
    Free(e) /\ Put(driver[e]) /\ Hangs(driver[e]) =>
      /\ Target(e) # e
      /\ driver[e].after => Target(e) \in Found /\ Put(driver[Target(e)])
InOrder ==
  /\ \A e \in ToSet(started) : e \in Found /\ driver[e].initialized
  /\ \A i, j \in DOMAIN started : i < j => MayPrecede(started[i], started[j])
  /\ \A x \in ToSet(started), y \in ToSet(queue) : Live(y) => MayPrecede(x, y)
  /\ \A i, j \in DOMAIN queue :
       i < j /\ Live(queue[i]) /\ Live(queue[j]) => MayPrecede(queue[i], queue[j])
  /\ d.pc = "start" /\ Live(d.entry) =>
       /\ \A x \in ToSet(started) : MayPrecede(x, d.entry)
       /\ \A y \in ToSet(queue) : Live(y) => MayPrecede(d.entry, y)
OInv == HangsOnPut /\ InOrder

(* What the loops over the discovered entries have passed: as long as no
   callback interferes, nothing wanted is left behind.                      *)
LeftBefore(e, x) == driver[x].dependent /\ driver[x].before /\ Target(x) = e
LeftAfter(e, x)  == driver[x].dependent /\ driver[x].after /\ Target(x) = e
Passed(k, i) == k < Len(d.frames) /\ d.frames[k + 1].entry = discovered[i]
FramePassed(k) ==
  LET f == d.frames[k]
  IN  \A i \in DOMAIN discovered : discovered[i] # f.entry =>
        /\ LeftBefore(f.entry, discovered[i]) =>
             f.phase = "before" /\ (i < f.link => Passed(k, i))
        /\ LeftAfter(f.entry, discovered[i]) =>
             (f.phase = "after" /\ i < f.link => Passed(k, i))
PutDone(k) == d.frames[k].phase = "after" => ~driver[d.frames[k].entry].dependent
CInv ==
  ~disturbed =>
    /\ d.pc \in {"search", "evaluate", "insert"} => Quiet
    /\ \A k \in DOMAIN d.frames : FramePassed(k) /\ PutDone(k)

-----------------------------------------------------------------------------
(* Lists                                                                    *)

(* Selected is what it is defined to be: the recursion has a solution.      *)
Picks(s, S) ==
  CHOOSE pick : pick = [k \in 0 .. Len(s) |->
                          IF k = 0 THEN <<>>
                          ELSE IF s[k] \in S THEN Append(pick[k - 1], s[k])
                          ELSE pick[k - 1]]
LEMMA SelectedEquation ==
  ASSUME NEW E, NEW s \in Seq(E), NEW S
  PROVE  /\ Selected(s, S) = Picks(s, S)[Len(s)]
         /\ Picks(s, S) = [k \in 0 .. Len(s) |->
                             IF k = 0 THEN <<>>
                             ELSE IF s[k] \in S THEN Append(Picks(s, S)[k - 1], s[k])
                             ELSE Picks(s, S)[k - 1]]
<1> DEFINE Body(f, n) == [k \in 0 .. n |->
                            IF k = 0 THEN <<>>
                            ELSE IF s[k] \in S THEN Append(f[k - 1], s[k])
                            ELSE f[k - 1]]
           Solved == {n \in Nat : \E f : f = Body(f, n)}
<1>1. 0 \in Solved
  <2>1. [k \in 0 .. 0 |-> <<>>] = Body([k \in 0 .. 0 |-> <<>>], 0)
    OBVIOUS
  <2> QED
    BY <2>1
<1>2. ASSUME NEW n \in Nat, n \in Solved PROVE n + 1 \in Solved
  <2>1. PICK f : f = Body(f, n)
    BY <1>2
  <2> DEFINE last == IF s[n + 1] \in S THEN Append(f[n], s[n + 1]) ELSE f[n]
             g == [k \in 0 .. n + 1 |-> IF k <= n THEN f[k] ELSE last]
  <2>2. \A k \in 0 .. n : g[k] = f[k]
    OBVIOUS
  <2>3. g[n + 1] = last
    OBVIOUS
  <2>4. \A k \in 0 .. n : f[k] = IF k = 0 THEN <<>>
                                  ELSE IF s[k] \in S THEN Append(f[k - 1], s[k])
                                  ELSE f[k - 1]
    BY <2>1
  <2>5. g \in [0 .. n + 1 -> {g[k] : k \in 0 .. n + 1}]
    OBVIOUS
  <2> HIDE DEF g
  <2>6. \A k \in 0 .. n + 1 : g[k] = IF k = 0 THEN <<>>
                                      ELSE IF s[k] \in S THEN Append(g[k - 1], s[k])
                                      ELSE g[k - 1]
    <3> SUFFICES ASSUME NEW k \in 0 .. n + 1
                 PROVE  g[k] = IF k = 0 THEN <<>>
                               ELSE IF s[k] \in S THEN Append(g[k - 1], s[k])
                               ELSE g[k - 1]
      OBVIOUS
    <3>1. CASE k = 0
      BY <2>2, <2>4, <3>1
    <3>2. CASE k \in 1 .. n
      BY <2>2, <2>4, <3>2
    <3>3. CASE k = n + 1
      <4>1. k # 0 /\ k - 1 = n /\ n \in 0 .. n
        BY <3>3
      <4>2. g[k - 1] = f[n]
        BY <2>2, <4>1
      <4> QED
        BY <2>3, <3>3, <4>1, <4>2
    <3> QED
      BY <3>1, <3>2, <3>3
  <2>7. g = Body(g, n + 1)
    BY <2>5, <2>6
  <2> QED
    BY <2>7
<1> HIDE DEF Solved
<1>3. Nat \subseteq Solved
  BY <1>1, <1>2, Induction
<1>4. Len(s) \in Nat
  BY LenProperties
<1>5. PICK f : f = Body(f, Len(s))
  BY <1>3, <1>4 DEF Solved
<1>6. Picks(s, S) = Body(Picks(s, S), Len(s))
  BY <1>5, Zenon DEF Picks
<1>7. Selected(s, S) = Picks(s, S)[Len(s)]
  BY Zenon DEF Selected, Picks
<1> QED
  BY <1>6, <1>7

(* The elements of Selected.                                                *)
LEMMA SelectedIs ==
  ASSUME NEW E, NEW s \in Seq(E), NEW S
  PROVE  /\ Selected(s, S) \in Seq(E)
         /\ \A x : x \in ToSet(Selected(s, S)) <=> x \in ToSet(s) /\ x \in S
         /\ IsInjective(s) => IsInjective(Selected(s, S))
<1> DEFINE pick == Picks(s, S)
<1>1. /\ Selected(s, S) = pick[Len(s)]
      /\ pick = [k \in 0 .. Len(s) |->
                   IF k = 0 THEN <<>>
                   ELSE IF s[k] \in S THEN Append(pick[k - 1], s[k])
                   ELSE pick[k - 1]]
  BY SelectedEquation
<1> HIDE DEF pick
<1>2. Len(s) \in Nat /\ DOMAIN s = 1 .. Len(s) /\ \A k \in 1 .. Len(s) : s[k] \in E
  BY LenProperties, ElementOfSeq
<1> DEFINE Good(n) ==
             /\ pick[n] \in Seq(E)
             /\ \A i \in DOMAIN pick[n] : \E k \in 1 .. n : pick[n][i] = s[k] /\ s[k] \in S
             /\ \A k \in 1 .. n : s[k] \in S =>
                  \E i \in DOMAIN pick[n] : pick[n][i] = s[k]
             /\ IsInjective(s) => IsInjective(pick[n])
           Reached == {n \in Nat : n <= Len(s) => Good(n)}
<1>3. 0 \in Reached
  <2>1. pick[0] = <<>>
    BY <1>1, <1>2
  <2>2. <<>> \in Seq(E) /\ DOMAIN <<>> = {}
    OBVIOUS
  <2> DEFINE t == pick[0]
  <2>3. t \in Seq(E) /\ DOMAIN t = {}
    BY <2>1, <2>2
  <2> HIDE DEF t
  <2>4. IsInjective(t) /\ 1 .. 0 = {}
    BY <2>3 DEF IsInjective
  <2>5. /\ t \in Seq(E)
        /\ \A i \in DOMAIN t : \E k \in 1 .. 0 : t[i] = s[k] /\ s[k] \in S
        /\ \A k \in 1 .. 0 : s[k] \in S => \E i \in DOMAIN t : t[i] = s[k]
        /\ IsInjective(s) => IsInjective(t)
    BY <2>3, <2>4
  <2> QED
    BY <2>5 DEF t
<1>4. ASSUME NEW n \in Nat, n \in Reached, n + 1 <= Len(s)
      PROVE  Good(n + 1)
  <2>0. n + 1 \in 1 .. Len(s) /\ n + 1 \in 0 .. Len(s) /\ n + 1 # 0 /\ (n + 1) - 1 = n
    BY <1>2, <1>4
  <2>1. Good(n)
    BY <1>2, <1>4
  <2> DEFINE t == pick[n]
             u == pick[n + 1]
             x == s[n + 1]
  <2>2. u = IF x \in S THEN Append(t, x) ELSE t
    BY <1>1, <2>0
  <2>3. x \in E
    BY <1>2, <2>0
  <2>4. /\ t \in Seq(E)
        /\ \A i \in DOMAIN t : \E k \in 1 .. n : t[i] = s[k] /\ s[k] \in S
        /\ \A k \in 1 .. n : s[k] \in S => \E i \in DOMAIN t : t[i] = s[k]
        /\ IsInjective(s) => IsInjective(t)
    BY <2>1
  <2>5. \A k \in 1 .. n + 1 : k \in 1 .. n \/ k = n + 1
    OBVIOUS
  <2>6. 1 .. n \subseteq 1 .. n + 1
    OBVIOUS
  <2> HIDE DEF t, u, x
  <2>7. CASE x \notin S
    <3>1. u = t /\ ~(s[n + 1] \in S)
      BY <2>2, <2>7 DEF x
    <3>2. /\ u \in Seq(E)
          /\ \A i \in DOMAIN u : \E k \in 1 .. n + 1 : u[i] = s[k] /\ s[k] \in S
          /\ \A k \in 1 .. n + 1 : s[k] \in S => \E i \in DOMAIN u : u[i] = s[k]
          /\ IsInjective(s) => IsInjective(u)
      BY <3>1, <2>4, <2>5, <2>6
    <3> QED
      BY <3>2 DEF u
  <2>8. CASE x \in S
    <3>1. /\ u \in Seq(E) /\ Len(t) \in Nat /\ Len(u) = Len(t) + 1
          /\ DOMAIN t = 1 .. Len(t) /\ DOMAIN u = 1 .. Len(t) + 1
          /\ \A i \in 1 .. Len(t) : u[i] = t[i]
          /\ u[Len(t) + 1] = x
      BY <2>2, <2>3, <2>4, <2>8, AppendProperties, LenProperties
    <3>2. \A i \in 1 .. Len(t) + 1 : i \in 1 .. Len(t) \/ i = Len(t) + 1
      BY <3>1
    <3>3. \A i \in DOMAIN u : \E k \in 1 .. n + 1 : u[i] = s[k] /\ s[k] \in S
      BY <3>1, <3>2, <2>4, <2>5, <2>6, <2>8 DEF x
    <3>4. \A k \in 1 .. n + 1 : s[k] \in S => \E i \in DOMAIN u : u[i] = s[k]
      <4> SUFFICES ASSUME NEW k \in 1 .. n + 1, s[k] \in S
                   PROVE  \E i \in DOMAIN u : u[i] = s[k]
        OBVIOUS
      <4>1. CASE k \in 1 .. n
        <5>1. PICK i \in DOMAIN t : t[i] = s[k]
          BY <4>1, <2>4
        <5> QED
          BY <5>1, <3>1
      <4>2. CASE k = n + 1
        BY <4>2, <3>1 DEF x
      <4> QED
        BY <4>1, <4>2, <2>5
    <3>5. ASSUME IsInjective(s) PROVE IsInjective(u)
      <4>1. \A i \in 1 .. Len(t) : t[i] # x
        <5> SUFFICES ASSUME NEW i \in 1 .. Len(t), t[i] = x PROVE FALSE
          OBVIOUS
        <5>1. PICK k \in 1 .. n : t[i] = s[k]
          BY <2>4, <3>1
        <5>2. k \in DOMAIN s /\ n + 1 \in DOMAIN s /\ k # n + 1
          BY <1>2, <2>0
        <5> QED
          BY <5>1, <5>2, <3>5 DEF IsInjective, x
      <4>2. \A i, j \in 1 .. Len(t) : t[i] = t[j] => i = j
        BY <2>4, <3>1, <3>5 DEF IsInjective
      <4> QED
        BY <3>1, <3>2, <4>1, <4>2 DEF IsInjective
    <3> QED
      BY <3>1, <3>3, <3>4, <3>5 DEF u
  <2> QED
    BY <2>7, <2>8
<1> HIDE DEF Good
<1>5. \A n \in Nat : n \in Reached => n + 1 \in Reached
  BY <1>4
<1> HIDE DEF Reached
<1>6. Nat \subseteq Reached
  BY <1>3, <1>5, Induction
<1>7. Good(Len(s))
  BY <1>2, <1>6 DEF Reached
<1> DEFINE t == Selected(s, S)
<1>8. t = pick[Len(s)]
  BY <1>1
<1> HIDE DEF t
<1>9. /\ t \in Seq(E)
      /\ \A i \in DOMAIN t : \E k \in DOMAIN s : t[i] = s[k] /\ s[k] \in S
      /\ \A k \in DOMAIN s : s[k] \in S => \E i \in DOMAIN t : t[i] = s[k]
      /\ IsInjective(s) => IsInjective(t)
  <2>1. /\ pick[Len(s)] \in Seq(E)
        /\ \A i \in DOMAIN pick[Len(s)] :
             \E k \in 1 .. Len(s) : pick[Len(s)][i] = s[k] /\ s[k] \in S
        /\ \A k \in 1 .. Len(s) : s[k] \in S =>
             \E i \in DOMAIN pick[Len(s)] : pick[Len(s)][i] = s[k]
        /\ IsInjective(s) => IsInjective(pick[Len(s)])
    BY <1>7 DEF Good
  <2>2. DOMAIN s = 1 .. Len(s)
    BY <1>2
  <2> QED
    BY <2>1, <2>2, <1>8
<1>10. ASSUME NEW x PROVE x \in ToSet(t) <=> x \in ToSet(s) /\ x \in S
  <2>1. ASSUME x \in ToSet(t) PROVE x \in ToSet(s) /\ x \in S
    <3>1. PICK i \in DOMAIN t : t[i] = x
      BY <2>1 DEF ToSet
    <3> QED
      BY <3>1, <1>9 DEF ToSet
  <2>2. ASSUME x \in ToSet(s), x \in S PROVE x \in ToSet(t)
    <3>1. PICK k \in DOMAIN s : s[k] = x
      BY <2>2 DEF ToSet
    <3> QED
      BY <3>1, <2>2, <1>9 DEF ToSet
  <2> QED
    BY <2>1, <2>2
<1> QED
  BY <1>9, <1>10 DEF t

(* A sequence as a list.                                                    *)
LEMMA ListIs ==
  ASSUME NEW S, NEW s \in Seq(S)
  PROVE  /\ Len(s) \in Nat /\ DOMAIN s = 1 .. Len(s)
         /\ \A i \in 1 .. Len(s) : s[i] \in S
         /\ ToSet(s) \subseteq S
         /\ \A x : x \in ToSet(s) <=> \E i \in 1 .. Len(s) : s[i] = x
<1>1. Len(s) \in Nat /\ DOMAIN s = 1 .. Len(s) /\ \A i \in 1 .. Len(s) : s[i] \in S
  BY LenProperties, ElementOfSeq
<1> QED
  BY <1>1 DEF ToSet

(* InsertTailList.                                                          *)
LEMMA ListAppend ==
  ASSUME NEW S, NEW s \in Seq(S), NEW x \in S
  PROVE  /\ Append(s, x) \in Seq(S) /\ Len(Append(s, x)) = Len(s) + 1
         /\ \A i \in 1 .. Len(s) : Append(s, x)[i] = s[i]
         /\ Append(s, x)[Len(s) + 1] = x
         /\ DOMAIN Append(s, x) = 1 .. Len(s) + 1
         /\ ToSet(Append(s, x)) = ToSet(s) \cup {x}
         /\ IsInjective(s) /\ x \notin ToSet(s) => IsInjective(Append(s, x))
<1> DEFINE t == Append(s, x)
<1>1. /\ t \in Seq(S) /\ Len(t) = Len(s) + 1
      /\ \A i \in 1 .. Len(s) : t[i] = s[i]
      /\ t[Len(s) + 1] = x
  BY AppendProperties
<1>2. /\ Len(s) \in Nat /\ DOMAIN s = 1 .. Len(s)
      /\ \A y : y \in ToSet(s) <=> \E i \in 1 .. Len(s) : s[i] = y
  BY ListIs
<1> HIDE DEF t
<1>3. /\ DOMAIN t = 1 .. Len(s) + 1
      /\ \A y : y \in ToSet(t) <=> \E i \in 1 .. Len(t) : t[i] = y
  BY <1>1, ListIs
<1>4. \A i \in 1 .. Len(s) + 1 : i \in 1 .. Len(s) \/ i = Len(s) + 1
  BY <1>2
<1>5. \A i \in 1 .. Len(s) : i \in 1 .. Len(s) + 1
  BY <1>2
<1>6. Len(s) + 1 \in 1 .. Len(s) + 1
  BY <1>2
<1>7. \A y : y \in ToSet(t) <=> y \in ToSet(s) \/ y = x
  BY ONLY <1>1, <1>2, <1>3, <1>4, <1>5, <1>6
<1>8. ASSUME IsInjective(s), x \notin ToSet(s) PROVE IsInjective(t)
  <2>1. \A i, j \in 1 .. Len(s) : s[i] = s[j] => i = j
    BY <1>2, <1>8 DEF IsInjective
  <2>2. \A i \in 1 .. Len(s) : s[i] # x
    BY <1>2, <1>8
  <2> QED
    BY <2>1, <2>2, <1>1, <1>3, <1>4 DEF IsInjective
<1> QED
  BY <1>1, <1>3, <1>7, <1>8 DEF t

(* A list added to the end of another.                                      *)
LEMMA ListConcat ==
  ASSUME NEW S, NEW s \in Seq(S), NEW t \in Seq(S)
  PROVE  /\ s \o t \in Seq(S) /\ Len(s \o t) = Len(s) + Len(t)
         /\ \A i \in 1 .. Len(s) : (s \o t)[i] = s[i]
         /\ \A i \in 1 .. Len(t) : (s \o t)[Len(s) + i] = t[i]
         /\ \A i \in 1 .. Len(s) + Len(t) :
              \/ i \in 1 .. Len(s) /\ (s \o t)[i] = s[i]
              \/ i - Len(s) \in 1 .. Len(t) /\ (s \o t)[i] = t[i - Len(s)]
         /\ ToSet(s \o t) = ToSet(s) \cup ToSet(t)
         /\ /\ IsInjective(s) /\ IsInjective(t) /\ ToSet(s) \cap ToSet(t) = {}
            => IsInjective(s \o t)
<1> DEFINE u == s \o t
<1>1. /\ u \in Seq(S) /\ Len(u) = Len(s) + Len(t)
      /\ \A i \in 1 .. Len(s) + Len(t) :
           u[i] = IF i <= Len(s) THEN s[i] ELSE t[i - Len(s)]
  BY ConcatProperties
<1>2. /\ Len(s) \in Nat /\ DOMAIN s = 1 .. Len(s)
      /\ \A y : y \in ToSet(s) <=> \E i \in 1 .. Len(s) : s[i] = y
  BY ListIs
<1>3. /\ Len(t) \in Nat /\ DOMAIN t = 1 .. Len(t)
      /\ \A y : y \in ToSet(t) <=> \E i \in 1 .. Len(t) : t[i] = y
  BY ListIs
<1> HIDE DEF u
<1>4. /\ DOMAIN u = 1 .. Len(u)
      /\ \A y : y \in ToSet(u) <=> \E i \in 1 .. Len(u) : u[i] = y
  BY <1>1, ListIs
<1>5. \A i \in 1 .. Len(s) : i \in 1 .. Len(s) + Len(t) /\ u[i] = s[i]
  BY <1>1, <1>2, <1>3
<1>6. \A i \in 1 .. Len(t) : /\ Len(s) + i \in 1 .. Len(s) + Len(t)
                             /\ u[Len(s) + i] = t[i]
  <2> SUFFICES ASSUME NEW i \in 1 .. Len(t)
               PROVE  /\ Len(s) + i \in 1 .. Len(s) + Len(t)
                      /\ u[Len(s) + i] = t[i]
    OBVIOUS
  <2>1. /\ Len(s) + i \in 1 .. Len(s) + Len(t)
        /\ ~(Len(s) + i <= Len(s)) /\ (Len(s) + i) - Len(s) = i
    BY <1>2, <1>3
  <2> QED
    BY <1>1, <2>1
<1>7. ASSUME NEW i \in 1 .. Len(s) + Len(t)
      PROVE  \/ i \in 1 .. Len(s) /\ u[i] = s[i]
             \/ i - Len(s) \in 1 .. Len(t) /\ u[i] = t[i - Len(s)]
  BY <1>1, <1>2, <1>3
<1>8. \A y : y \in ToSet(u) <=> y \in ToSet(s) \/ y \in ToSet(t)
  <2> SUFFICES ASSUME NEW y PROVE y \in ToSet(u) <=> y \in ToSet(s) \/ y \in ToSet(t)
    OBVIOUS
  <2>1. ASSUME y \in ToSet(u) PROVE y \in ToSet(s) \/ y \in ToSet(t)
    <3>1. PICK i \in 1 .. Len(s) + Len(t) : u[i] = y
      BY <2>1, <1>1, <1>4
    <3> QED
      BY <3>1, <1>7, <1>2, <1>3
  <2>2. ASSUME y \in ToSet(s) \/ y \in ToSet(t) PROVE y \in ToSet(u)
    BY <2>2, <1>1, <1>2, <1>3, <1>4, <1>5, <1>6
  <2> QED
    BY <2>1, <2>2
<1>9. ASSUME IsInjective(s), IsInjective(t), ToSet(s) \cap ToSet(t) = {}
      PROVE  IsInjective(u)
  <2>1. \A i, j \in 1 .. Len(s) : s[i] = s[j] => i = j
    BY <1>2, <1>9 DEF IsInjective
  <2>2. \A i, j \in 1 .. Len(t) : t[i] = t[j] => i = j
    BY <1>3, <1>9 DEF IsInjective
  <2>3. \A i \in 1 .. Len(s), j \in 1 .. Len(t) : s[i] # t[j]
    BY <1>2, <1>3, <1>9
  <2>4. ASSUME NEW i \in 1 .. Len(u), NEW j \in 1 .. Len(u), u[i] = u[j]
        PROVE  i = j
    <3>1. /\ \/ i \in 1 .. Len(s) /\ u[i] = s[i]
             \/ i - Len(s) \in 1 .. Len(t) /\ u[i] = t[i - Len(s)]
          /\ \/ j \in 1 .. Len(s) /\ u[j] = s[j]
             \/ j - Len(s) \in 1 .. Len(t) /\ u[j] = t[j - Len(s)]
      BY <1>1, <1>7
    <3>2. i = j \/ i - Len(s) = j - Len(s)
      BY <3>1, <2>1, <2>2, <2>3, <2>4
    <3> QED
      BY <3>2, <1>1, <1>2, <1>3
  <2> QED
    BY <2>4, <1>4 DEF IsInjective
<1> QED
  BY <1>1, <1>5, <1>6, <1>7, <1>8, <1>9 DEF u

(* RemoveEntryList of the first entry.                                      *)
LEMMA ListUnlinked ==
  ASSUME NEW S, NEW s \in Seq(S), IsInjective(s), s # <<>>
  PROVE  /\ Unlinked(s, s[1]) \in Seq(S)
         /\ Len(Unlinked(s, s[1])) = Len(s) - 1
         /\ DOMAIN Unlinked(s, s[1]) = 1 .. Len(s) - 1
         /\ \A i \in 1 .. Len(s) - 1 : Unlinked(s, s[1])[i] = s[i + 1]
         /\ ToSet(Unlinked(s, s[1])) = ToSet(s) \ {s[1]}
         /\ IsInjective(Unlinked(s, s[1]))
<1>1. /\ Len(s) \in Nat /\ Len(s) # 0 /\ DOMAIN s = 1 .. Len(s)
      /\ \A y : y \in ToSet(s) <=> \E i \in 1 .. Len(s) : s[i] = y
  BY ListIs, EmptySeq
<1>2. \A i, j \in 1 .. Len(s) : s[i] = s[j] => i = j
  BY <1>1 DEF IsInjective
<1>3. 1 \in 1 .. Len(s)
  BY <1>1
<1> DEFINE k == CHOOSE i \in DOMAIN s : s[i] = s[1]
<1>4. k \in DOMAIN s /\ s[k] = s[1]
  BY <1>1, <1>3
<1> HIDE DEF k
<1>5. k = 1
  BY <1>1, <1>2, <1>3, <1>4
<1> DEFINE t == Unlinked(s, s[1])
<1>6. t = RemoveAt(s, 1)
  BY <1>5 DEF Unlinked, k
<1>7. /\ RemoveAt(s, 1) \in Seq(S) /\ Len(RemoveAt(s, 1)) = Len(s) - 1
      /\ \A i \in 1 .. Len(s) - 1 :
           RemoveAt(s, 1)[i] = IF i < 1 THEN s[i] ELSE s[i + 1]
  BY <1>3, RemoveAtPoint
<1> HIDE DEF t
<1>8. /\ t \in Seq(S) /\ Len(t) = Len(s) - 1
      /\ \A i \in 1 .. Len(s) - 1 : i + 1 \in 1 .. Len(s) /\ t[i] = s[i + 1]
  <2>1. \A i \in 1 .. Len(s) - 1 : ~(i < 1) /\ i + 1 \in 1 .. Len(s)
    BY <1>1
  <2> QED
    BY ONLY <1>6, <1>7, <2>1
<1>9. /\ DOMAIN t = 1 .. Len(s) - 1
      /\ \A y : y \in ToSet(t) <=> \E i \in 1 .. Len(t) : t[i] = y
  BY <1>8, ListIs
<1>10. IsInjective(t)
  BY <1>1, <1>2, <1>8, <1>9 DEF IsInjective
<1>11. ASSUME NEW y PROVE y \in ToSet(t) <=> y \in ToSet(s) /\ y # s[1]
  <2>1. ASSUME y \in ToSet(t) PROVE y \in ToSet(s) /\ y # s[1]
    <3>1. PICK i \in 1 .. Len(s) - 1 : t[i] = y
      BY <2>1, <1>8, <1>9
    <3>2. i + 1 \in 1 .. Len(s) /\ s[i + 1] = y /\ i + 1 # 1
      BY <3>1, <1>1, <1>8
    <3> QED
      BY <3>2, <1>1, <1>2, <1>3
  <2>2. ASSUME y \in ToSet(s), y # s[1] PROVE y \in ToSet(t)
    <3>1. PICK i \in 1 .. Len(s) : s[i] = y
      BY <2>2, <1>1
    <3>2. i - 1 \in 1 .. Len(s) - 1 /\ (i - 1) + 1 = i
      BY <3>1, <2>2, <1>1
    <3> QED
      BY <3>1, <3>2, <1>8, <1>9
  <2> QED
    BY <2>1, <2>2
<1> QED
  BY <1>8, <1>9, <1>10, <1>11 DEF t

-----------------------------------------------------------------------------
(* Driver entries                                                           *)

(* The fields of an entry.                                                  *)
LEMMA DriverFields ==
  ASSUME NEW r \in Driver
  PROVE  /\ r.dependent \in BOOLEAN /\ r.unrequested \in BOOLEAN
         /\ r.scheduled \in BOOLEAN /\ r.untrusted \in BOOLEAN
         /\ r.initialized \in BOOLEAN /\ r.protocolError \in BOOLEAN
         /\ r.before \in BOOLEAN /\ r.after \in BOOLEAN
         /\ r.depex \in Depex \cup {None}
         /\ r.image \in {None, "success", "violation"}
BY DEF Driver

(* An entry whose expression has not been read, or could not be.            *)
Unstated(r) ==
  /\ ~r.dependent /\ ~r.unrequested /\ ~Hangs(r)
  /\ r.depex # None => r.depex # <<>>

(* CoreGetDepexSectionAndPreProccess on such an entry.                      *)
LEMMA DepexSection ==
  ASSUME NEW e \in Entries, driver[e] \in Driver, Unstated(driver[e])
  PROVE  LET r == CoreGetDepexSection(e)
         IN  /\ r \in Driver
             /\ r.protocolError <=> ~Readable(e)
             /\ r.dependent \/ r.unrequested \/ r.protocolError
             /\ r.dependent => ~r.unrequested /\ ~r.protocolError
             /\ r.unrequested => /\ ~r.protocolError /\ r.depex # None
                                 /\ r.depex[1].op = "SOR"
             /\ r.scheduled = driver[e].scheduled /\ r.untrusted = driver[e].untrusted
             /\ r.initialized = driver[e].initialized
             /\ r.depex = driver[e].depex /\ r.image = driver[e].image
             /\ DepexRead(r)
<1> DEFINE q == driver[e]
           p == [q EXCEPT !.protocolError = ~Readable(e)]
           op == p.depex[1].op
           r == CoreGetDepexSection(e)
<1>0. Readable(e) \in BOOLEAN
  BY DEF Readable
<1>1. /\ p \in Driver
      /\ p.protocolError <=> ~Readable(e)
      /\ p.dependent = q.dependent /\ p.unrequested = q.unrequested
      /\ p.scheduled = q.scheduled /\ p.untrusted = q.untrusted
      /\ p.initialized = q.initialized
      /\ p.before = q.before /\ p.after = q.after
      /\ p.depex = q.depex /\ p.image = q.image
  BY <1>0 DEF Driver
<1>2. Unstated(p)
  BY <1>1 DEF Unstated, Hangs
<1>3. CASE ~Readable(e)
  <2>1. r = p
    BY <1>3 DEF CoreGetDepexSection
  <2> QED
    BY <2>1, <1>1, <1>2, <1>3 DEF Unstated, Hangs, DepexRead
<1>4. CASE Readable(e) /\ q.depex = None
  <2>1. r = [p EXCEPT !.dependent = TRUE]
    BY <1>4, <1>1 DEF CoreGetDepexSection
  <2> HIDE DEF p, r
  <2>2. /\ r \in Driver /\ r.dependent
        /\ r.protocolError = p.protocolError /\ r.unrequested = p.unrequested
        /\ r.scheduled = p.scheduled /\ r.untrusted = p.untrusted
        /\ r.initialized = p.initialized
        /\ r.before = p.before /\ r.after = p.after
        /\ r.depex = p.depex /\ r.image = p.image
    BY <2>1, <1>1 DEF Driver
  <2> QED
    BY <2>2, <1>1, <1>2, <1>4 DEF Unstated, Hangs, DepexRead, r
<1>5. CASE Readable(e) /\ q.depex # None
  <2>1. r = CorePreProcessDepex(p)
    BY <1>5, <1>1 DEF CoreGetDepexSection
  <2> HIDE DEF p, r, op
  <2>2. r = [p EXCEPT !.unrequested = p.unrequested \/ op = "SOR",
                      !.dependent = p.dependent \/ op # "SOR",
                      !.before = p.before \/ op = "BEFORE",
                      !.after = p.after \/ op = "AFTER"]
    BY <2>1 DEF CorePreProcessDepex, op
  <2>3. /\ r \in Driver
        /\ r.unrequested <=> p.unrequested \/ op = "SOR"
        /\ r.dependent <=> p.dependent \/ op # "SOR"
        /\ r.before <=> p.before \/ op = "BEFORE"
        /\ r.after <=> p.after \/ op = "AFTER"
        /\ r.protocolError = p.protocolError
        /\ r.scheduled = p.scheduled /\ r.untrusted = p.untrusted
        /\ r.initialized = p.initialized
        /\ r.depex = p.depex /\ r.image = p.image
    BY <2>2, <1>1 DEF Driver
  <2> QED
    BY <2>3, <1>1, <1>2, <1>5 DEF Unstated, Hangs, DepexRead, r, op
<1> QED
  BY <1>3, <1>4, <1>5

(* The parts of a typed state.                                              *)
LEMMA Types ==
  ASSUME TypeOK
  PROVE  /\ discovered \in Seq(Entries) /\ queue \in Seq(Entries)
         /\ started \in Seq(Entries) /\ notified \in Seq(Volumes)
         /\ driver \in [Entries -> Driver]
         /\ \A e \in Entries : driver[e] \in Driver
         /\ Found \subseteq Entries /\ ToSet(queue) \subseteq Entries
         /\ ToSet(started) \subseteq Entries
         /\ d \in Activation /\ d.frames \in Seq(Frames)
         /\ d.link \in Nat \ {0}
         /\ d.pc = "insert" <=> d.frames # <<>>
<1>1. /\ discovered \in Seq(Entries) /\ queue \in Seq(Entries)
      /\ started \in Seq(Entries) /\ notified \in Seq(Volumes)
      /\ driver \in [Entries -> Driver] /\ d \in Activation
      /\ d.pc = "insert" <=> d.frames # <<>>
  BY DEF TypeOK
<1>2. Found \subseteq Entries /\ ToSet(queue) \subseteq Entries
      /\ ToSet(started) \subseteq Entries
  BY <1>1, ListIs DEF Found
<1>3. d.frames \in Seq(Frames) /\ d.link \in Nat \ {0}
  BY <1>1 DEF Activation
<1> QED
  BY <1>1, <1>2, <1>3

(* What is known of one entry.                                              *)
EntryIs(e) ==
  /\ e \notin Found => Fresh(e, driver[e])
  /\ e \in Found => Sound(e, driver[e])
  /\ DepexRead(driver[e]) /\ ImageKept(driver[e])
  /\ driver[e].scheduled <=> e \in ToSet(queue)

LEMMA EntryByEntry == TypeOK => (DriversKept <=> \A e \in Entries : EntryIs(e))
<1> SUFFICES ASSUME TypeOK PROVE DriversKept <=> \A e \in Entries : EntryIs(e)
  OBVIOUS
<1>1. Found \subseteq Entries
  BY Types
<1> QED
  BY <1>1 DEF DriversKept, EntryIs

(* A step that changes one discovered entry.                                *)
LEMMA OneEntry ==
  ASSUME TypeOK, DriversKept, NEW e \in Entries, NEW r \in Driver,
         driver' = [driver EXCEPT ![e] = r],
         e \in Found, discovered' = discovered,
         \A x \in Entries : x # e => (x \in ToSet(queue)' <=> x \in ToSet(queue)),
         Sound(e, r), DepexRead(r), ImageKept(r),
         r.scheduled <=> e \in ToSet(queue)'
  PROVE  DriversKept'
<1>1. driver \in [Entries -> Driver] /\ Found \subseteq Entries
  BY Types
<1>2. driver'[e] = r /\ \A x \in Entries : x # e => driver'[x] = driver[x]
  BY <1>1
<1>3. Found' = Found
  BY DEF Found
<1>4. ASSUME NEW x \in Entries PROVE EntryIs(x)'
  <2>1. CASE x = e
    BY <2>1, <1>2, <1>3 DEF EntryIs
  <2>2. CASE x # e
    <3>1. EntryIs(x)
      BY EntryByEntry
    <3> QED
      BY <3>1, <2>2, <1>2, <1>3 DEF EntryIs
  <2> QED
    BY <2>1, <2>2
<1> QED
  BY <1>1, <1>3, <1>4 DEF DriversKept, EntryIs

(* A step that changes none.                                                *)
LEMMA NoEntry ==
  ASSUME DriversKept, UNCHANGED <<driver, discovered, queue>>
  PROVE  DriversKept'
BY DEF DriversKept, Found

(* An entry goes on as far as the recursion is concerned.                   *)
Steady(e) ==
  /\ driver[e].dependent => driver'[e].dependent
  /\ Put(driver[e]) => Put(driver'[e])
  /\ driver'[e].before = driver[e].before /\ driver'[e].after = driver[e].after
  /\ driver'[e].depex = driver[e].depex

LEMMA FramesSteady ==
  ASSUME TypeOK, FramesKept, d'.frames = d.frames, Found \subseteq Found',
         \A k \in DOMAIN d.frames : Steady(d.frames[k].entry)
  PROVE  FramesKept'
<1> DEFINE n == Len(d.frames)
<1>1. /\ n \in Nat /\ DOMAIN d.frames = 1 .. n
  BY Types, ListIs
<1>2. ASSUME NEW k \in DOMAIN d.frames
      PROVE  FrameKept(k)'
  <2>1. FrameKept(k) /\ Steady(d.frames[k].entry)
    BY DEF FramesKept
  <2> QED
    BY <2>1 DEF FrameKept, Steady, Hangs, Target
<1> QED
  BY <1>1, <1>2 DEF FramesKept

(* Without a recursion.                                                     *)
LEMMA NoFrames ==
  ASSUME d'.frames = <<>>
  PROVE  FramesKept'
BY DEF FramesKept

-----------------------------------------------------------------------------
(* The initial state                                                        *)

LEMMA EmptyList == ToSet(<<>>) = {} /\ IsInjective(<<>>)
BY DEF ToSet, IsInjective

LEMMA InitIInv == Init => IInv
<1> SUFFICES ASSUME Init PROVE IInv
  OBVIOUS
<1>1. PICK file \in [Entries -> UNION {Depexes[e] : e \in Entries}] :
        /\ \A e \in Entries : file[e] \in Depexes[e]
        /\ driver = [e \in Entries |->
             [dependent |-> FALSE, unrequested |-> FALSE, scheduled |-> FALSE,
              untrusted |-> FALSE, initialized |-> FALSE, protocolError |-> FALSE,
              before |-> FALSE, after |-> FALSE, depex |-> file[e], image |-> None]]
  BY DEF Init
<1>2. ASSUME NEW e \in Entries
      PROVE  /\ file[e] \in Depexes[e] /\ file[e] \in Depex \cup {None}
             /\ file[e] # None => file[e] # <<>>
  BY <1>1, DispatcherAssumption
<1>3. \A e \in Entries : /\ driver[e] \in Driver /\ Fresh(e, driver[e])
                         /\ DepexRead(driver[e]) /\ ImageKept(driver[e])
  <2> SUFFICES ASSUME NEW e \in Entries
               PROVE  /\ driver[e] \in Driver /\ Fresh(e, driver[e])
                      /\ DepexRead(driver[e]) /\ ImageKept(driver[e])
    OBVIOUS
  <2>1. driver[e] = [dependent |-> FALSE, unrequested |-> FALSE, scheduled |-> FALSE,
              untrusted |-> FALSE, initialized |-> FALSE, protocolError |-> FALSE,
              before |-> FALSE, after |-> FALSE, depex |-> file[e], image |-> None]
    BY <1>1
  <2> QED
    BY <2>1, <1>2 DEF Driver, Fresh, DepexRead, ImageKept, Unread, Hangs
<1>4. driver \in [Entries -> Driver]
  BY <1>1, <1>3
<1>5. /\ discovered = <<>> /\ queue = <<>> /\ started = <<>> /\ notified = <<>>
      /\ processed = {} /\ installed = {} /\ present = {}
      /\ running = FALSE /\ d = Idle /\ callbacks = 0 /\ disturbed = FALSE
      /\ trusting = <<>> /\ broken = None
  BY DEF Init
<1>6. d \in Activation /\ d.pc = "idle" /\ d.frames = <<>>
  BY <1>5 DEF Idle, Activation
<1>7. TypeOK
  <2>1. callbacks \in 0 .. MaxCallbacks
    BY <1>5, DispatcherAssumption
  <2>2. /\ <<>> \in Seq(Entries) /\ <<>> \in Seq(Volumes)
        /\ installed \subseteq present /\ present \subseteq Protocols
        /\ processed \subseteq Volumes
    BY <1>5
  <2>3. /\ discovered \in Seq(Entries) /\ queue \in Seq(Entries)
        /\ started \in Seq(Entries) /\ notified \in Seq(Volumes)
        /\ running \in BOOLEAN /\ disturbed \in BOOLEAN
        /\ d.pc = "insert" <=> d.frames # <<>>
        /\ d.pc # "idle" => running
        /\ trusting \in Seq(Entries) /\ broken \in Entries \cup {None}
    BY <1>5, <1>6, <2>2
  <2> QED
    BY <1>4, <1>6, <2>1, <2>2, <2>3 DEF TypeOK
<1>8. Found = {} /\ ToSet(queue) = {}
  BY <1>5, EmptyList DEF Found
<1>9. ListsKept
  BY <1>5, <1>8, EmptyList DEF ListsKept
<1>10. DriversKept
  BY <1>3, <1>8 DEF DriversKept, Fresh
<1>11. EntryKept /\ FramesKept
  BY <1>6 DEF EntryKept, FramesKept
<1> QED
  BY <1>7, <1>9, <1>10, <1>11 DEF IInv

-----------------------------------------------------------------------------
(* Steps of CoreDispatcher that leave the drivers alone                     *)

(* A new value of the activation alone.                                     *)
LEMMA Moves ==
  ASSUME IInv, UNCHANGED <<discovered, queue, driver, env>>,
         started' \in Seq(Entries), notified' \in Seq(Volumes),
         running' \in BOOLEAN, disturbed' \in BOOLEAN,
         d' \in Activation, d'.frames = <<>>, d'.pc # "insert",
         d'.pc # "idle" => running',
         EntryKept'
  PROVE  IInv'
<1>1. TypeOK'
  BY DEF IInv, TypeOK, env
<1>2. ListsKept'
  BY DEF IInv, ListsKept, Found, env
<1>3. DriversKept'
  BY NoEntry DEF IInv
<1>4. FramesKept'
  BY NoFrames
<1> QED
  BY <1>1, <1>2, <1>3, <1>4 DEF IInv

(* Outside the recursion there are no frames.                               *)
LEMMA Plain ==
  ASSUME IInv, d.pc # "insert"
  PROVE  d.frames = <<>> /\ (d.pc # "idle" => running) /\ d \in Activation
BY DEF IInv, TypeOK

LEMMA DispatchStep ==
  ASSUME IInv, NEW created \in BOOLEAN, Dispatch(created)
  PROVE  IInv'
<1>1. d.pc = "idle" /\ d \in Activation /\ d.frames = <<>>
  BY Plain DEF Dispatch, At
<1>2. /\ d' \in Activation /\ d'.frames = <<>> /\ d'.pc \in {"idle", "drain"}
  <2>1. [d EXCEPT !.pc = "drain"] \in Activation
        /\ [d EXCEPT !.pc = "drain"].frames = <<>>
        /\ [d EXCEPT !.pc = "drain"].pc = "drain"
    BY <1>1 DEF Activation
  <2> QED
    BY <1>1, <2>1 DEF Dispatch
<1>3. EntryKept'
  BY <1>2 DEF EntryKept
<1> QED
  BY <1>2, <1>3, Moves DEF Dispatch, IInv, TypeOK

LEMMA StartImageStep ==
  ASSUME IInv, StartImage
  PROVE  IInv'
<1> DEFINE enter == driver[d.entry].image = "success" /\ d.entry \notin ToSet(started)
<1>1. d.pc = "start" /\ d \in Activation /\ d.frames = <<>> /\ running
  BY Plain DEF StartImage, At
<1>2. d.entry \in Entries /\ started \in Seq(Entries)
  BY <1>1, Types DEF IInv, EntryKept
<1>3. started' \in Seq(Entries)
  BY <1>2, ListAppend DEF StartImage
<1>4. d' \in Activation /\ d'.frames = <<>> /\ d'.pc \in {"image", "drain"}
  <2>1. d' = [d EXCEPT !.pc = IF enter THEN "image" ELSE "drain",
                       !.entry = None, !.success = TRUE]
    BY DEF StartImage
  <2> HIDE DEF enter
  <2>2. (IF enter THEN "image" ELSE "drain") \in {"image", "drain"}
    OBVIOUS
  <2> QED
    BY <2>1, <2>2, <1>1 DEF Activation
<1>5. EntryKept'
  BY <1>4 DEF EntryKept
<1> QED
  BY <1>1, <1>3, <1>4, <1>5, Moves DEF StartImage, IInv, TypeOK

LEMMA ProcessFvImageStep ==
  ASSUME IInv, ProcessFvImage
  PROVE  IInv'
<1>1. d.pc = "start" /\ d \in Activation /\ d.frames = <<>> /\ running
  BY Plain DEF ProcessFvImage, At
<1>2. d.entry \in Entries /\ VolumeIn[d.entry] \in Volumes
  BY <1>1, Types, DispatcherAssumption DEF IInv, EntryKept, ProcessFvImage, IsFvImage
<1> DEFINE images == Selected(<<d.entry>>, {e \in Entries : Readable(e)})
<1>3. notified' \in Seq(Volumes)
  <2>1. <<d.entry>> \in Seq(Entries) /\ ToSet(<<d.entry>>) = {d.entry}
    BY <1>2 DEF ToSet
  <2>2. images \in Seq(Entries) /\ \A x : x \in ToSet(images) => x = d.entry
    BY <2>1, SelectedIs
  <2> HIDE DEF images
  <2>3. /\ Len(images) \in Nat /\ DOMAIN images = 1 .. Len(images)
        /\ \A k \in 1 .. Len(images) : VolumeIn[images[k]] \in Volumes
    BY <2>2, <1>2, ListIs
  <2>4. [k \in DOMAIN images |-> VolumeIn[images[k]]] \in Seq(Volumes)
    BY <2>3
  <2> QED
    BY <2>4 DEF ProcessFvImage, Produced, images
<1>4. d' \in Activation /\ d'.frames = <<>> /\ d'.pc = "drain"
  BY <1>1 DEF Activation, ProcessFvImage
<1>5. EntryKept'
  BY <1>4 DEF EntryKept
<1> QED
  BY <1>1, <1>3, <1>4, <1>5, Moves DEF ProcessFvImage, IInv, TypeOK

LEMMA SimpleStep ==
  ASSUME IInv,
         ImageReturns \/ RoundEnd \/ SignalReturns \/ SearchEnd \/ DispatchReturns
  PROVE  IInv'
<1>1. /\ d.pc \in {"image", "drain", "signal", "search", "exit"}
      /\ d \in Activation /\ d.frames = <<>> /\ running
  BY Plain DEF ImageReturns, RoundEnd, SignalReturns, SearchEnd, DispatchReturns, At
<1>2. /\ d' \in Activation /\ d'.frames = <<>>
      /\ d'.pc \in {"drain", "signal", "search", "exit", "idle"}
      /\ d'.pc # "idle" => running'
      /\ running' \in BOOLEAN /\ disturbed' \in BOOLEAN
  <2>1. CASE ImageReturns
    BY <2>1, <1>1 DEF ImageReturns, Activation, IInv, TypeOK
  <2>2. CASE RoundEnd
    <3>1. (IF d.success THEN "signal" ELSE "search") \in {"signal", "search"}
      OBVIOUS
    <3> QED
      BY <2>2, <3>1, <1>1 DEF RoundEnd, Activation, IInv, TypeOK
  <2>3. CASE SignalReturns
    BY <2>3, <1>1 DEF SignalReturns, Activation, IInv, TypeOK
  <2>4. CASE SearchEnd
    <3>1. PICK next \in {"drain", "exit"} :
            d' = [d EXCEPT !.pc = next, !.link = 1, !.ready = FALSE]
      BY <2>4 DEF SearchEnd
    <3>2. d' \in Activation /\ d'.frames = <<>> /\ d'.pc = next
      <4>1. 1 \in Nat \ {0} /\ FALSE \in BOOLEAN
        OBVIOUS
      <4> QED
        BY <3>1, <1>1, <4>1 DEF Activation
    <3>3. UNCHANGED <<running, disturbed>> /\ running \in BOOLEAN /\ disturbed \in BOOLEAN
      BY <2>4 DEF SearchEnd, IInv, TypeOK
    <3> QED
      BY <3>1, <3>2, <3>3, <1>1
  <2>5. CASE DispatchReturns
    <3>1. d' = Idle /\ running' = FALSE /\ UNCHANGED disturbed
      BY <2>5 DEF DispatchReturns
    <3>2. Idle \in Activation /\ Idle.frames = <<>> /\ Idle.pc = "idle"
      BY DEF Idle, Activation
    <3>3. disturbed \in BOOLEAN
      BY DEF IInv, TypeOK
    <3> QED
      BY <3>1, <3>2, <3>3
  <2> QED
    BY <2>1, <2>2, <2>3, <2>4, <2>5
<1>3. EntryKept'
  BY <1>2 DEF EntryKept
<1>4. /\ UNCHANGED <<discovered, queue, driver, env, started, notified>>
  BY DEF ImageReturns, RoundEnd, SignalReturns, SearchEnd, DispatchReturns
<1> QED
  BY <1>2, <1>3, <1>4, Moves DEF IInv, TypeOK

-----------------------------------------------------------------------------
(* Steps of CoreDispatcher that change an entry                             *)

(* What is known of an entry of the discovered list, and of a queued one.   *)
LEMMA FoundEntry ==
  ASSUME IInv, NEW e \in Found
  PROVE  /\ e \in Entries /\ driver[e] \in Driver /\ driver \in [Entries -> Driver]
         /\ Sound(e, driver[e]) /\ DepexRead(driver[e]) /\ ImageKept(driver[e])
         /\ driver[e].scheduled <=> e \in ToSet(queue)
<1>1. e \in Entries /\ driver[e] \in Driver /\ driver \in [Entries -> Driver]
  BY Types DEF IInv
<1> QED
  BY <1>1 DEF IInv, DriversKept

LEMMA FirstQueued ==
  ASSUME IInv, queue # <<>>
  PROVE  /\ queue[1] \in ToSet(queue) /\ queue[1] \in Found
         /\ driver[queue[1]].scheduled /\ Head(queue) = queue[1]
<1>1. queue \in Seq(Entries)
  BY Types DEF IInv
<1>2. Len(queue) \in Nat /\ Len(queue) # 0
  BY <1>1, ListIs, EmptySeq
<1>3. queue[1] \in ToSet(queue)
  <2>1. 1 \in 1 .. Len(queue)
    BY <1>2
  <2> QED
    BY <1>1, <2>1, ListIs
<1>4. queue[1] \in Found
  BY <1>3 DEF IInv, ListsKept
<1> QED
  BY <1>1, <1>3, <1>4, FoundEntry

LEMMA LoadImageStep ==
  ASSUME IInv, NEW status \in {"success", "violation", "error"}, LoadImage(status)
  PROVE  IInv'
<1> DEFINE e == Head(queue)
           skip == driver[e].image # None \/ IsFvImage(e)
           image == IF skip \/ status = "error" THEN driver[e].image ELSE status
           r == [driver[e] EXCEPT !.image = image]
<1>1. d.pc = "drain" /\ d \in Activation /\ d.frames = <<>> /\ running /\ queue # <<>>
  BY Plain DEF LoadImage, At
<1>2. e = queue[1] /\ e \in Found /\ driver[e].scheduled /\ e \in ToSet(queue)
  BY <1>1, FirstQueued
<1>3. /\ e \in Entries /\ driver[e] \in Driver /\ driver \in [Entries -> Driver]
      /\ Sound(e, driver[e]) /\ DepexRead(driver[e]) /\ ImageKept(driver[e])
  BY <1>2, FoundEntry
<1>4. driver' = [driver EXCEPT ![e] = r]
  BY <1>3 DEF LoadImage
<1>5. d' = [d EXCEPT !.pc = "loaded", !.entry = e, !.status = status]
  BY DEF LoadImage
<1>6. /\ status = "violation" => image = "violation"
      /\ driver[e].image = "violation" => image = "violation"
  BY DispatcherAssumption DEF LoadImage
<1>7. image \in {None, "success", "violation"}
  BY <1>3, DriverFields
<1>8. UNCHANGED <<discovered, queue, notified, running, started, disturbed, env>>
  BY DEF LoadImage
<1> HIDE DEF e, skip, image, r
<1>9. /\ r \in Driver /\ r.image = image
      /\ r.dependent = driver[e].dependent /\ r.unrequested = driver[e].unrequested
      /\ r.scheduled = driver[e].scheduled /\ r.untrusted = driver[e].untrusted
      /\ r.initialized = driver[e].initialized
      /\ r.protocolError = driver[e].protocolError
      /\ r.before = driver[e].before /\ r.after = driver[e].after
      /\ r.depex = driver[e].depex
  BY <1>3, <1>7 DEF r, Driver
<1>10. Sound(e, r) /\ DepexRead(r) /\ ImageKept(r)
  BY <1>2, <1>3, <1>6, <1>9 DEF Sound, InOneState, DepexRead, ImageKept, Unread, Put, Hangs
<1>11. DriversKept'
  <2>1. /\ discovered' = discovered
        /\ \A x \in Entries : x # e => (x \in ToSet(queue)' <=> x \in ToSet(queue))
        /\ r.scheduled <=> e \in ToSet(queue)'
    BY <1>2, <1>8, <1>9
  <2> QED
    BY <2>1, <1>2, <1>3, <1>4, <1>9, <1>10, OneEntry DEF IInv
<1>12. d' \in Activation /\ d'.frames = <<>> /\ d'.pc = "loaded"
       /\ d'.entry = e /\ d'.status = status
  BY <1>1, <1>3, <1>5 DEF Activation
<1>13. driver' \in [Entries -> Driver] /\ driver'[e] = r
  BY <1>3, <1>4, <1>9
<1>14. TypeOK'
  BY <1>1, <1>8, <1>12, <1>13 DEF IInv, TypeOK, env
<1>15. ListsKept'
  BY <1>8 DEF IInv, ListsKept, Found, env
<1>16. EntryKept'
  BY <1>1, <1>2, <1>6, <1>8, <1>9, <1>12, <1>13 DEF EntryKept
<1>17. FramesKept'
  BY <1>12, NoFrames
<1> QED
  BY <1>11, <1>14, <1>15, <1>16, <1>17 DEF IInv

LEMMA TakeOffStep ==
  ASSUME IInv, TakeOff
  PROVE  IInv'
<1> DEFINE e == d.entry
           r == Dispatched(driver[e], d.status)
<1>1. d.pc = "loaded" /\ d \in Activation /\ d.frames = <<>> /\ running
  BY Plain DEF TakeOff, At
<1>2. /\ queue # <<>> /\ e = queue[1]
      /\ d.status = "violation" => driver[e].image = "violation"
  BY <1>1 DEF IInv, EntryKept
<1>3. e \in Found /\ driver[e].scheduled /\ e \in ToSet(queue)
  BY <1>2, FirstQueued
<1>4. /\ e \in Entries /\ driver[e] \in Driver /\ driver \in [Entries -> Driver]
      /\ Sound(e, driver[e]) /\ DepexRead(driver[e]) /\ ImageKept(driver[e])
  BY <1>3, FoundEntry
<1>5. driver' = [driver EXCEPT ![e] = r]
  BY DEF TakeOff
<1>6. queue' = Unlinked(queue, queue[1])
  BY <1>2 DEF TakeOff
<1>7. queue \in Seq(Entries) /\ IsInjective(queue)
  BY Types DEF IInv, ListsKept
<1>8. /\ queue' \in Seq(Entries) /\ IsInjective(queue')
      /\ ToSet(queue') = ToSet(queue) \ {e}
  BY <1>2, <1>6, <1>7, ListUnlinked
<1>9. UNCHANGED <<discovered, notified, running, started, disturbed, env>>
  BY DEF TakeOff
<1>10. /\ r \in Driver /\ ~r.scheduled
       /\ r.untrusted <=> driver[e].untrusted \/ d.status = "violation"
       /\ r.initialized <=> driver[e].initialized \/ d.status # "violation"
       /\ r.dependent = driver[e].dependent /\ r.unrequested = driver[e].unrequested
       /\ r.protocolError = driver[e].protocolError
       /\ r.before = driver[e].before /\ r.after = driver[e].after
       /\ r.depex = driver[e].depex /\ r.image = driver[e].image
  BY <1>4 DEF Dispatched, Driver
<1>11. /\ d' = IF d.status = "success" THEN [d EXCEPT !.pc = "start"]
               ELSE [d EXCEPT !.pc = "drain", !.entry = None, !.status = "success"]
  BY DEF TakeOff
<1>12. /\ d' \in Activation /\ d'.frames = <<>> /\ d'.pc \in {"start", "drain"}
       /\ d'.pc = "start" => d'.entry = e /\ d.status = "success"
  BY <1>1, <1>11 DEF Activation
<1> HIDE DEF e, r
<1>13. Sound(e, r) /\ DepexRead(r) /\ ImageKept(r)
  <2>1. DepexRead(r)
    BY <1>4, <1>10 DEF DepexRead, Hangs
  <2>2. Sound(e, r)
    BY <1>3, <1>4, <1>10 DEF Sound, InOneState, Unread, Put
  <2>3. ImageKept(r)
    BY <1>2, <1>3, <1>4, <1>10 DEF ImageKept, Sound, InOneState, Unread, Put
  <2> QED
    BY <2>1, <2>2, <2>3
<1>14. DriversKept'
  <2>1. /\ discovered' = discovered
        /\ \A x \in Entries : x # e => (x \in ToSet(queue)' <=> x \in ToSet(queue))
        /\ r.scheduled <=> e \in ToSet(queue)'
    BY <1>8, <1>9, <1>10
  <2> QED
    BY <2>1, <1>3, <1>4, <1>5, <1>10, <1>13, OneEntry DEF IInv
<1>15. driver' \in [Entries -> Driver] /\ driver'[e] = r
  BY <1>4, <1>5, <1>10
<1>16. TypeOK'
  BY <1>1, <1>8, <1>9, <1>12, <1>15 DEF IInv, TypeOK, env
<1>17. ListsKept'
  BY <1>8, <1>9 DEF IInv, ListsKept, Found, env
<1>18. EntryKept'
  <2>1. Found' = Found
    BY <1>9 DEF Found
  <2> QED
    BY <2>1, <1>3, <1>10, <1>12, <1>15 DEF EntryKept
<1>19. FramesKept'
  BY <1>12, NoFrames
<1> QED
  BY <1>14, <1>16, <1>17, <1>18, <1>19 DEF IInv

(* The search goes on.                                                      *)
LEMMA NextEntryIs ==
  ASSUME d \in Activation
  PROVE  /\ NextEntry \in Activation /\ NextEntry.frames = <<>>
         /\ NextEntry.pc = "search"
<1>1. /\ d.link + 1 \in Nat \ {0} /\ 1 \in Nat \ {0} /\ <<>> \in Seq(BOOLEAN)
      /\ <<>> \in Seq(Frames)
  BY DEF Activation
<1> QED
  BY <1>1 DEF NextEntry, Activation

LEMMA VisitStep ==
  ASSUME IInv, Visit
  PROVE  IInv'
<1> DEFINE e == discovered[d.link]
           r == IF driver[e].protocolError THEN CoreGetDepexSection(e) ELSE driver[e]
<1>1. d.pc = "search" /\ d \in Activation /\ d.frames = <<>> /\ running
  BY Plain DEF Visit, At
<1>2. e \in Found
  <2>1. discovered \in Seq(Entries) /\ d.link \in Nat \ {0}
    BY Types DEF IInv
  <2>2. d.link \in 1 .. Len(discovered)
    BY <2>1, ListIs DEF Visit
  <2> QED
    BY <2>1, <2>2, ListIs DEF Found
<1>3. /\ e \in Entries /\ driver[e] \in Driver /\ driver \in [Entries -> Driver]
      /\ Sound(e, driver[e]) /\ DepexRead(driver[e]) /\ ImageKept(driver[e])
      /\ driver[e].scheduled <=> e \in ToSet(queue)
  BY <1>2, FoundEntry
<1>4. /\ driver' = [driver EXCEPT ![e] = r]
      /\ d' = IF r.dependent /\ ~r.before /\ ~r.after
              THEN [d EXCEPT !.pc = "evaluate", !.entry = e] ELSE NextEntry
      /\ UNCHANGED <<discovered, queue, notified, running, started, disturbed, env>>
  BY DEF Visit
<1> HIDE DEF e
<1>5. /\ r \in Driver /\ Sound(e, r) /\ DepexRead(r) /\ ImageKept(r)
      /\ r.scheduled <=> e \in ToSet(queue)
  <2>1. CASE ~driver[e].protocolError
    BY <2>1, <1>3
  <2>2. CASE driver[e].protocolError
    <3>1. Unstated(driver[e])
      BY <2>2, <1>3 DEF Unstated, DepexRead, Hangs
    <3> HIDE DEF r
    <3>2. /\ r \in Driver
          /\ r.dependent \/ r.unrequested \/ r.protocolError
          /\ r.dependent => ~r.unrequested /\ ~r.protocolError
          /\ r.unrequested => ~r.protocolError
          /\ r.scheduled = driver[e].scheduled /\ r.untrusted = driver[e].untrusted
          /\ r.initialized = driver[e].initialized
          /\ r.image = driver[e].image /\ DepexRead(r)
      BY <2>2, <3>1, <1>3, DepexSection DEF r
    <3>3. ImageKept(r) /\ (r.scheduled <=> e \in ToSet(queue))
      BY <3>2, <1>3 DEF ImageKept
    <3>4. Sound(e, r)
      BY <2>2, <3>2, <1>3 DEF Sound, InOneState, Unread, Put
    <3> QED
      BY <3>2, <3>3, <3>4
  <2> QED
    BY <2>1, <2>2
<1> HIDE DEF r
<1>6. DriversKept'
  <2>1. /\ discovered' = discovered
        /\ \A x \in Entries : x # e => (x \in ToSet(queue)' <=> x \in ToSet(queue))
        /\ r.scheduled <=> e \in ToSet(queue)'
    BY <1>4, <1>5
  <2> QED
    BY <2>1, <1>2, <1>3, <1>4, <1>5, OneEntry DEF IInv
<1>7. driver' \in [Entries -> Driver] /\ driver'[e] = r
  BY <1>3, <1>4, <1>5
<1>8. /\ d' \in Activation /\ d'.frames = <<>> /\ d'.pc \in {"evaluate", "search"}
      /\ d'.pc = "evaluate" => d'.entry = e /\ r.dependent /\ ~r.before /\ ~r.after
  <2>1. CASE r.dependent /\ ~r.before /\ ~r.after
    BY <2>1, <1>1, <1>3, <1>4 DEF Activation
  <2>2. CASE ~(r.dependent /\ ~r.before /\ ~r.after)
    BY <2>2, <1>1, <1>4, NextEntryIs
  <2> QED
    BY <2>1, <2>2
<1>9. TypeOK'
  BY <1>1, <1>4, <1>7, <1>8 DEF IInv, TypeOK, env
<1>10. ListsKept'
  BY <1>4 DEF IInv, ListsKept, Found, env
<1>11. EntryKept'
  <2>1. Found' = Found
    BY <1>4 DEF Found
  <2> QED
    BY <2>1, <1>2, <1>7, <1>8 DEF EntryKept, Hangs
<1>12. FramesKept'
  BY <1>8, NoFrames
<1> QED
  BY <1>6, <1>9, <1>10, <1>11, <1>12 DEF IInv

-----------------------------------------------------------------------------
(* The evaluation of a dependency expression                                *)

(* One frame for an entry that hangs on none.                               *)
LEMMA FirstFrame ==
  ASSUME NEW e \in Entries, d'.frames = <<InsertFrame(e)>>, e \in Found',
         driver'[e].dependent, ~Hangs(driver'[e])
  PROVE  FramesKept'
<1>1. /\ d'.frames[1] = InsertFrame(e) /\ DOMAIN d'.frames = {1}
      /\ Len(d'.frames) = 1
  OBVIOUS
<1>2. d'.frames[1].entry = e /\ d'.frames[1].phase = "before"
  BY <1>1 DEF InsertFrame
<1>3. FrameKept(1)'
  BY <1>1, <1>2 DEF FrameKept
<1> QED
  BY <1>1, <1>3 DEF FramesKept

(* What the evaluation goes on with.                                        *)
LEMMA ResultIs ==
  ASSUME d \in Activation, d.entry \in Entries, NEW b, Result(b)
  PROVE  /\ d' \in Activation
         /\ \/ d'.pc = "search" /\ d'.frames = <<>>
            \/ d'.pc = "insert" /\ d'.frames = <<InsertFrame(d.entry)>>
<1>1. CASE b
  <2>1. InsertFrame(d.entry) \in Frames
    BY DEF InsertFrame, Frames
  <2>2. /\ <<InsertFrame(d.entry)>> \in Seq(Frames) /\ <<>> \in Seq(BOOLEAN)
        /\ 1 \in Nat \ {0}
    BY <2>1
  <2>3. d' = [d EXCEPT !.pc = "insert", !.iterator = 1, !.bools = <<>>,
                       !.frames = <<InsertFrame(d.entry)>>]
    BY <1>1 DEF Result
  <2> QED
    BY <2>2, <2>3 DEF Activation
<1>2. CASE ~b
  BY <1>2, NextEntryIs DEF Result
<1> QED
  BY <1>1, <1>2

(* The stack is one of Booleans.                                            *)
LEMMA ExecuteIs ==
  ASSUME NEW i, NEW at, NEW s \in Seq(BOOLEAN)
  PROVE  Execute(i, at, s) = None \/ Execute(i, at, s) \in Seq(BOOLEAN)
<1> DEFINE n == Len(s)
<1>1. n \in Nat /\ \A k \in 1 .. n : s[k] \in BOOLEAN
  BY LenProperties, ElementOfSeq
<1>2. \A b \in BOOLEAN : Append(s, b) \in Seq(BOOLEAN)
  BY AppendProperties
<1>3. ASSUME NEW m \in 1 .. 2, m <= n, NEW b \in BOOLEAN
      PROVE  Append(SubSeq(s, 1, n - m), b) \in Seq(BOOLEAN)
  <2>1. SubSeq(s, 1, n - m) \in Seq(BOOLEAN)
    <3>1. \A k \in 1 .. n - m : s[k] \in BOOLEAN
      BY <1>1
    <3> QED
      BY <3>1, <1>1, SubSeqProperties
  <2> QED
    BY <2>1, AppendProperties
<1>4. CASE i.op = "SOR" /\ at = 1
  BY <1>4 DEF Execute
<1>5. (i.guid \in installed) \in BOOLEAN
  OBVIOUS
<1>6. CASE i.op \in {"PUSH", "TRUE", "REPLACE_TRUE", "FALSE"}
  BY <1>2, <1>5, <1>6 DEF Execute
<1>7. CASE i.op = "NOT" /\ n > 0
  <2>1. Append(SubSeq(s, 1, n - 1), ~s[n]) \in Seq(BOOLEAN)
    BY <1>1, <1>3, <1>7
  <2> QED
    BY <1>7, <2>1 DEF Execute
<1>8. CASE i.op \in {"AND", "OR"} /\ n > 1
  <2>1. /\ Append(SubSeq(s, 1, n - 2), s[n] /\ s[n - 1]) \in Seq(BOOLEAN)
        /\ Append(SubSeq(s, 1, n - 2), s[n] \/ s[n - 1]) \in Seq(BOOLEAN)
    BY <1>1, <1>3, <1>8
  <2> QED
    BY <1>8, <2>1 DEF Execute
<1>9. CASE /\ ~(i.op = "SOR" /\ at = 1)
           /\ i.op \notin {"PUSH", "TRUE", "REPLACE_TRUE", "FALSE"}
           /\ ~(i.op = "NOT" /\ n > 0)
           /\ ~(i.op \in {"AND", "OR"} /\ n > 1)
  BY <1>9 DEF Execute
<1> QED
  BY <1>4, <1>6, <1>7, <1>8, <1>9

(* What the steps of the search leave.                                      *)
LEMMA SearchStep ==
  ASSUME IInv, d.pc # "insert", d.pc # "idle", NEW e \in Found, NEW r \in Driver,
         driver' = [driver EXCEPT ![e] = r],
         UNCHANGED <<discovered, queue, notified, running, started, disturbed, env>>,
         Sound(e, r), DepexRead(r), ImageKept(r),
         r.scheduled <=> e \in ToSet(queue),
         d' \in Activation,
         \/ d'.pc \in {"search", "evaluate"} /\ d'.frames = <<>>
         \/ d'.pc = "insert" /\ d'.frames = <<InsertFrame(e)>>,
         d'.pc # "search" => r.dependent /\ ~Hangs(r),
         d'.pc = "evaluate" => d'.entry = e
  PROVE  IInv'
<1>1. e \in Entries /\ driver \in [Entries -> Driver] /\ running
  BY FoundEntry, Plain
<1>2. DriversKept'
  <2>1. /\ discovered' = discovered
        /\ \A x \in Entries : x # e => (x \in ToSet(queue)' <=> x \in ToSet(queue))
        /\ r.scheduled <=> e \in ToSet(queue)'
    OBVIOUS
  <2> QED
    BY <2>1, <1>1, OneEntry DEF IInv
<1>3. driver' \in [Entries -> Driver] /\ driver'[e] = r
  BY <1>1
<1>4. Found' = Found
  BY DEF Found
<1>5. TypeOK'
  <2>1. d'.pc = "insert" <=> d'.frames # <<>>
    OBVIOUS
  <2> QED
    BY <1>1, <1>3, <2>1 DEF IInv, TypeOK, env
<1>6. ListsKept'
  BY DEF IInv, ListsKept, Found, env
<1>7. EntryKept'
  BY <1>3, <1>4 DEF EntryKept
<1>8. FramesKept'
  BY <1>1, <1>3, <1>4, NoFrames, FirstFrame
<1> QED
  BY <1>2, <1>5, <1>6, <1>7, <1>8 DEF IInv

LEMMA EvaluateStep ==
  ASSUME IInv, Evaluate
  PROVE  IInv'
<1> DEFINE e == d.entry
           code == driver[e].depex
           at == d.iterator
           n == Len(d.bools)
<1>1. d.pc = "evaluate" /\ d \in Activation /\ d.frames = <<>> /\ running
  BY Plain DEF Evaluate, At
<1>2. e \in Found /\ driver[e].dependent /\ ~Hangs(driver[e])
  BY <1>1 DEF IInv, EntryKept
<1>3. /\ e \in Entries /\ driver[e] \in Driver /\ driver \in [Entries -> Driver]
      /\ Sound(e, driver[e]) /\ DepexRead(driver[e]) /\ ImageKept(driver[e])
      /\ driver[e].scheduled <=> e \in ToSet(queue)
  BY <1>2, FoundEntry
<1>4. UNCHANGED <<discovered, queue, notified, running, started, disturbed, env>>
  BY DEF Evaluate
<1>5. CASE UNCHANGED driver /\ \E b : Result(b)
  <2>1. driver' = [driver EXCEPT ![e] = driver[e]]
    BY <1>3, <1>5
  <2>2. PICK b : Result(b)
    BY <1>5
  <2>3. /\ d' \in Activation
        /\ \/ d'.pc = "search" /\ d'.frames = <<>>
           \/ d'.pc = "insert" /\ d'.frames = <<InsertFrame(e)>>
    BY <1>1, <1>3, <2>2, ResultIs
  <2> HIDE DEF e
  <2> QED
    BY <1>1, <1>2, <1>3, <1>4, <2>1, <2>3, SearchStep
<1>6. CASE /\ code # None /\ at <= Len(code) /\ code[at].op # "END"
           /\ driver' = [driver EXCEPT ![d.entry].depex =
                           [code EXCEPT ![at] = Patched(code[at])]]
           /\ LET s == Execute(code[at], at, d.bools)
              IN  IF s = None THEN Result(FALSE)
                  ELSE d' = [d EXCEPT !.iterator = @ + 1, !.bools = s]
  <2> DEFINE c == [code EXCEPT ![at] = Patched(code[at])]
             r == [driver[e] EXCEPT !.depex = c]
             s == Execute(code[at], at, d.bools)
             I == [op : Opcodes, guid : Protocols \cup Entries \cup {None}]
  <2>1. code \in Seq(I) /\ at \in Nat \ {0} /\ d.bools \in Seq(BOOLEAN)
    BY <1>1, <1>3, <1>6, DriverFields DEF Depex, Activation
  <2>2. at \in 1 .. Len(code) /\ code[at] \in I
    <3> HIDE DEF I, code
    <3>1. Len(code) \in Nat /\ \A i \in 1 .. Len(code) : code[i] \in I
      BY <2>1, ListIs
    <3>2. at <= Len(code)
      BY <1>6 DEF code
    <3>3. at \in 1 .. Len(code)
      BY <2>1, <3>1, <3>2
    <3> QED
      BY <3>1, <3>3
  <2>3. Patched(code[at]) \in I
    BY <2>2 DEF Patched, Opcodes
  <2>4. c \in Seq(I) /\ Len(c) = Len(code)
    BY <2>1, <2>2, <2>3, ExceptSeq
  <2>5. c \in Depex /\ c # <<>>
    <3>1. Len(code) # 0
      BY <2>1, <2>2, ListIs
    <3>2. c # <<>>
      BY <3>1, <2>4
    <3> QED
      BY <2>4, <3>2 DEF Depex
  <2>6. driver' = [driver EXCEPT ![e] = r]
    BY <1>6
  <2> HIDE DEF c
  <2>7. /\ r \in Driver /\ r.depex = c
        /\ r.dependent = driver[e].dependent /\ r.unrequested = driver[e].unrequested
        /\ r.scheduled = driver[e].scheduled /\ r.untrusted = driver[e].untrusted
        /\ r.initialized = driver[e].initialized
        /\ r.protocolError = driver[e].protocolError
        /\ r.before = driver[e].before /\ r.after = driver[e].after
        /\ r.image = driver[e].image
    BY <1>3, <2>5 DEF Driver
  <2> HIDE DEF r
  <2>8. /\ Sound(e, r) /\ DepexRead(r) /\ ImageKept(r)
        /\ r.scheduled <=> e \in ToSet(queue)
        /\ r.dependent /\ ~Hangs(r)
    <3>1. r.dependent /\ ~Hangs(r) /\ ~r.before /\ ~r.after
      BY <1>2, <2>7 DEF Hangs
    <3>2. DepexRead(r)
      BY <3>1, <1>2, <1>3, <2>5, <2>7 DEF DepexRead
    <3>3. Sound(e, r) /\ ImageKept(r)
      BY <1>3, <2>7 DEF Sound, InOneState, ImageKept, Unread, Put
    <3> QED
      BY <3>1, <3>2, <3>3, <1>3, <2>7
  <2>9. /\ d' \in Activation
        /\ \/ d'.pc \in {"search", "evaluate"} /\ d'.frames = <<>>
           \/ d'.pc = "insert" /\ d'.frames = <<InsertFrame(e)>>
        /\ d'.pc = "evaluate" => d'.entry = e
    <3>1. CASE s = None
      <4>1. Result(FALSE)
        BY <3>1, <1>6
      <4> QED
        BY <4>1, <1>1, <1>3, ResultIs
    <3>2. CASE s # None
      <4>1. s \in Seq(BOOLEAN)
        BY <3>2, <2>1, ExecuteIs
      <4>2. d' = [d EXCEPT !.iterator = d.iterator + 1, !.bools = s]
        BY <3>2, <1>6
      <4>3. d.iterator + 1 \in Nat \ {0}
        BY <2>1
      <4> HIDE DEF s
      <4> QED
        BY <4>1, <4>2, <4>3, <1>1 DEF Activation
    <3> QED
      BY <3>1, <3>2
  <2> HIDE DEF e
  <2> QED
    BY <1>1, <1>2, <1>3, <1>4, <2>6, <2>7, <2>8, <2>9, SearchStep
<1> QED
  BY <1>5, <1>6 DEF Evaluate

-----------------------------------------------------------------------------
(* The insertion on the scheduled queue                                     *)

(* The innermost call, and the calls after it went on.                      *)
LEMMA TopFrame ==
  ASSUME IInv, d.pc = "insert"
  PROVE  /\ Len(d.frames) \in Nat /\ Len(d.frames) >= 1
         /\ DOMAIN d.frames = 1 .. Len(d.frames)
         /\ \A k \in 1 .. Len(d.frames) : d.frames[k] \in Frames
         /\ Frame = d.frames[Len(d.frames)] /\ Frame \in Frames
         /\ Frame.entry \in Found /\ FrameKept(Len(d.frames))
         /\ d \in Activation /\ running
<1>1. d.frames \in Seq(Frames) /\ d.frames # <<>> /\ d \in Activation /\ running
  BY Types DEF IInv, TypeOK
<1>2. /\ Len(d.frames) \in Nat /\ Len(d.frames) # 0
      /\ DOMAIN d.frames = 1 .. Len(d.frames)
      /\ \A k \in 1 .. Len(d.frames) : d.frames[k] \in Frames
  BY <1>1, ListIs, EmptySeq
<1>3. Len(d.frames) >= 1 /\ Len(d.frames) \in 1 .. Len(d.frames)
  BY <1>2
<1>4. Frame = d.frames[Len(d.frames)]
  BY DEF Frame, Last
<1>5. FrameKept(Len(d.frames))
  BY <1>2, <1>3 DEF IInv, FramesKept
<1> QED
  BY <1>1, <1>2, <1>3, <1>4, <1>5 DEF FrameKept

LEMMA FramesShorter ==
  ASSUME IInv, d.pc = "insert"
  PROVE  /\ Front(d.frames) \in Seq(Frames)
         /\ Len(Front(d.frames)) = Len(d.frames) - 1
         /\ \A k \in 1 .. Len(d.frames) - 1 : Front(d.frames)[k] = d.frames[k]
<1>1. /\ Len(d.frames) \in Nat /\ Len(d.frames) >= 1
      /\ \A k \in 1 .. Len(d.frames) : d.frames[k] \in Frames
  BY TopFrame
<1>2. \A k \in 1 .. Len(d.frames) - 1 : d.frames[k] \in Frames
  BY <1>1
<1> QED
  BY <1>1, <1>2, SubSeqProperties DEF Front

LEMMA BecomesIs ==
  ASSUME IInv, d.pc = "insert", NEW f \in Frames
  PROVE  /\ Becomes(f) \in Seq(Frames) /\ Len(Becomes(f)) = Len(d.frames)
         /\ \A k \in 1 .. Len(d.frames) - 1 : Becomes(f)[k] = d.frames[k]
         /\ Becomes(f)[Len(d.frames)] = f
<1> DEFINE s == Front(d.frames)
           n == Len(d.frames)
<1>1. n \in Nat /\ n >= 1
  BY TopFrame
<1>2. s \in Seq(Frames) /\ Len(s) = n - 1 /\ \A k \in 1 .. n - 1 : s[k] = d.frames[k]
  BY FramesShorter
<1>3. Becomes(f) = Append(s, f)
  BY DEF Becomes
<1> HIDE DEF s, n
<1>4. /\ Append(s, f) \in Seq(Frames) /\ Len(Append(s, f)) = Len(s) + 1
      /\ \A k \in 1 .. Len(s) : Append(s, f)[k] = s[k]
      /\ Append(s, f)[Len(s) + 1] = f
  BY <1>2, ListAppend
<1>5. Len(s) + 1 = n
  BY <1>1, <1>2
<1> QED
  BY <1>2, <1>3, <1>4, <1>5 DEF n

(* The innermost call goes on.                                              *)
LEMMA FramesGoOn ==
  ASSUME IInv, d.pc = "insert", NEW f \in Frames, f.entry = Frame.entry,
         d'.frames = Becomes(f), Found' = Found,
         \A k \in 1 .. Len(d.frames) - 1 : Steady(d.frames[k].entry),
         f.phase = "after" => Put(driver'[f.entry]),
         f.phase # "after" => driver'[f.entry].dependent,
         driver'[f.entry].before = driver[f.entry].before,
         driver'[f.entry].after = driver[f.entry].after,
         driver'[f.entry].depex = driver[f.entry].depex
  PROVE  FramesKept'
<1> DEFINE n == Len(d.frames)
           t == d'.frames
<1>1. /\ n \in Nat /\ n >= 1 /\ DOMAIN d.frames = 1 .. n
      /\ Frame = d.frames[n] /\ f.entry \in Found
  BY TopFrame
<1>2. /\ t \in Seq(Frames) /\ Len(t) = n /\ t[n] = f
      /\ \A k \in 1 .. n - 1 : t[k] = d.frames[k]
  BY BecomesIs
<1>3. DOMAIN t = 1 .. n
  BY <1>2, ListIs
<1>4. \A k \in 1 .. n : k \in 1 .. n - 1 \/ k = n
  BY <1>1
<1>5. \A k \in 1 .. n : t[k].entry = d.frames[k].entry
  BY <1>1, <1>2, <1>4
<1> HIDE DEF n, t
<1>6. ASSUME NEW k \in 1 .. n PROVE FrameKept(k)'
  <2>1. FrameKept(k)
    BY <1>1 DEF IInv, FramesKept
  <2>2. k > 1 => k - 1 \in 1 .. n - 1 /\ t[k - 1] = d.frames[k - 1]
    BY <1>1, <1>2
  <2>3. CASE k \in 1 .. n - 1
    <3>1. Steady(d.frames[k].entry) /\ t[k] = d.frames[k] /\ k < n
      BY <2>3, <1>1, <1>2 DEF n
    <3> QED
      BY <2>1, <2>2, <3>1, <1>2 DEF FrameKept, Steady, Hangs, Target, t, n
  <2>4. CASE k = n
    <3>1. t[k] = f /\ ~(k < n) /\ d.frames[k].entry = f.entry
      BY <2>4, <1>1, <1>2
    <3> QED
      BY <2>1, <2>2, <3>1, <1>1, <1>2 DEF FrameKept, Hangs, Target, t, n
  <2> QED
    BY <2>3, <2>4, <1>4
<1>7. \A j, k \in 1 .. n : t[j].entry = t[k].entry => j = k
  <2>1. \A j, k \in 1 .. n : d.frames[j].entry = d.frames[k].entry => j = k
    BY <1>1 DEF IInv, FramesKept
  <2> QED
    BY <2>1, <1>5
<1> QED
  BY <1>3, <1>6, <1>7 DEF FramesKept, t

(* The next entry that the loop of the innermost call recurses into.        *)
NextMatch == Min(Matches)

LEMMA NextMatchIs ==
  ASSUME IInv, d.pc = "insert", Matches # {}
  PROVE  /\ NextMatch \in 1 .. Len(discovered)
         /\ NextMatch >= Frame.link
         /\ discovered[NextMatch] \in Found
         /\ Wanted(discovered[NextMatch])
         /\ \A i \in Frame.link .. NextMatch - 1 : ~Wanted(discovered[i])
<1>1. discovered \in Seq(Entries) /\ Frame.link \in Nat \ {0}
  BY TopFrame, Types DEF IInv, Frames
<1>2. Len(discovered) \in Nat
  BY <1>1, ListIs
<1>3. Matches \subseteq Nat
  BY <1>1, <1>2 DEF Matches
<1>4. \E x \in Matches : \A y \in Matches : x <= y
  BY <1>3, FirstPlace
<1>5. NextMatch \in Matches /\ \A y \in Matches : NextMatch <= y
  BY <1>4 DEF NextMatch, Min
<1>6. NextMatch \in Frame.link .. Len(discovered) /\ Wanted(discovered[NextMatch])
  BY <1>5 DEF Matches
<1>7. NextMatch \in 1 .. Len(discovered) /\ NextMatch >= Frame.link
  BY <1>1, <1>2, <1>6
<1>8. discovered[NextMatch] \in Found
  BY <1>1, <1>7, ListIs DEF Found
<1>9. ASSUME NEW i \in Frame.link .. NextMatch - 1, Wanted(discovered[i]) PROVE FALSE
  <2>1. i \in Frame.link .. Len(discovered) /\ ~(NextMatch <= i)
    BY <1>1, <1>2, <1>7
  <2>2. i \in Matches
    BY <2>1, <1>9 DEF Matches
  <2> QED
    BY <2>1, <2>2, <1>5
<1> QED
  BY <1>6, <1>7, <1>8, <1>9

(* The recursion, or its return: only the frames change.                    *)
LEMMA OnlyFrames ==
  ASSUME IInv, d.pc = "insert",
         UNCHANGED <<discovered, queue, driver, notified, running, started,
                     disturbed, env>>,
         NEW s \in Seq(Frames), s # <<>>, d' = [d EXCEPT !.frames = s],
         FramesKept'
  PROVE  IInv'
<1>1. d \in Activation /\ running
  BY TopFrame
<1>2. d' \in Activation /\ d'.pc = "insert" /\ d'.frames = s
  BY <1>1 DEF Activation
<1>3. TypeOK'
  BY <1>1, <1>2 DEF IInv, TypeOK, env
<1>4. ListsKept'
  BY DEF IInv, ListsKept, Found, env
<1>5. DriversKept'
  BY NoEntry DEF IInv
<1>6. EntryKept'
  BY <1>2 DEF EntryKept
<1> QED
  BY <1>3, <1>4, <1>5, <1>6 DEF IInv

(* The frames after a recursive call.                                       *)
Deeper == Append(Becomes([Frame EXCEPT !.link = NextMatch + 1]),
                 InsertFrame(discovered[NextMatch]))

LEMMA DeeperIs ==
  ASSUME IInv, d.pc = "insert", Matches # {}
  PROVE  /\ Deeper \in Seq(Frames) /\ Len(Deeper) = Len(d.frames) + 1
         /\ DOMAIN Deeper = 1 .. Len(d.frames) + 1
         /\ \A k \in 1 .. Len(d.frames) - 1 : Deeper[k] = d.frames[k]
         /\ Deeper[Len(d.frames)] = [Frame EXCEPT !.link = NextMatch + 1]
         /\ Deeper[Len(d.frames) + 1] = InsertFrame(discovered[NextMatch])
<1> DEFINE n == Len(d.frames)
           f == [Frame EXCEPT !.link = NextMatch + 1]
           x == discovered[NextMatch]
           b == Becomes(f)
           g == InsertFrame(x)
<1>1. n \in Nat /\ n >= 1 /\ Frame \in Frames
  BY TopFrame
<1>2. NextMatch + 1 \in Nat \ {0} /\ x \in Entries
  BY NextMatchIs, Types, ListIs DEF IInv
<1>3. f \in Frames /\ g \in Frames
  BY <1>1, <1>2 DEF Frames, InsertFrame
<1>4. b \in Seq(Frames) /\ Len(b) = n /\ b[n] = f
      /\ \A k \in 1 .. n - 1 : b[k] = d.frames[k]
  BY <1>3, BecomesIs
<1>5. Deeper = Append(b, g)
  BY DEF Deeper
<1> HIDE DEF n, f, x, b, g
<1>6. /\ Append(b, g) \in Seq(Frames) /\ Len(Append(b, g)) = n + 1
      /\ \A k \in 1 .. n : Append(b, g)[k] = b[k]
      /\ Append(b, g)[n + 1] = g
      /\ DOMAIN Append(b, g) = 1 .. n + 1
  BY <1>3, <1>4, ListAppend
<1>7. n \in 1 .. n /\ \A k \in 1 .. n - 1 : k \in 1 .. n
  BY <1>1
<1>8. /\ Deeper \in Seq(Frames) /\ Len(Deeper) = n + 1
      /\ DOMAIN Deeper = 1 .. n + 1
      /\ \A k \in 1 .. n - 1 : Deeper[k] = d.frames[k]
      /\ Deeper[n] = f /\ Deeper[n + 1] = g
  BY ONLY <1>4, <1>5, <1>6, <1>7
<1> QED
  BY <1>8 DEF n, f, g, x

LEMMA InsertRecurseStep ==
  ASSUME IInv, InsertRecurse
  PROVE  IInv'
<1> DEFINE n == Len(d.frames)
           x == discovered[NextMatch]
           t == Deeper
<1>1. d.pc = "insert" /\ Frame.phase # "put" /\ Matches # {}
  BY DEF InsertRecurse, At
<1>2. /\ n \in Nat /\ n >= 1 /\ DOMAIN d.frames = 1 .. n
      /\ Frame = d.frames[n] /\ Frame \in Frames /\ FrameKept(n)
  BY <1>1, TopFrame
<1>3. x \in Found /\ Wanted(x)
  BY <1>1, NextMatchIs
<1>4. /\ t \in Seq(Frames) /\ Len(t) = n + 1 /\ DOMAIN t = 1 .. n + 1
      /\ \A k \in 1 .. n - 1 : t[k] = d.frames[k]
      /\ t[n] = [Frame EXCEPT !.link = NextMatch + 1]
      /\ t[n + 1] = InsertFrame(x)
  BY <1>1, DeeperIs
<1>5. /\ d' = [d EXCEPT !.frames = Deeper]
      /\ UNCHANGED <<discovered, queue, driver, notified, running, started,
                     disturbed, env>>
  BY DEF InsertRecurse, Deeper, NextMatch
<1>6. d \in Activation
  BY <1>1, TopFrame
<1>7. d'.frames = t
  BY <1>5, <1>6 DEF Activation
<1>8. Found' = Found /\ UNCHANGED driver
  BY <1>5 DEF Found
<1> HIDE DEF n, x, t
<1>9. /\ t[n].entry = d.frames[n].entry /\ t[n].phase = d.frames[n].phase
      /\ t[n + 1].entry = x /\ t[n + 1].phase = "before"
  BY <1>2, <1>4 DEF Frames, InsertFrame
<1>10. \A k \in 1 .. n : /\ t[k].entry = d.frames[k].entry
                         /\ t[k].phase = d.frames[k].phase
  <2>1. \A k \in 1 .. n : k \in 1 .. n - 1 \/ k = n
    BY <1>2
  <2> QED
    BY <2>1, <1>4, <1>9
<1>11. \A k \in 1 .. n + 1 : k \in 1 .. n \/ k = n + 1
  BY <1>2
<1>12. ASSUME NEW k \in 1 .. n PROVE FrameKept(k)'
  <2>1. FrameKept(k)
    BY <1>2 DEF IInv, FramesKept
  <2>2. k > 1 => k - 1 \in 1 .. n
    BY <1>2
  <2>3. k < n \/ k = n
    BY <1>2
  <2>4. d.frames[k].phase # "put"
    BY <2>1, <2>3, <1>1, <1>2 DEF FrameKept, n
  <2> QED
    BY <2>1, <2>2, <2>4, <1>4, <1>7, <1>8, <1>10 DEF FrameKept, Hangs, Target
<1>13. ASSUME NEW k \in 1 .. n + 1, k = n + 1 PROVE FrameKept(k)'
  <2>1. /\ driver[x].dependent /\ Target(x) = d.frames[n].entry
        /\ \/ d.frames[n].phase = "before" /\ driver[x].before
           \/ d.frames[n].phase = "after" /\ driver[x].after
    BY <1>2, <1>3 DEF Wanted
  <2>2. k > 1 /\ k # 1 /\ k - 1 = n /\ ~(k < Len(t))
    BY <1>2, <1>4, <1>13
  <2> QED
    BY <2>1, <2>2, <1>3, <1>7, <1>8, <1>9, <1>13 DEF FrameKept, Hangs, Target
<1>14. \A j, k \in 1 .. n : t[j].entry = t[k].entry => j = k
  <2>1. \A j, k \in 1 .. n : d.frames[j].entry = d.frames[k].entry => j = k
    BY <1>2 DEF IInv, FramesKept
  <2> QED
    BY <2>1, <1>10
<1>15. \A j \in 1 .. n : d.frames[j].entry # x
  <2> SUFFICES ASSUME NEW j \in 1 .. n, d.frames[j].entry = x PROVE FALSE
    OBVIOUS
  <2>1. FrameKept(j) /\ Hangs(driver[x])
    BY <1>2, <1>3 DEF IInv, FramesKept, Wanted, Hangs
  <2>2. j > 1 /\ Target(x) = d.frames[j - 1].entry
    BY <2>1, <1>2 DEF FrameKept
  <2>3. Target(x) = d.frames[n].entry /\ x # d.frames[n].entry
    BY <1>2, <1>3 DEF Wanted
  <2>4. j - 1 \in 1 .. n /\ n \in 1 .. n /\ j - 1 # n
    BY <1>2, <2>2
  <2>5. \A i, k \in 1 .. n : d.frames[i].entry = d.frames[k].entry => i = k
    BY <1>2 DEF IInv, FramesKept
  <2> QED
    BY <2>2, <2>3, <2>4, <2>5
<1>16. FramesKept'
  <2>1. ASSUME NEW k \in DOMAIN t PROVE FrameKept(k)'
    BY <1>4, <1>11, <1>12, <1>13
  <2>2. ASSUME NEW j \in DOMAIN t, NEW k \in DOMAIN t, t[j].entry = t[k].entry
        PROVE  j = k
    <3>1. /\ j \in 1 .. n \/ j = n + 1
          /\ k \in 1 .. n \/ k = n + 1
      BY <1>4, <1>11
    <3> QED
      BY <3>1, <2>2, <1>9, <1>10, <1>14, <1>15
  <2> QED
    BY <2>1, <2>2, <1>7 DEF FramesKept
<1>17. t # <<>>
  BY <1>2, <1>4
<1> QED
  BY <1>1, <1>4, <1>5, <1>16, <1>17, OnlyFrames DEF t

(* The innermost call returns to the one below it.                          *)
LEMMA FramesReturn ==
  ASSUME IInv, d.pc = "insert", Len(d.frames) > 1, d'.frames = Front(d.frames),
         UNCHANGED <<discovered, driver>>
  PROVE  FramesKept'
<1> DEFINE n == Len(d.frames)
           t == d'.frames
<1>1. n \in Nat /\ n > 1 /\ DOMAIN d.frames = 1 .. n
  BY TopFrame
<1>2. /\ t \in Seq(Frames) /\ Len(t) = n - 1
      /\ \A k \in 1 .. n - 1 : t[k] = d.frames[k]
  BY FramesShorter
<1>3. DOMAIN t = 1 .. n - 1
  BY <1>2, ListIs
<1>4. Found' = Found
  BY DEF Found
<1> HIDE DEF n, t
<1>5. ASSUME NEW k \in 1 .. n - 1 PROVE FrameKept(k)'
  <2>1. k \in 1 .. n /\ k < n
    BY <1>1
  <2>2. FrameKept(k)
    BY <1>1, <2>1 DEF IInv, FramesKept
  <2>3. k > 1 => k - 1 \in 1 .. n - 1
    BY <1>1
  <2> QED
    BY <2>1, <2>2, <2>3, <1>2, <1>4 DEF FrameKept, Hangs, Target, t, n
<1>6. \A j, k \in 1 .. n - 1 : t[j].entry = t[k].entry => j = k
  <2>1. \A j, k \in 1 .. n : d.frames[j].entry = d.frames[k].entry => j = k
    BY <1>1 DEF IInv, FramesKept
  <2>2. \A k \in 1 .. n - 1 : k \in 1 .. n
    BY <1>1
  <2> QED
    BY <2>1, <2>2, <1>2
<1> QED
  BY <1>3, <1>5, <1>6 DEF FramesKept, t

LEMMA InsertLoopEndStep ==
  ASSUME IInv, InsertLoopEnd
  PROVE  IInv'
<1>1. d.pc = "insert" /\ Frame.phase # "put"
  BY DEF InsertLoopEnd, At
<1>2. UNCHANGED <<discovered, queue, driver, notified, running, started,
                  disturbed, env>>
  BY DEF InsertLoopEnd
<1>3. /\ Len(d.frames) \in Nat /\ Len(d.frames) >= 1 /\ Frame \in Frames
      /\ Frame = d.frames[Len(d.frames)] /\ FrameKept(Len(d.frames))
      /\ d \in Activation /\ running
  BY <1>1, TopFrame
<1>4. Found' = Found
  BY <1>2 DEF Found
<1>5. CASE Frame.phase = "before"
  <2> DEFINE f == [Frame EXCEPT !.phase = "put"]
  <2>1. f \in Frames /\ f.entry = Frame.entry /\ f.phase = "put"
    BY <1>3 DEF Frames
  <2>2. d' = [d EXCEPT !.frames = Becomes(f)]
    BY <1>5 DEF InsertLoopEnd
  <2> HIDE DEF f
  <2>3. /\ Becomes(f) \in Seq(Frames) /\ Len(Becomes(f)) = Len(d.frames)
    BY <2>1, <1>1, BecomesIs
  <2>4. Becomes(f) # <<>>
    BY <2>3, <1>3
  <2>5. d'.frames = Becomes(f)
    BY <2>2, <1>3 DEF Activation
  <2>6. FramesKept'
    <3>1. driver[f.entry].dependent
      BY <2>1, <1>3, <1>5 DEF FrameKept
    <3>2. \A k \in 1 .. Len(d.frames) - 1 : Steady(d.frames[k].entry)
      BY <1>2 DEF Steady
    <3> QED
      BY <3>1, <3>2, <2>1, <2>5, <1>1, <1>2, <1>4, FramesGoOn
  <2> QED
    BY <2>2, <2>3, <2>4, <2>6, <1>1, <1>2, OnlyFrames
<1>6. CASE Frame.phase # "before" /\ Len(d.frames) > 1
  <2>1. d' = [d EXCEPT !.frames = Front(d.frames)]
    BY <1>6 DEF InsertLoopEnd
  <2>2. /\ Front(d.frames) \in Seq(Frames)
        /\ Len(Front(d.frames)) = Len(d.frames) - 1
    BY <1>1, FramesShorter
  <2>3. Front(d.frames) # <<>>
    BY <2>2, <1>3, <1>6
  <2>4. d'.frames = Front(d.frames)
    BY <2>1, <1>3 DEF Activation
  <2>5. FramesKept'
    BY <2>4, <1>1, <1>2, <1>6, FramesReturn
  <2> QED
    BY <2>1, <2>2, <2>3, <2>5, <1>1, <1>2, OnlyFrames
<1>7. CASE Frame.phase # "before" /\ ~(Len(d.frames) > 1)
  <2>1. d' = [NextEntry EXCEPT !.ready = TRUE]
    BY <1>7 DEF InsertLoopEnd
  <2>2. /\ NextEntry \in Activation /\ NextEntry.frames = <<>>
        /\ NextEntry.pc = "search"
    BY <1>3, NextEntryIs
  <2>3. d' \in Activation /\ d'.frames = <<>> /\ d'.pc = "search"
    BY <2>1, <2>2 DEF Activation
  <2>4. EntryKept'
    BY <2>3 DEF EntryKept
  <2> QED
    BY <2>3, <2>4, <1>2, <1>3, Moves DEF IInv, TypeOK
<1> QED
  BY <1>5, <1>6, <1>7

LEMMA InsertPutStep ==
  ASSUME IInv, InsertPut, Frame.entry \notin ToSet(queue)
  PROVE  IInv'
<1> DEFINE e == Frame.entry
           n == Len(d.frames)
           r == [driver[e] EXCEPT !.dependent = FALSE, !.scheduled = TRUE]
           f == [Frame EXCEPT !.phase = "after", !.link = 1]
<1>1. d.pc = "insert" /\ Frame.phase = "put"
  BY DEF InsertPut, At
<1>2. /\ n \in Nat /\ n >= 1 /\ Frame \in Frames
      /\ DOMAIN d.frames = 1 .. n
      /\ Frame = d.frames[n] /\ FrameKept(n) /\ e \in Found
      /\ d \in Activation /\ running
  BY <1>1, TopFrame
<1>3. /\ e \in Entries /\ driver[e] \in Driver /\ driver \in [Entries -> Driver]
      /\ Sound(e, driver[e]) /\ DepexRead(driver[e]) /\ ImageKept(driver[e])
      /\ driver[e].scheduled <=> e \in ToSet(queue)
  BY <1>2, FoundEntry
<1>4. driver[e].dependent /\ e \notin ToSet(queue)
  BY <1>1, <1>2 DEF FrameKept
<1>5. driver' = [driver EXCEPT ![e] = r]
  BY <1>3 DEF InsertPut, Enqueue
<1>6. queue' = Append(queue, e) /\ d' = [d EXCEPT !.frames = Becomes(f)]
  BY DEF InsertPut, Enqueue, At, Whole
<1>7. UNCHANGED <<discovered, notified, running, started, disturbed, env>>
  BY DEF InsertPut, Enqueue, env
<1>8. queue \in Seq(Entries) /\ IsInjective(queue)
  BY Types DEF IInv, ListsKept
<1>9. /\ queue' \in Seq(Entries) /\ IsInjective(queue')
      /\ ToSet(queue') = ToSet(queue) \cup {e}
  BY <1>3, <1>4, <1>6, <1>8, ListAppend
<1>10. /\ r \in Driver /\ ~r.dependent /\ r.scheduled
       /\ r.unrequested = driver[e].unrequested /\ r.untrusted = driver[e].untrusted
       /\ r.initialized = driver[e].initialized
       /\ r.protocolError = driver[e].protocolError
       /\ r.before = driver[e].before /\ r.after = driver[e].after
       /\ r.depex = driver[e].depex /\ r.image = driver[e].image
  BY <1>3 DEF Driver
<1>11. f \in Frames /\ f.entry = e /\ f.phase = "after"
  <2>1. 1 \in Nat \ {0}
    OBVIOUS
  <2> QED
    BY <2>1, <1>2 DEF Frames
<1> HIDE DEF e, n, r, f
<1>12. Sound(e, r) /\ DepexRead(r) /\ ImageKept(r)
  <2>1. DepexRead(r)
    BY <1>3, <1>10 DEF DepexRead, Hangs
  <2>2. Sound(e, r)
    BY <1>3, <1>4, <1>10 DEF Sound, InOneState, Unread, Put
  <2>3. ImageKept(r)
    BY <1>3, <1>10 DEF ImageKept
  <2> QED
    BY <2>1, <2>2, <2>3
<1>13. DriversKept'
  <2>1. /\ discovered' = discovered
        /\ \A x \in Entries : x # e => (x \in ToSet(queue)' <=> x \in ToSet(queue))
        /\ r.scheduled <=> e \in ToSet(queue)'
    BY <1>7, <1>9, <1>10
  <2> QED
    BY <2>1, <1>2, <1>3, <1>5, <1>10, <1>12, OneEntry DEF IInv
<1>14. /\ driver' \in [Entries -> Driver] /\ driver'[e] = r
       /\ \A x \in Entries : x # e => driver'[x] = driver[x]
  BY <1>3, <1>5, <1>10
<1>15. Found' = Found
  BY <1>7 DEF Found
<1>16. Becomes(f) \in Seq(Frames) /\ Len(Becomes(f)) = n
  BY <1>1, <1>11, BecomesIs DEF n
<1>17. Becomes(f) # <<>>
  BY <1>2, <1>16
<1>18. d' \in Activation /\ d'.pc = "insert" /\ d'.frames = Becomes(f)
  BY <1>1, <1>2, <1>6, <1>16 DEF Activation
<1>19. TypeOK'
  BY <1>2, <1>7, <1>9, <1>14, <1>17, <1>18 DEF IInv, TypeOK, env
<1>20. ListsKept'
  BY <1>2, <1>7, <1>9, <1>15 DEF IInv, ListsKept, Found, env
<1>21. EntryKept'
  BY <1>18 DEF EntryKept
<1>22. FramesKept'
  <2>1. ASSUME NEW k \in 1 .. n - 1 PROVE Steady(d.frames[k].entry)
    <3>1. k \in 1 .. n /\ n \in 1 .. n /\ k # n
      BY <1>2
    <3>2. d.frames[k].entry # e /\ FrameKept(k)
      BY <3>1, <1>2 DEF IInv, FramesKept, e
    <3>3. d.frames[k].entry \in Entries
      BY <3>2, Types DEF FrameKept, IInv
    <3> QED
      BY <3>2, <3>3, <1>14 DEF Steady
  <2>2. Put(driver'[e])
    BY <1>10, <1>14 DEF Put
  <2> QED
    BY <2>1, <2>2, <1>1, <1>10, <1>11, <1>14, <1>15, <1>18, FramesGoOn DEF e, n
<1> QED
  BY <1>13, <1>19, <1>20, <1>21, <1>22 DEF IInv

-----------------------------------------------------------------------------
(* Services                                                                 *)

(* A service that changes no entry.                                         *)
LEMMA PlainService ==
  ASSUME IInv, UNCHANGED <<discovered, queue, driver, processed, running, d, started,
                           broken>>,
         trusting' \in Seq(Entries), installed' \subseteq present', present' \subseteq Protocols,
         notified' \in Seq(Volumes), callbacks' \in 0 .. MaxCallbacks,
         disturbed' \in BOOLEAN
  PROVE  IInv'
<1>1. TypeOK'
  BY DEF IInv, TypeOK
<1>2. ListsKept'
  BY DEF IInv, ListsKept, Found
<1>3. DriversKept'
  BY NoEntry DEF IInv
<1>4. EntryKept'
  BY DEF IInv, EntryKept, Found
<1>5. FramesKept'
  BY DEF IInv, FramesKept, FrameKept, Found, Target
<1> QED
  BY <1>1, <1>2, <1>3, <1>4, <1>5 DEF IInv

(* An entry is linked twice.                                                *)
LEMMA BreaksStep ==
  ASSUME IInv, UNCHANGED <<discovered, queue, driver, processed, notified, running, d,
                           installed, present, started, callbacks, disturbed>>,
         trusting' \in Seq(Entries), broken' \in Entries
  PROVE  IInv'
<1>1. TypeOK'
  BY DEF IInv, TypeOK
<1>2. ListsKept'
  BY DEF IInv, ListsKept, Found
<1>3. DriversKept'
  BY NoEntry DEF IInv
<1>4. EntryKept'
  BY DEF IInv, EntryKept, Found
<1>5. FramesKept'
  BY DEF IInv, FramesKept, FrameKept, Found, Target
<1> QED
  BY <1>1, <1>2, <1>3, <1>4, <1>5 DEF IInv

(* The frame is for an entry that is on the queue already.                  *)
InsertBreaks == InsertPut /\ Frame.entry \in ToSet(queue)

LEMMA BreakIs ==
  ASSUME IInv, InsertBreaks
  PROVE  /\ Frame.entry \in Odd /\ Frame.entry \in Entries /\ broken' = Frame.entry
         /\ UNCHANGED <<discovered, queue, driver, processed, notified, running, d,
                        installed, present, started, trusting, callbacks, disturbed>>
<1>1. d.pc = "insert" /\ Frame.phase = "put" /\ Whole
  BY DEF InsertBreaks, InsertPut, At
<1>2. Frame.entry \in Found /\ driver[Frame.entry].dependent
  BY <1>1, TopFrame DEF FrameKept
<1>3. PICK e \in Found : e = Frame.entry
  BY <1>2
<1>4. /\ e \in Entries /\ Sound(e, driver[e])
      /\ driver[e].scheduled <=> e \in ToSet(queue)
  BY FoundEntry
<1>5. e \in Odd
  BY <1>2, <1>3, <1>4 DEF InsertBreaks, Sound, InOneState, Unread, Put
<1>6. broken' = e /\ UNCHANGED <<queue, driver>>
  BY <1>3 DEF InsertBreaks, InsertPut, Enqueue
<1>7. broken' # None
  BY <1>4, <1>6, DispatcherAssumption
<1> QED
  BY <1>3, <1>4, <1>5, <1>6, <1>7 DEF InsertBreaks, InsertPut

LEMMA InsertBreaksStep ==
  ASSUME IInv, InsertBreaks
  PROVE  IInv'
<1>1. trusting \in Seq(Entries)
  BY DEF IInv, TypeOK
<1> QED
  BY <1>1, BreakIs, BreaksStep

(* A service that changes one, and may queue it.                            *)
LEMMA EntryService ==
  ASSUME IInv, NEW e \in Found, NEW r \in Driver,
         driver' = [driver EXCEPT ![e] = r],
         UNCHANGED <<discovered, processed, notified, installed, present, running, d,
                     started, broken>>, trusting' \in Seq(Entries),
         callbacks' \in 0 .. MaxCallbacks, disturbed' \in BOOLEAN,
         queue' = queue \/ (e \notin ToSet(queue) /\ queue' = Append(queue, e)),
         Sound(e, r), ImageKept(r), DepexRead(r),
         r.scheduled <=> e \in ToSet(queue'),
         driver[e].dependent => r.dependent,
         Put(driver[e]) => Put(r),
         driver[e].initialized => r.initialized,
         r.protocolError = driver[e].protocolError,
         r.before = driver[e].before, r.after = driver[e].after,
         r.depex = driver[e].depex, r.image = driver[e].image
  PROVE  IInv'
<1>1. /\ e \in Entries /\ driver[e] \in Driver /\ driver \in [Entries -> Driver]
      /\ DepexRead(driver[e])
  BY FoundEntry
<1>2. /\ driver' \in [Entries -> Driver] /\ driver'[e] = r
      /\ \A x \in Entries : x # e => driver'[x] = driver[x]
  BY <1>1
<1>3. queue \in Seq(Entries) /\ IsInjective(queue) /\ ToSet(queue) \subseteq Found
  BY Types DEF IInv, ListsKept
<1>4. /\ queue' \in Seq(Entries) /\ IsInjective(queue')
      /\ \A x \in Entries : x # e => (x \in ToSet(queue') <=> x \in ToSet(queue))
      /\ ToSet(queue') \subseteq Found
      /\ queue # <<>> => queue' # <<>> /\ queue'[1] = queue[1]
  <2>1. CASE queue' = queue
    BY <2>1, <1>3
  <2>2. CASE e \notin ToSet(queue) /\ queue' = Append(queue, e)
    <3>1. /\ Append(queue, e) \in Seq(Entries) /\ IsInjective(Append(queue, e))
          /\ ToSet(Append(queue, e)) = ToSet(queue) \cup {e}
          /\ Len(Append(queue, e)) = Len(queue) + 1
          /\ \A i \in 1 .. Len(queue) : Append(queue, e)[i] = queue[i]
      BY <1>1, <1>3, <2>2, ListAppend
    <3>2. Len(queue) \in Nat /\ (queue # <<>> => Len(queue) # 0)
      BY <1>3, ListIs, EmptySeq
    <3>3. queue # <<>> => 1 \in 1 .. Len(queue)
      BY <3>2
    <3>4. queue # <<>> => Append(queue, e) # <<>>
      BY <3>1, <3>2
    <3>5. queue # <<>> => Append(queue, e)[1] = queue[1]
      BY <3>1, <3>3
    <3>6. queue' = Append(queue, e)
      BY <2>2
    <3> QED
      BY <1>3, <3>1, <3>4, <3>5, <3>6
  <2> QED
    BY <2>1, <2>2
<1>5. Found' = Found
  BY DEF Found
<1>7. DriversKept'
  BY <1>1, <1>4, OneEntry DEF IInv
<1>8. TypeOK'
  BY <1>2, <1>4 DEF IInv, TypeOK
<1>9. ListsKept'
  BY <1>4, <1>5 DEF IInv, ListsKept, Found
<1>10. EntryKept'
  <2>1. EntryKept
    BY DEF IInv
  <2>2. \A x \in Entries : /\ driver'[x].image = driver[x].image
                           /\ driver[x].initialized => driver'[x].initialized
                           /\ driver[x].dependent => driver'[x].dependent
                           /\ Hangs(driver'[x]) = Hangs(driver[x])
    BY <1>2 DEF Hangs
  <2>3. d.pc = "loaded" => queue[1] \in Entries
    BY FirstQueued, Types DEF IInv, EntryKept
  <2>4. Found \subseteq Entries
    BY Types DEF IInv
  <2> QED
    BY <2>1, <2>2, <2>3, <2>4, <1>4, <1>5 DEF EntryKept
<1>11. FramesKept'
  <2>1. \A x \in Entries : Steady(x)
    BY <1>2 DEF Steady
  <2>2. ASSUME NEW k \in DOMAIN d.frames PROVE d.frames[k].entry \in Entries
    BY Types DEF IInv, FramesKept, FrameKept
  <2> QED
    BY <2>1, <2>2, <1>5, FramesSteady DEF IInv
<1> QED
  BY <1>7, <1>8, <1>9, <1>10, <1>11 DEF IInv

LEMMA ServiceStep ==
  ASSUME IInv, Service, callbacks' \in 0 .. MaxCallbacks, disturbed' \in BOOLEAN
  PROVE  IInv'
<1>1. UNCHANGED <<discovered, queue, processed, running, d, started, broken>>
  BY DEF Service
<1>2. /\ installed \subseteq present /\ present \subseteq Protocols
      /\ notified \in Seq(Volumes) /\ trusting \in Seq(Entries)
  BY DEF IInv, TypeOK
<1>3. CASE \E p \in Protocols : InstallProtocol(p) \/ UninstallProtocol(p)
  <2>1. PICK p \in Protocols : InstallProtocol(p) \/ UninstallProtocol(p)
    BY <1>3
  <2>2. /\ installed' \subseteq present' /\ present' \subseteq Protocols
        /\ UNCHANGED <<notified, driver, trusting>>
    BY <2>1, <1>2 DEF InstallProtocol, UninstallProtocol
  <2> QED
    BY <2>2, <1>1, <1>2, PlainService
<1>4. CASE \E fv \in Volumes : InstallVolume(fv)
  <2>1. PICK fv \in Volumes : InstallVolume(fv)
    BY <1>4
  <2>2. <<fv>> \in Seq(Volumes)
    OBVIOUS
  <2> QED
    BY <2>1, <2>2, <1>1, <1>2, PlainService DEF InstallVolume
<1>5. ASSUME NEW e \in Entries, CoreSchedule(e) PROVE IInv'
  <2> DEFINE r == [driver[e] EXCEPT !.unrequested = FALSE, !.dependent = TRUE]
  <2>1. e \in Found /\ driver[e].unrequested
    BY <1>5 DEF CoreSchedule, Found
  <2>2. /\ driver[e] \in Driver /\ driver \in [Entries -> Driver]
        /\ Sound(e, driver[e]) /\ ImageKept(driver[e]) /\ DepexRead(driver[e])
        /\ driver[e].scheduled <=> e \in ToSet(queue)
    BY <2>1, FoundEntry
  <2>3. /\ driver' = [driver EXCEPT ![e] = r] /\ UNCHANGED <<installed, present, notified, trusting>>
    BY <2>2, <1>5 DEF CoreSchedule
  <2>4. /\ r \in Driver /\ ~r.unrequested /\ r.dependent
        /\ r.scheduled = driver[e].scheduled /\ r.untrusted = driver[e].untrusted
        /\ r.initialized = driver[e].initialized
        /\ r.protocolError = driver[e].protocolError
        /\ r.before = driver[e].before /\ r.after = driver[e].after
        /\ r.depex = driver[e].depex /\ r.image = driver[e].image
    BY <2>2 DEF Driver
  <2> HIDE DEF r
  <2>5. Sound(e, r) /\ ImageKept(r) /\ (Put(driver[e]) => Put(r)) /\ DepexRead(r)
    <3>1. ~r.protocolError
      BY <2>1, <2>2, <2>4 DEF DepexRead
    <3>2. DepexRead(r)
      BY <2>2, <2>4, <3>1 DEF DepexRead, Hangs
    <3>3. Sound(e, r)
      BY <2>1, <2>2, <2>4, <3>1 DEF Sound, InOneState, Unread, Put
    <3>4. ImageKept(r) /\ (Put(driver[e]) => Put(r))
      BY <2>2, <2>4 DEF ImageKept, Put
    <3> QED
      BY <3>2, <3>3, <3>4
  <2>6. r.scheduled <=> e \in ToSet(queue)'
    BY <2>2, <2>4, <1>1
  <2>7. trusting' \in Seq(Entries) /\ queue' = queue
    BY <2>3, <1>1, <1>2
  <2>8. r.scheduled <=> e \in ToSet(queue')
    BY <2>6
  <2> QED
    BY <2>1, <2>3, <2>4, <2>5, <2>7, <2>8, <1>1, EntryService
<1>6. ASSUME NEW e \in Entries, CoreTrust(e) PROVE IInv'
  <2>1. trusting' \in Seq(Entries)
    BY <1>2, <1>6, ListAppend DEF CoreTrust
  <2> QED
    BY <2>1, <1>1, <1>2, <1>6, PlainService DEF CoreTrust
<1> QED
  BY <1>3, <1>4, <1>5, <1>6 DEF Service

(* The driver that is being trusted.                                        *)
LEMMA LastTrusted ==
  ASSUME IInv, TrustKept, TrustInserts
  PROVE  LET e == Last(trusting)
         IN  /\ e \in Found /\ (driver[e].untrusted \/ driver[e].scheduled)
             /\ Front(trusting) \in Seq(Entries)
             /\ \A k \in DOMAIN Front(trusting) :
                  k \in DOMAIN trusting /\ Front(trusting)[k] = trusting[k]
<1>1. trusting \in Seq(Entries) /\ trusting # <<>>
  BY DEF IInv, TypeOK, TrustInserts
<1>2. /\ Len(trusting) \in Nat /\ Len(trusting) # 0
      /\ DOMAIN trusting = 1 .. Len(trusting)
      /\ \A k \in 1 .. Len(trusting) : trusting[k] \in Entries
  BY <1>1, ListIs, EmptySeq
<1>3. Len(trusting) \in DOMAIN trusting /\ Last(trusting) = trusting[Len(trusting)]
  BY <1>2 DEF Last
<1>4. /\ Front(trusting) \in Seq(Entries)
      /\ Len(Front(trusting)) = Len(trusting) - 1
      /\ \A k \in 1 .. Len(trusting) - 1 : Front(trusting)[k] = trusting[k]
  <2>1. \A k \in 1 .. Len(trusting) - 1 : trusting[k] \in Entries
    BY <1>2
  <2> QED
    BY <1>2, <2>1, SubSeqProperties DEF Front
<1>5. DOMAIN Front(trusting) = 1 .. Len(trusting) - 1
  BY <1>4, ListIs
<1>6. \A k \in 1 .. Len(trusting) - 1 : k \in 1 .. Len(trusting)
  BY <1>2
<1> QED
  BY <1>2, <1>3, <1>4, <1>5, <1>6 DEF TrustKept

LEMMA TrustInsertsStep ==
  ASSUME IInv, TrustKept, TrustInserts
  PROVE  IInv'
<1>1. PICK e \in Found : /\ e = Last(trusting)
                         /\ driver[e].untrusted \/ driver[e].scheduled
                         /\ Front(trusting) \in Seq(Entries)
  BY LastTrusted
<1>2. /\ UNCHANGED <<discovered, processed, notified, running, d, installed, present,
                     started, callbacks, disturbed>>
      /\ Whole /\ trusting' = IF Whole' THEN Front(trusting) ELSE trusting
  BY DEF TrustInserts, Whole
<1>3. /\ e \in Entries /\ driver[e] \in Driver /\ driver \in [Entries -> Driver]
      /\ Sound(e, driver[e]) /\ ImageKept(driver[e]) /\ DepexRead(driver[e])
      /\ driver[e].scheduled <=> e \in ToSet(queue)
  BY FoundEntry
<1>4. CASE e \notin ToSet(queue)
  <2> DEFINE r == [driver[e] EXCEPT !.untrusted = FALSE, !.scheduled = TRUE]
  <2>1. /\ queue' = Append(queue, e) /\ driver' = [driver EXCEPT ![e] = r]
        /\ UNCHANGED broken
    BY <1>1, <1>4 DEF TrustInserts, Enqueue
  <2>2. trusting' \in Seq(Entries)
    BY <2>1, <1>1, <1>2 DEF Whole
  <2>3. driver[e].untrusted
    BY <1>1, <1>3, <1>4
  <2>4. /\ r \in Driver /\ ~r.untrusted /\ r.scheduled
        /\ r.dependent = driver[e].dependent /\ r.unrequested = driver[e].unrequested
        /\ r.initialized = driver[e].initialized
        /\ r.protocolError = driver[e].protocolError
        /\ r.before = driver[e].before /\ r.after = driver[e].after
        /\ r.depex = driver[e].depex /\ r.image = driver[e].image
    BY <1>3 DEF Driver
  <2> HIDE DEF r
  <2>5. Sound(e, r) /\ ImageKept(r) /\ Put(r)
    BY <2>3, <2>4, <1>3 DEF Sound, InOneState, ImageKept, Unread, Put
  <2>6. DepexRead(r)
    BY <2>4, <1>3 DEF DepexRead, Hangs
  <2>7. e \in ToSet(queue')
    <3>1. queue \in Seq(Entries)
      BY Types DEF IInv
    <3>2. ToSet(Append(queue, e)) = ToSet(queue) \cup {e}
      BY <3>1, <1>3, ListAppend
    <3> QED
      BY <2>1, <3>2
  <2>8. callbacks' \in 0 .. MaxCallbacks /\ disturbed' \in BOOLEAN
    BY <1>2 DEF IInv, TypeOK
  <2> QED
    BY <2>1, <2>2, <2>4, <2>5, <2>6, <2>7, <2>8, <1>2, <1>4, EntryService
<1>5. CASE e \in ToSet(queue)
  <2>1. UNCHANGED <<queue, driver>> /\ broken' = e
    BY <1>1, <1>5 DEF TrustInserts, Enqueue
  <2>2. trusting' \in Seq(Entries)
    BY <1>1, <1>2 DEF IInv, TypeOK
  <2> QED
    BY <2>1, <2>2, <1>2, <1>3, BreaksStep
<1> QED
  BY <1>4, <1>5

LEMMA CallStep ==
  ASSUME IInv, Call \/ Callback
  PROVE  IInv'
<1>1. callbacks \in 0 .. MaxCallbacks /\ disturbed \in BOOLEAN /\ MaxCallbacks \in Nat
  BY DispatcherAssumption DEF IInv, TypeOK
<1>2. Service /\ callbacks' \in 0 .. MaxCallbacks /\ disturbed' \in BOOLEAN
  <2>1. CASE Call
    BY <2>1, <1>1 DEF Call
  <2>2. CASE Callback
    BY <2>2, <1>1 DEF Callback
  <2> QED
    BY <2>1, <2>2
<1> QED
  BY <1>2, ServiceStep

-----------------------------------------------------------------------------
(* Discovery                                                                *)

(* What a notification of a volume looks at, and what it finds.             *)
Volume   == Head(notified)
NewFiles == Selected(Files[Volume], {e \in Entries : Listed(e)})
First    == Selected(Apriori[Volume], ToSet(NewFiles))
Images   == Selected(Files[Volume], {e \in Entries : ~Listed(e)})

LEMMA VolumeIs ==
  ASSUME IInv, ~Quiet
  PROVE  /\ Volume \in Volumes /\ Tail(notified) \in Seq(Volumes)
         /\ NewFiles \in Seq(Entries) /\ IsInjective(NewFiles)
         /\ First \in Seq(Entries) /\ IsInjective(First)
         /\ ToSet(NewFiles) \subseteq ToSet(Files[Volume])
         /\ ToSet(First) \subseteq ToSet(NewFiles)
         /\ ToSet(First) \subseteq AprioriEntries
         /\ Images \in Seq(Entries) /\ \A e \in ToSet(Images) : ~Listed(e)
<1>1. notified \in Seq(Volumes) /\ notified # <<>>
  BY Types DEF IInv, Quiet
<1>2. Volume \in Volumes /\ Tail(notified) \in Seq(Volumes)
  BY <1>1, HeadTailProperties DEF Volume
<1>3. /\ Files[Volume] \in Seq(Entries) /\ IsInjective(Files[Volume])
      /\ Apriori[Volume] \in Seq(Entries) /\ IsInjective(Apriori[Volume])
  BY <1>2, DispatcherAssumption
<1> DEFINE L == {e \in Entries : Listed(e)}
           U == {e \in Entries : ~Listed(e)}
<1> HIDE DEF L, U
<1>4. /\ NewFiles \in Seq(Entries) /\ IsInjective(NewFiles)
      /\ \A x : x \in ToSet(NewFiles) <=> x \in ToSet(Files[Volume]) /\ x \in L
  BY <1>3, SelectedIs DEF NewFiles, L
<1>5. /\ First \in Seq(Entries) /\ IsInjective(First)
      /\ \A x : x \in ToSet(First) <=>
                  x \in ToSet(Apriori[Volume]) /\ x \in ToSet(NewFiles)
  BY <1>3, SelectedIs DEF First
<1>6. /\ Images \in Seq(Entries)
      /\ \A x : x \in ToSet(Images) <=> x \in ToSet(Files[Volume]) /\ x \in U
  BY <1>3, SelectedIs DEF Images, U
<1>7. ToSet(First) \subseteq AprioriEntries
  BY <1>2, <1>4, <1>5 DEF AprioriEntries
<1> QED
  BY <1>2, <1>4, <1>5, <1>6, <1>7 DEF U

(* The volumes that FV images of it produce.                                *)
LEMMA ProducedIs ==
  ASSUME IInv, ~Quiet
  PROVE  Produced(Images) \in Seq(Volumes)
<1> DEFINE R == {e \in Entries : Readable(e)}
           s == Selected(Images, R)
<1>1. Images \in Seq(Entries) /\ \A e \in ToSet(Images) : ~Listed(e)
  BY VolumeIs
<1>2. s \in Seq(Entries) /\ \A x : x \in ToSet(s) => x \in ToSet(Images)
  <2> HIDE DEF R
  <2> QED
    BY <1>1, SelectedIs
<1>3. Produced(Images) = [k \in DOMAIN s |-> VolumeIn[s[k]]]
  BY DEF Produced
<1> HIDE DEF s
<1>4. /\ Len(s) \in Nat /\ DOMAIN s = 1 .. Len(s)
      /\ \A k \in 1 .. Len(s) : s[k] \in Entries /\ s[k] \in ToSet(s)
  BY <1>2, ListIs
<1>5. \A k \in 1 .. Len(s) : VolumeIn[s[k]] \in Volumes
  BY <1>1, <1>2, <1>4, DispatcherAssumption DEF Listed, IsFvImage
<1>6. [k \in DOMAIN s |-> VolumeIn[s[k]]] \in Seq(Volumes)
  BY <1>4, <1>5
<1> QED
  BY <1>3, <1>6

(* The entry of a file that has just been discovered, and of one that is in the
   a priori file.                                                           *)
LEMMA NewEntry ==
  ASSUME IInv, NEW e \in Entries, e \notin Found
  PROVE  LET r == CoreGetDepexSection(e)
         IN  /\ r \in Driver /\ Sound(e, r) /\ DepexRead(r) /\ ImageKept(r)
             /\ ~r.scheduled /\ ~Put(r) /\ r.image = None
             /\ r.depex = driver[e].depex
             /\ e \in AprioriEntries /\ e \notin Odd =>
                  r.dependent /\ ~r.unrequested /\ ~r.protocolError
<1> DEFINE r == CoreGetDepexSection(e)
<1>1. driver[e] \in Driver /\ Fresh(e, driver[e])
  BY Types DEF IInv, DriversKept
<1>2. Unstated(driver[e])
  BY <1>1, DispatcherAssumption DEF Fresh, Unstated, Hangs
<1>3. /\ r \in Driver
      /\ r.protocolError <=> ~Readable(e)
      /\ r.dependent \/ r.unrequested \/ r.protocolError
      /\ r.dependent => ~r.unrequested /\ ~r.protocolError
      /\ r.unrequested => /\ ~r.protocolError /\ r.depex # None
                          /\ r.depex[1].op = "SOR"
      /\ r.scheduled = driver[e].scheduled /\ r.untrusted = driver[e].untrusted
      /\ r.initialized = driver[e].initialized
      /\ r.depex = driver[e].depex /\ r.image = driver[e].image
      /\ DepexRead(r)
  BY <1>1, <1>2, DepexSection
<1> HIDE DEF r
<1>4. Sound(e, r) /\ ImageKept(r) /\ ~Put(r) /\ ~r.scheduled /\ r.image = None
  BY <1>1, <1>3 DEF Sound, InOneState, ImageKept, Unread, Put, Fresh
<1>5. ASSUME e \in AprioriEntries, e \notin Odd PROVE ~r.unrequested /\ ~r.protocolError
  <2>1. /\ e \notin Encapsulated
        /\ \A c \in Depexes[e] : c # None => c[1].op # "SOR"
    BY <1>5 DEF Odd
  <2>2. r.depex \in Depexes[e]
    BY <1>1, <1>3 DEF Fresh
  <2> QED
    BY <2>1, <2>2, <1>3 DEF Readable
<1> QED
  BY <1>3, <1>4, <1>5 DEF r

(* A volume is processed.                                                   *)
Discovers == FwVolNotify /\ Volume \notin processed

LEMMA DiscoversIs ==
  ASSUME IInv, Discovers
  PROVE  /\ discovered' = discovered \o NewFiles /\ queue' = queue \o First
         /\ Found' = Found \cup ToSet(NewFiles)
         /\ ToSet(queue') = ToSet(queue) \cup ToSet(First)
         /\ \A e \in ToSet(NewFiles) : e \in Entries /\ e \notin Found
         /\ ToSet(First) \subseteq ToSet(NewFiles)
         /\ \A e \in Entries : e \notin ToSet(NewFiles) => driver'[e] = driver[e]
         /\ \A e \in ToSet(NewFiles) :
              LET r == driver'[e]
              IN  /\ r \in Driver /\ Sound(e, r) /\ DepexRead(r) /\ ImageKept(r)
                  /\ r.scheduled <=> e \in ToSet(First)
                  /\ r.image = None /\ ~r.untrusted /\ ~r.initialized
                  /\ e \in ToSet(First) => e \in AprioriEntries
         /\ driver' \in [Entries -> Driver]
         /\ notified' = Tail(notified) \o Produced(Images)
         /\ processed' = processed \cup {Volume}
<1>1. /\ ~Quiet /\ Volume \notin processed
      /\ processed' = processed \cup {Volume}
      /\ discovered' = discovered \o NewFiles
      /\ driver' = [e \in Entries |->
                 IF e \in ToSet(First)
                 THEN [CoreGetDepexSection(e) EXCEPT !.dependent = FALSE,
                                                     !.scheduled = TRUE]
                 ELSE IF e \in ToSet(NewFiles) THEN CoreGetDepexSection(e)
                 ELSE driver[e]]
      /\ queue' = queue \o First
      /\ notified' = Tail(notified) \o Produced(Images)
  BY DEF Discovers, FwVolNotify, Volume, NewFiles, First, Images
<1>2. /\ Volume \in Volumes
      /\ NewFiles \in Seq(Entries) /\ IsInjective(NewFiles)
      /\ First \in Seq(Entries) /\ IsInjective(First)
      /\ ToSet(NewFiles) \subseteq ToSet(Files[Volume])
      /\ ToSet(First) \subseteq ToSet(NewFiles)
      /\ ToSet(First) \subseteq AprioriEntries
  BY <1>1, VolumeIs
<1>3. discovered \in Seq(Entries) /\ queue \in Seq(Entries)
  BY Types DEF IInv
<1>4. /\ Found' = Found \cup ToSet(NewFiles)
      /\ ToSet(queue') = ToSet(queue) \cup ToSet(First)
  <2>1. ToSet(discovered \o NewFiles) = ToSet(discovered) \cup ToSet(NewFiles)
    BY <1>2, <1>3, ListConcat
  <2>2. ToSet(queue \o First) = ToSet(queue) \cup ToSet(First)
    BY <1>2, <1>3, ListConcat
  <2>3. Found' = ToSet(discovered \o NewFiles)
    BY <1>1 DEF Found
  <2> QED
    BY <2>1, <2>2, <2>3, <1>1 DEF Found
<1>5. ASSUME NEW e \in ToSet(NewFiles) PROVE e \in Entries /\ e \notin Found
  <2>1. e \in Entries /\ e \in ToSet(Files[Volume])
    BY <1>2, ListIs
  <2>2. ASSUME e \in Found PROVE FALSE
    <3>1. PICK fv \in processed : e \in ToSet(Files[fv])
      BY <2>2 DEF IInv, ListsKept
    <3>2. fv \in Volumes /\ fv # Volume
      BY <1>1 DEF IInv, TypeOK
    <3> QED
      BY <2>1, <3>1, <3>2, <1>2, DispatcherAssumption
  <2> QED
    BY <2>1, <2>2
<1>6. \A e \in Entries : e \notin ToSet(NewFiles) => driver'[e] = driver[e]
  BY <1>1, <1>2
<1>7. ASSUME NEW e \in ToSet(NewFiles)
      PROVE  /\ driver'[e] \in Driver /\ Sound(e, driver'[e])
             /\ DepexRead(driver'[e]) /\ ImageKept(driver'[e])
             /\ driver'[e].scheduled <=> e \in ToSet(First)
             /\ driver'[e].image = None
             /\ ~driver'[e].untrusted /\ ~driver'[e].initialized
             /\ e \in ToSet(First) => e \in AprioriEntries
  <2> DEFINE r == CoreGetDepexSection(e)
             q == [r EXCEPT !.dependent = FALSE, !.scheduled = TRUE]
  <2>1. e \in Entries /\ e \notin Found
    BY <1>5
  <2>2. /\ r \in Driver /\ Sound(e, r) /\ DepexRead(r) /\ ImageKept(r)
        /\ ~r.scheduled /\ ~Put(r) /\ r.image = None
        /\ e \in AprioriEntries /\ e \notin Odd =>
                  r.dependent /\ ~r.unrequested /\ ~r.protocolError
    BY <2>1, NewEntry
  <2>3. driver'[e] = IF e \in ToSet(First) THEN q ELSE r
    BY <2>1, <1>1
  <2>4. CASE e \notin ToSet(First)
    BY <2>2, <2>3, <2>4 DEF Put
  <2>5. CASE e \in ToSet(First)
    <3> HIDE DEF r
    <3>1. e \notin Odd => r.dependent /\ ~r.unrequested /\ ~r.protocolError
      BY <2>2, <2>5, <1>2
    <3>2. /\ q \in Driver /\ ~q.dependent /\ q.scheduled
          /\ q.unrequested = r.unrequested /\ q.untrusted = r.untrusted
          /\ q.initialized = r.initialized /\ q.protocolError = r.protocolError
          /\ q.before = r.before /\ q.after = r.after
          /\ q.depex = r.depex /\ q.image = r.image
      BY <2>2 DEF Driver
    <3> HIDE DEF q
    <3>3. Sound(e, q) /\ ImageKept(q)
      BY <2>2, <3>1, <3>2 DEF Sound, InOneState, ImageKept, Unread, Put
    <3>4. DepexRead(q)
      BY <2>2, <3>2 DEF DepexRead, Hangs
    <3>5. ~q.untrusted /\ ~q.initialized
      BY <2>2, <3>2 DEF Put
    <3> QED
      BY <2>2, <2>3, <2>5, <3>2, <3>3, <3>4, <3>5, <1>2
  <2> QED
    BY <2>4, <2>5
<1>8. driver' \in [Entries -> Driver]
  <2>1. \A e \in Entries : driver'[e] \in Driver
    BY <1>6, <1>7, Types DEF IInv
  <2> QED
    BY <2>1, <1>1
<1> QED
  BY <1>1, <1>2, <1>4, <1>5, <1>6, <1>7, <1>8

LEMMA DiscoversStep ==
  ASSUME IInv, Discovers
  PROVE  IInv'
<1>1. /\ discovered' = discovered \o NewFiles /\ queue' = queue \o First
      /\ Found' = Found \cup ToSet(NewFiles)
      /\ ToSet(queue') = ToSet(queue) \cup ToSet(First)
      /\ \A e \in ToSet(NewFiles) : e \in Entries /\ e \notin Found
      /\ ToSet(First) \subseteq ToSet(NewFiles)
      /\ \A e \in Entries : e \notin ToSet(NewFiles) => driver'[e] = driver[e]
      /\ \A e \in ToSet(NewFiles) :
              /\ Sound(e, driver'[e]) /\ DepexRead(driver'[e])
              /\ ImageKept(driver'[e])
              /\ driver'[e].scheduled <=> e \in ToSet(First)
      /\ driver' \in [Entries -> Driver]
      /\ notified' = Tail(notified) \o Produced(Images)
      /\ processed' = processed \cup {Volume}
  BY DiscoversIs
<1>2. /\ ~Quiet
      /\ UNCHANGED <<running, d, installed, present, started, trusting, broken, callbacks,
                     disturbed>>
  BY DEF Discovers, FwVolNotify
<1>3. /\ Volume \in Volumes /\ Tail(notified) \in Seq(Volumes)
      /\ NewFiles \in Seq(Entries) /\ IsInjective(NewFiles)
      /\ First \in Seq(Entries) /\ IsInjective(First)
      /\ ToSet(NewFiles) \subseteq ToSet(Files[Volume])
      /\ Produced(Images) \in Seq(Volumes)
  BY <1>2, VolumeIs, ProducedIs
<1>4. /\ discovered \in Seq(Entries) /\ queue \in Seq(Entries)
      /\ IsInjective(discovered) /\ IsInjective(queue)
      /\ ToSet(queue) \subseteq Found /\ Found \subseteq Entries
  BY Types DEF IInv, ListsKept
<1>5. /\ discovered' \in Seq(Entries) /\ queue' \in Seq(Entries)
      /\ notified' \in Seq(Volumes)
  BY <1>1, <1>3, <1>4, ListConcat
<1>6. IsInjective(discovered') /\ IsInjective(queue')
  <2>1. ToSet(discovered) \cap ToSet(NewFiles) = {} /\ ToSet(queue) \cap ToSet(First) = {}
    BY <1>1, <1>4 DEF Found
  <2> QED
    BY <2>1, <1>1, <1>3, <1>4, ListConcat
<1>7. TypeOK'
  BY <1>1, <1>2, <1>3, <1>5 DEF IInv, TypeOK
<1>8. ListsKept'
  <2>1. \A e \in Found' : \E fv \in processed' : e \in ToSet(Files[fv])
    BY <1>1, <1>3 DEF IInv, ListsKept
  <2>2. ToSet(queue') \subseteq Found'
    BY <1>1, <1>4
  <2> QED
    BY <2>1, <2>2, <1>6 DEF ListsKept
<1>9. DriversKept'
  <2>1. ASSUME NEW e \in Entries PROVE EntryIs(e)'
    <3>1. EntryIs(e)
      BY EntryByEntry DEF IInv
    <3>2. CASE e \in ToSet(NewFiles)
      <4>1. e \in Found' /\ (e \in ToSet(queue') <=> e \in ToSet(First))
        BY <3>2, <1>1, <1>4
      <4> QED
        BY <3>2, <4>1, <1>1 DEF EntryIs
    <3>3. CASE e \notin ToSet(NewFiles)
      <4>1. /\ e \in Found' <=> e \in Found
            /\ e \in ToSet(queue') <=> e \in ToSet(queue)
            /\ driver'[e] = driver[e]
        BY <3>3, <1>1
      <4> QED
        BY <3>1, <4>1 DEF EntryIs
    <3> QED
      BY <3>2, <3>3
  <2>2. Found' \subseteq Entries
    BY <1>1, <1>4
  <2> QED
    BY <2>1, <2>2 DEF DriversKept, EntryIs
<1>10. \A e \in Found : driver'[e] = driver[e] /\ e \in Found'
  BY <1>1, <1>4
<1>11. EntryKept'
  <2>1. EntryKept
    BY DEF IInv
  <2>2. queue # <<>> => queue[1] \in Found /\ queue' # <<>> /\ queue'[1] = queue[1]
    <3>1. /\ queue \o First \in Seq(Entries)
          /\ Len(queue \o First) = Len(queue) + Len(First)
          /\ \A i \in 1 .. Len(queue) : (queue \o First)[i] = queue[i]
      BY <1>3, <1>4, ListConcat
    <3>2. Len(queue) \in Nat /\ Len(First) \in Nat /\ (queue # <<>> => Len(queue) # 0)
      BY <1>3, <1>4, ListIs, EmptySeq
    <3>3. queue # <<>> => 1 \in 1 .. Len(queue) /\ Len(queue) + Len(First) # 0
      BY <3>2
    <3>4. queue # <<>> => queue' # <<>>
      BY <3>1, <3>3, <1>1
    <3> QED
      BY <3>1, <3>3, <3>4, <1>1, FirstQueued
  <2> QED
    BY <2>1, <2>2, <1>2, <1>10 DEF EntryKept
<1>12. FramesKept'
  <2>1. ASSUME NEW k \in DOMAIN d.frames PROVE Steady(d.frames[k].entry)
    BY <1>10 DEF IInv, FramesKept, FrameKept, Steady
  <2> QED
    BY <2>1, <1>1, <1>2, FramesSteady DEF IInv
<1> QED
  BY <1>7, <1>8, <1>9, <1>11, <1>12 DEF IInv

LEMMA FwVolNotifyStep ==
  ASSUME IInv, FwVolNotify
  PROVE  IInv'
<1>1. CASE Volume \in processed
  <2>1. /\ notified' = Tail(notified) /\ ~Quiet
        /\ UNCHANGED <<discovered, queue, driver, processed, running, d, installed,
                       present, started, trusting, broken, callbacks, disturbed>>
    BY <1>1 DEF FwVolNotify, Volume
  <2>2. notified' \in Seq(Volumes)
    BY <2>1, VolumeIs
  <2> QED
    BY <2>1, <2>2, PlainService DEF IInv, TypeOK
<1>2. CASE Volume \notin processed
  BY <1>2, DiscoversStep DEF Discovers
<1> QED
  BY <1>1, <1>2

-----------------------------------------------------------------------------
(* Every step                                                               *)

(* IInv is inductive.                                                       *)
LEMMA NextIInv == IInv /\ TrustKept /\ [Next]_vars => IInv'
<1> SUFFICES ASSUME IInv, TrustKept, [Next]_vars PROVE IInv'
  OBVIOUS
<1>1. CASE DispatcherStep
  <2>1. ASSUME NEW status \in {"success", "violation", "error"}, LoadImage(status)
        PROVE  IInv'
    BY <2>1, LoadImageStep
  <2>2. CASE InsertPut
    BY <2>2, InsertPutStep, InsertBreaksStep DEF InsertBreaks
  <2> QED
    BY <1>1, <2>1, <2>2, TakeOffStep, StartImageStep, ProcessFvImageStep, SimpleStep,
       VisitStep, EvaluateStep, InsertRecurseStep, InsertLoopEndStep
       DEF DispatcherStep
<1>2. CASE FwVolNotify
  BY <1>2, FwVolNotifyStep
<1>3. CASE Call \/ Callback
  BY <1>3, CallStep
<1>4. ASSUME NEW created \in BOOLEAN, Dispatch(created) PROVE IInv'
  BY <1>4, DispatchStep
<1>5. CASE UNCHANGED vars
  BY <1>5 DEF vars, IInv, TypeOK, ListsKept, DriversKept, EntryKept, FramesKept,
              FrameKept, Found, Target
<1>6. CASE TrustInserts
  BY <1>6, TrustInsertsStep
<1> QED
  BY <1>1, <1>2, <1>3, <1>4, <1>5, <1>6 DEF Next

(* No Trust is under way.                                                   *)
LEMMA NoTrust ==
  ASSUME trusting = <<>>, trusting' = trusting, Whole' \/ broken' \in Odd
  PROVE  TrustKept'
BY DEF TrustKept

(* A step that leaves a driver Untrusted, or on the queue.                  *)
LEMMA TrustSteady ==
  ASSUME TrustKept, Whole, UNCHANGED <<trusting, broken>>, Found \subseteq Found',
         \A e \in Found : driver[e].untrusted \/ driver[e].scheduled =>
                           driver'[e].untrusted \/ driver'[e].scheduled
  PROVE  TrustKept'
BY DEF TrustKept, Whole

(* What becomes of the calls of Trust that are under way.                   *)
LEMMA NextTrust == IInv /\ TrustKept /\ [Next]_vars => TrustKept'
<1> SUFFICES ASSUME IInv, TrustKept, [Next]_vars PROVE TrustKept'
  OBVIOUS
<1>1. CASE DispatcherStep \/ \E created \in BOOLEAN : Dispatch(created)
  <2>1. trusting = <<>> /\ Whole
    BY <1>1 DEF DispatcherStep, LoadImage, TakeOff, StartImage, ImageReturns,
         ProcessFvImage, RoundEnd, SignalReturns, Visit, SearchEnd, DispatchReturns,
         Evaluate, InsertRecurse, InsertLoopEnd, InsertPut, Dispatch, At
  <2>2. CASE InsertPut
    <3>1. UNCHANGED trusting
      BY <2>2 DEF InsertPut
    <3>2. UNCHANGED broken \/ InsertBreaks
      BY <2>2 DEF InsertPut, Enqueue, InsertBreaks
    <3> QED
      BY <2>1, <3>1, <3>2, BreakIs, NoTrust DEF Whole
  <2>3. CASE ~InsertPut
    <3>1. UNCHANGED <<trusting, broken>>
      BY <1>1, <2>3 DEF DispatcherStep, LoadImage, TakeOff, StartImage, ImageReturns,
         ProcessFvImage, RoundEnd, SignalReturns, Visit, SearchEnd, DispatchReturns,
         Evaluate, InsertRecurse, InsertLoopEnd, Dispatch, env
    <3> QED
      BY <2>1, <3>1, NoTrust DEF Whole
  <2> QED
    BY <2>2, <2>3
<1>2. CASE FwVolNotify
  <2>1. UNCHANGED <<trusting, broken>> /\ Whole
    BY <1>2 DEF FwVolNotify
  <2>2. CASE Volume \in processed
    <3>1. UNCHANGED <<driver, discovered>>
      BY <1>2, <2>2 DEF FwVolNotify, Volume
    <3> QED
      BY <2>1, <3>1, TrustSteady DEF Found
  <2>3. CASE Volume \notin processed
    <3>1. Found \subseteq Found' /\ \A e \in Found : driver'[e] = driver[e]
      BY <1>2, <2>3, DiscoversIs, Types DEF Discovers, IInv
    <3> QED
      BY <2>1, <3>1, TrustSteady
  <2> QED
    BY <2>2, <2>3
<1>3. CASE Call \/ Callback
  <2>1. Service /\ Whole
    BY <1>3 DEF Call, Callback
  <2>2. UNCHANGED <<discovered, broken>> /\ Found' = Found
    BY <2>1 DEF Service, Found
  <2>3. CASE UNCHANGED <<driver, trusting>>
    BY <2>1, <2>2, <2>3, TrustSteady
  <2>4. ASSUME NEW e \in Entries, CoreSchedule(e) PROVE TrustKept'
    <3>1. UNCHANGED trusting /\ driver' = [driver EXCEPT ![e].unrequested = FALSE,
                                                        ![e].dependent = TRUE]
      BY <2>4 DEF CoreSchedule
    <3>2. driver \in [Entries -> Driver] /\ Found \subseteq Entries
      BY Types DEF IInv
    <3>3. \A x \in Found : /\ driver'[x].untrusted = driver[x].untrusted
                           /\ driver'[x].scheduled = driver[x].scheduled
      BY <3>1, <3>2 DEF Driver
    <3> QED
      BY <3>1, <3>3, <2>1, <2>2, TrustSteady
  <2>5. ASSUME NEW e \in Entries, CoreTrust(e) PROVE TrustKept'
    <3>1. /\ trusting' = Append(trusting, e) /\ UNCHANGED driver
          /\ e \in Found /\ driver[e].untrusted
      BY <2>5 DEF CoreTrust, Found
    <3>2. trusting \in Seq(Entries)
      BY DEF IInv, TypeOK
    <3>3. /\ DOMAIN trusting' = 1 .. Len(trusting) + 1
          /\ \A k \in 1 .. Len(trusting) : trusting'[k] = trusting[k]
          /\ trusting'[Len(trusting) + 1] = e
          /\ DOMAIN trusting = 1 .. Len(trusting) /\ Len(trusting) \in Nat
      BY <3>1, <3>2, ListAppend, ListIs
    <3>4. \A k \in 1 .. Len(trusting) + 1 : k \in 1 .. Len(trusting) \/ k = Len(trusting) + 1
      BY <3>3
    <3>5. \A k \in DOMAIN trusting' :
            /\ trusting'[k] \in Found
            /\ driver[trusting'[k]].untrusted \/ driver[trusting'[k]].scheduled
      BY <3>1, <3>3, <3>4 DEF TrustKept
    <3> QED
      BY <3>1, <3>5, <2>1, <2>2 DEF TrustKept, Whole
  <2> QED
    BY <2>1, <2>3, <2>4, <2>5
       DEF Service, InstallProtocol, UninstallProtocol, InstallVolume
<1>4. CASE TrustInserts
  <2>1. PICK e \in Found : /\ e = Last(trusting)
                           /\ \A k \in DOMAIN Front(trusting) :
                                k \in DOMAIN trusting /\ Front(trusting)[k] = trusting[k]
    BY <1>4, LastTrusted
  <2>2. /\ Whole /\ trusting # <<>> /\ UNCHANGED discovered
        /\ trusting' = IF Whole' THEN Front(trusting) ELSE trusting
    BY <1>4 DEF TrustInserts, Whole
  <2>3. e \in Entries /\ driver[e] \in Driver /\ driver \in [Entries -> Driver]
    BY FoundEntry
  <2>4. CASE e \notin ToSet(queue)
    <3>1. /\ UNCHANGED broken
          /\ driver' = [driver EXCEPT ![e] = [driver[e] EXCEPT !.untrusted = FALSE,
                                                               !.scheduled = TRUE]]
      BY <1>4, <2>1, <2>4 DEF TrustInserts, Enqueue
    <3>2. trusting' = Front(trusting) /\ Whole'
      BY <2>2, <3>1 DEF Whole
    <3>3. driver'[e].scheduled /\ \A x \in Entries : x # e => driver'[x] = driver[x]
      BY <2>3, <3>1 DEF Driver
    <3>4. \A k \in DOMAIN trusting : /\ trusting[k] \in Entries /\ trusting[k] \in Found
                                     /\ \/ driver[trusting[k]].untrusted
                                        \/ driver[trusting[k]].scheduled
      BY Types DEF TrustKept, IInv
    <3>5. \A k \in DOMAIN trusting' :
            /\ trusting'[k] \in Found'
            /\ driver'[trusting'[k]].untrusted \/ driver'[trusting'[k]].scheduled
      BY <2>1, <2>2, <3>2, <3>3, <3>4 DEF Found
    <3> QED
      BY <3>2, <3>5 DEF TrustKept
  <2>5. CASE e \in ToSet(queue)
    <3>1. UNCHANGED driver /\ broken' = e
      BY <1>4, <2>1, <2>5 DEF TrustInserts, Enqueue
    <3>2. ~Whole'
      BY <2>3, <3>1, DispatcherAssumption DEF Whole
    <3> QED
      BY <2>1, <2>2, <3>1, <3>2 DEF TrustKept, Found
  <2> QED
    BY <2>4, <2>5
<1>5. CASE UNCHANGED vars
  BY <1>5 DEF vars, TrustKept, Found, Whole
<1> QED
  BY <1>1, <1>2, <1>3, <1>4, <1>5 DEF Next

LEMMA SpecIInv == Spec => [](IInv /\ TrustKept)
<1>1. Init => IInv /\ TrustKept
  <2>1. Init => trusting = <<>> /\ broken = None
    BY DEF Init
  <2>2. trusting = <<>> /\ broken = None => TrustKept
    BY DEF TrustKept, Whole
  <2> QED
    BY <2>1, <2>2, InitIInv
<1>2. IInv /\ TrustKept /\ [Next]_vars => IInv' /\ TrustKept'
  BY NextIInv, NextTrust
<1> QED
  BY <1>1, <1>2, PTL DEF Spec

(* Type correctness, for all volumes, files and dependency expressions.     *)
THEOREM TypeCorrect == Spec => []TypeOK
<1>1. IInv => TypeOK
  BY DEF IInv
<1> QED
  BY <1>1, SpecIInv, PTL

(* A discovered entry has one of the states.                                *)
LEMMA StateIsOne ==
  ASSUME NEW r \in Driver, InOneState(r)
  PROVE  Cardinality({s \in States : r[s]}) = 1
<1>1. \E x \in States : {s \in States : r[s]} = {x}
  <2>1. PICK x \in States : r[x] /\ \A s \in States : r[s] => s = x
    BY DEF States, InOneState, Unread, Put
  <2>2. {s \in States : r[s]} = {x}
    BY <2>1
  <2> QED
    BY <2>2
<1>2. PICK x : {s \in States : r[s]} = {x}
  BY <1>1
<1> QED
  BY <1>2, FS_Singleton

(* Whatever discovers, requests, retries, schedules and dispatches drivers, and
   whenever: each discovered driver is in exactly one state, and on
   mDiscoveredList, and on mScheduledQueue if it is Scheduled, once.  The queue
   is broken only by two calls of Trust, one inside the other, and by the a
   priori drivers that are in a second state.                               *)
THEOREM OneStateHolds == Spec => []OneState
<1>1. IInv /\ TrustKept => OneState
  <2> SUFFICES ASSUME IInv, TrustKept PROVE OneState
    OBVIOUS
  <2>1. ASSUME NEW e \in Found, e \notin Odd
        PROVE  Cardinality({s \in States : driver[e][s]}) = 1
    BY <2>1, FoundEntry, StateIsOne DEF Sound
  <2> QED
    BY <2>1 DEF IInv, ListsKept, DriversKept, OneState, Found, TrustKept, Whole
<1> QED
  BY <1>1, SpecIInv, PTL

-----------------------------------------------------------------------------
(* The order in which drivers are started                                   *)

(* What a step leaves of a driver that was scheduled, and that it schedules no
   other.                                                                   *)
PutKept(e) ==
  /\ Put(driver'[e]) <=> Put(driver[e])
  /\ Put(driver[e]) =>
       /\ e \notin Odd => /\ driver'[e].before = driver[e].before
                         /\ driver'[e].after = driver[e].after
                         /\ driver'[e].depex = driver[e].depex
       /\ driver[e].initialized => driver'[e].initialized
       /\ driver'[e].image # "violation" => driver[e].image # "violation"

(* The odd ones are a priori drivers.                                       *)
LEMMA OddNotFree == \A e \in Odd : ~Free(e)
BY DEF Odd, Free

LEMMA PairKept ==
  ASSUME NEW x, NEW y, MayPrecede(x, y), PutKept(x), PutKept(y),
         Put(driver[x]), Put(driver[y])
  PROVE  MayPrecede(x, y)'
BY DEF MayPrecede, PutKept, Free, Target

LEMMA HangsKept ==
  ASSUME HangsOnPut, discovered' = discovered, \A e \in Found : PutKept(e)
  PROVE  HangsOnPut'
<1>1. Found' = Found
  BY DEF Found
<1> QED
  BY <1>1, OddNotFree DEF HangsOnPut, PutKept, Free, Hangs, Target

(* What is started or queued was scheduled.                                 *)
LEMMA ListedPut ==
  ASSUME IInv, OInv
  PROVE  /\ \A x \in ToSet(started) : x \in Found /\ Put(driver[x])
         /\ \A y \in ToSet(queue) : y \in Found /\ Put(driver[y])
         /\ started \in Seq(Entries) /\ queue \in Seq(Entries)
         /\ DOMAIN started = 1 .. Len(started) /\ Len(started) \in Nat
         /\ DOMAIN queue = 1 .. Len(queue) /\ Len(queue) \in Nat
         /\ \A i \in 1 .. Len(started) : started[i] \in ToSet(started)
         /\ \A i \in 1 .. Len(queue) : queue[i] \in ToSet(queue)
         /\ d.pc = "start" => d.entry \in Found /\ Put(driver[d.entry])
<1>1. \A x \in ToSet(started) : x \in Found /\ Put(driver[x])
  BY DEF OInv, InOrder, Put
<1>2. \A y \in ToSet(queue) : y \in Found /\ driver[y].scheduled
  BY FoundEntry DEF IInv, ListsKept
<1>3. /\ started \in Seq(Entries) /\ queue \in Seq(Entries)
      /\ DOMAIN started = 1 .. Len(started) /\ Len(started) \in Nat
      /\ DOMAIN queue = 1 .. Len(queue) /\ Len(queue) \in Nat
      /\ \A i \in 1 .. Len(started) : started[i] \in ToSet(started)
      /\ \A i \in 1 .. Len(queue) : queue[i] \in ToSet(queue)
  BY Types, ListIs DEF IInv
<1>4. d.pc = "start" => d.entry \in Found /\ Put(driver[d.entry])
  BY DEF IInv, EntryKept, Put
<1> QED
  BY <1>1, <1>2, <1>3, <1>4 DEF Put

(* A step that leaves the lists as they are.                                *)
LEMMA OrderKept ==
  ASSUME IInv, OInv, \A e \in Found : PutKept(e),
         UNCHANGED <<discovered, queue, started>>,
         d'.pc = "start" => d.pc = "start" /\ d'.entry = d.entry
  PROVE  OInv'
<1>1. HangsOnPut'
  BY HangsKept DEF OInv
<1>2. Found' = Found
  BY DEF Found
<1>3. /\ \A x \in ToSet(started) : x \in Found /\ Put(driver[x])
      /\ \A y \in ToSet(queue) : y \in Found /\ Put(driver[y])
      /\ DOMAIN started = 1 .. Len(started) /\ DOMAIN queue = 1 .. Len(queue)
      /\ \A i \in 1 .. Len(started) : started[i] \in ToSet(started)
      /\ \A i \in 1 .. Len(queue) : queue[i] \in ToSet(queue)
      /\ d.pc = "start" => d.entry \in Found /\ Put(driver[d.entry])
  BY ListedPut
<1>4. \A e \in Found : Put(driver[e]) =>
                         /\ driver[e].initialized => driver'[e].initialized
                         /\ Live(e)' => Live(e)
  BY DEF PutKept, Live
<1>5. \A x, y \in Found :
        Put(driver[x]) /\ Put(driver[y]) /\ MayPrecede(x, y) => MayPrecede(x, y)'
  BY PairKept
<1>6. \A e \in ToSet(started) : e \in Found /\ driver'[e].initialized
  BY <1>3, <1>4 DEF OInv, InOrder
<1>7. ASSUME NEW i \in DOMAIN started, NEW j \in DOMAIN started, i < j
      PROVE  MayPrecede(started[i], started[j])'
  <2>1. MayPrecede(started[i], started[j])
    BY <1>7 DEF OInv, InOrder
  <2> QED
    BY <2>1, <1>3, <1>5
<1>8. ASSUME NEW x \in ToSet(started), NEW y \in ToSet(queue), Live(y)'
      PROVE  MayPrecede(x, y)'
  <2>1. Live(y)
    BY <1>3, <1>4, <1>8
  <2>2. MayPrecede(x, y)
    BY <2>1 DEF OInv, InOrder
  <2> QED
    BY <2>2, <1>3, <1>5
<1>9. ASSUME NEW i \in DOMAIN queue, NEW j \in DOMAIN queue, i < j,
             Live(queue[i])', Live(queue[j])'
      PROVE  MayPrecede(queue[i], queue[j])'
  <2>1. Live(queue[i]) /\ Live(queue[j])
    BY <1>3, <1>4, <1>9 DEF Live
  <2>2. MayPrecede(queue[i], queue[j])
    BY <2>1, <1>9 DEF OInv, InOrder
  <2> QED
    BY <2>2, <1>3, <1>5
<1>10. ASSUME d'.pc = "start", Live(d.entry)'
       PROVE  /\ \A x \in ToSet(started) : MayPrecede(x, d.entry)'
              /\ \A y \in ToSet(queue) : Live(y)' => MayPrecede(d.entry, y)'
  <2>1. d.pc = "start" /\ d'.entry = d.entry
    BY <1>10
  <2>2. Live(d.entry)
    BY <1>3, <1>4, <1>10, <2>1 DEF Live
  <2>3. /\ \A x \in ToSet(started) : MayPrecede(x, d.entry)
        /\ \A y \in ToSet(queue) : Live(y) => MayPrecede(d.entry, y)
    BY <2>1, <2>2 DEF OInv, InOrder
  <2> QED
    BY <2>1, <2>3, <1>3, <1>4, <1>5
<1> QED
  BY <1>1, <1>2, <1>6, <1>7, <1>8, <1>9, <1>10 DEF OInv, InOrder

(* The next driver is taken off the queue: it may precede what is left.     *)
LEMMA TakeOffOrder ==
  ASSUME IInv, OInv, TakeOff
  PROVE  OInv'
<1> DEFINE e == d.entry
<1>1. d.pc = "loaded" /\ d \in Activation
  BY Plain DEF TakeOff, At
<1>2. queue # <<>> /\ e = queue[1]
  BY <1>1 DEF IInv, EntryKept
<1>3. e \in Found /\ driver[e].scheduled /\ e \in ToSet(queue)
  BY <1>2, FirstQueued
<1>4. /\ e \in Entries /\ driver[e] \in Driver /\ driver \in [Entries -> Driver]
      /\ Sound(e, driver[e])
  BY <1>3, FoundEntry
<1>5. /\ queue' = Unlinked(queue, queue[1])
      /\ driver' = [driver EXCEPT ![e] = Dispatched(driver[e], d.status)]
      /\ UNCHANGED <<discovered, started>>
      /\ d'.pc = "start" => d'.entry = e
  BY <1>1, <1>2 DEF TakeOff, Activation
<1>6. queue \in Seq(Entries) /\ IsInjective(queue)
  BY Types DEF IInv, ListsKept
<1>7. /\ DOMAIN queue' = 1 .. Len(queue) - 1
      /\ \A i \in 1 .. Len(queue) - 1 : queue'[i] = queue[i + 1]
      /\ ToSet(queue') \subseteq ToSet(queue) \ {e}
  BY <1>2, <1>5, <1>6, ListUnlinked
<1>8. \A x \in Found : PutKept(x)
  <2>1. Found \subseteq Entries
    BY Types DEF IInv
  <2>2. /\ Put(driver'[e]) /\ driver'[e].before = driver[e].before
        /\ driver'[e].after = driver[e].after /\ driver'[e].depex = driver[e].depex
        /\ driver'[e].image = driver[e].image
        /\ driver[e].initialized => driver'[e].initialized
    BY <1>4, <1>5 DEF Dispatched, Driver, Put
  <2>3. Put(driver[e])
    BY <1>3 DEF Put
  <2>4. \A x \in Entries : x # e => driver'[x] = driver[x]
    BY <1>4, <1>5
  <2> QED
    BY <2>1, <2>2, <2>3, <2>4 DEF PutKept
<1>9. HangsOnPut'
  BY <1>5, <1>8, HangsKept DEF OInv
<1>10. Found' = Found
  BY <1>5 DEF Found
<1>11. /\ \A x \in ToSet(started) : x \in Found /\ Put(driver[x])
       /\ \A y \in ToSet(queue) : y \in Found /\ Put(driver[y])
       /\ DOMAIN started = 1 .. Len(started) /\ DOMAIN queue = 1 .. Len(queue)
       /\ Len(queue) \in Nat
       /\ \A i \in 1 .. Len(started) : started[i] \in ToSet(started)
       /\ \A i \in 1 .. Len(queue) : queue[i] \in ToSet(queue)
  BY ListedPut
<1> HIDE DEF e
<1>12. \A x \in Found : Put(driver[x]) =>
                         /\ driver[x].initialized => driver'[x].initialized
                         /\ Live(x)' => Live(x)
  BY <1>8 DEF PutKept, Live
<1>13. \A x, y \in Found :
        Put(driver[x]) /\ Put(driver[y]) /\ MayPrecede(x, y) => MayPrecede(x, y)'
  BY <1>8, PairKept
<1>14. \A x \in ToSet(started) : x \in Found /\ driver'[x].initialized
  BY <1>11, <1>12 DEF OInv, InOrder
<1>15. ASSUME NEW i \in DOMAIN started, NEW j \in DOMAIN started, i < j
       PROVE  MayPrecede(started[i], started[j])'
  <2>1. MayPrecede(started[i], started[j])
    BY <1>15 DEF OInv, InOrder
  <2> QED
    BY <2>1, <1>5, <1>11, <1>13
<1>16. ASSUME NEW x \in ToSet(started), NEW y \in ToSet(queue), Live(y)'
       PROVE  MayPrecede(x, y)'
  <2>1. Live(y)
    BY <1>11, <1>12, <1>16
  <2>2. MayPrecede(x, y)
    BY <2>1 DEF OInv, InOrder
  <2> QED
    BY <2>2, <1>11, <1>13
<1>17. ASSUME NEW x \in ToSet(queue), NEW y \in ToSet(queue), Live(x)', Live(y)',
              NEW i \in 1 .. Len(queue), NEW j \in 1 .. Len(queue), i < j,
              queue[i] = x, queue[j] = y
       PROVE  MayPrecede(x, y)'
  <2>1. Live(queue[i]) /\ Live(queue[j])
    BY <1>11, <1>12, <1>17
  <2>2. MayPrecede(x, y)
    BY <2>1, <1>11, <1>17 DEF OInv, InOrder
  <2> QED
    BY <2>2, <1>11, <1>13
<1>18. ASSUME NEW i \in 1 .. Len(queue) - 1, NEW j \in 1 .. Len(queue) - 1, i < j,
              Live(queue[i])', Live(queue[j])'
       PROVE  MayPrecede(queue[i], queue[j])'
  <2>1. i + 1 \in 1 .. Len(queue) /\ j + 1 \in 1 .. Len(queue) /\ i + 1 < j + 1
    BY <1>11, <1>18
  <2>2. PICK x \in ToSet(queue) : x = queue[i + 1] /\ x = queue'[i]
    BY <2>1, <1>7, <1>11
  <2>3. PICK y \in ToSet(queue) : y = queue[j + 1] /\ y = queue'[j]
    BY <2>1, <1>7, <1>11
  <2>4. Live(x)' /\ Live(y)'
    BY <2>2, <2>3, <1>18 DEF Live
  <2>5. MayPrecede(x, y)'
    BY <2>1, <2>2, <2>3, <2>4, <1>17
  <2> QED
    BY <2>2, <2>3, <2>5 DEF MayPrecede, Target
<1>19. ASSUME d'.pc = "start", Live(d.entry)'
       PROVE  /\ \A x \in ToSet(started) : MayPrecede(x, d.entry)'
              /\ \A y \in ToSet(queue)' : Live(y)' => MayPrecede(d.entry, y)'
  <2>1. PICK f \in ToSet(queue) : f = e /\ f = d'.entry
    BY <1>3, <1>5, <1>19
  <2>2. Live(f)'
    BY <2>1, <1>19 DEF Live
  <2>3. \A x \in ToSet(started) : MayPrecede(x, f)'
    BY <2>2, <1>16
  <2>4. ASSUME NEW y \in ToSet(queue'), Live(y)' PROVE MayPrecede(f, y)'
    <3>1. y \in ToSet(queue) /\ y # f
      BY <2>1, <1>7
    <3>2. PICK j \in 1 .. Len(queue) : queue[j] = y
      BY <3>1, <1>6, ListIs
    <3>3. 1 \in 1 .. Len(queue) /\ queue[1] = f
      <4>1. queue[1] = f
        BY <2>1, <1>2
      <4>2. Len(queue) \in Nat
        BY <1>11
      <4>3. 1 \in 1 .. Len(queue)
        BY <3>2, <4>2
      <4> QED
        BY <4>1, <4>3
    <3>4. 1 < j
      BY <3>1, <3>2, <3>3, <1>11
    <3> QED
      BY <2>2, <2>4, <3>1, <3>2, <3>3, <3>4, <1>17
  <2> QED
    BY <2>1, <2>3, <2>4 DEF MayPrecede, Target
<1>20. ToSet(queue)' \subseteq ToSet(queue) /\ DOMAIN queue' = 1 .. Len(queue) - 1
  BY <1>7
<1>21. \A x \in ToSet(started)', y \in ToSet(queue)' : Live(y)' => MayPrecede(x, y)'
  BY <1>5, <1>16, <1>20
<1>22. InOrder'
  BY <1>5, <1>10, <1>14, <1>15, <1>18, <1>19, <1>20, <1>21 DEF InOrder
<1> QED
  BY <1>9, <1>22 DEF OInv

(* A driver is started.                                                     *)
LEMMA StartImageOrder ==
  ASSUME IInv, OInv, StartImage
  PROVE  OInv'
<1>1. /\ d.pc = "start" /\ d \in Activation
      /\ UNCHANGED <<discovered, queue, driver>>
  BY Plain DEF StartImage, At
<1>2. d'.pc # "start"
  BY <1>1 DEF StartImage, Activation
<1>3. \A x \in Found : PutKept(x)
  BY <1>1 DEF PutKept
<1>4. CASE started' = started
  BY <1>1, <1>2, <1>3, <1>4, OrderKept
<1>5. CASE started' = Append(started, d.entry) /\ driver[d.entry].image = "success"
  <2>1. PICK e \in Found : e = d.entry
    BY <1>1 DEF IInv, EntryKept
  <2>2. driver[e].initialized /\ Live(e) /\ e \in Entries
    BY <2>1, <1>1, <1>5, FoundEntry DEF IInv, EntryKept, Live
  <2>3. /\ \A x \in ToSet(started) : MayPrecede(x, e)
        /\ \A y \in ToSet(queue) : Live(y) => MayPrecede(e, y)
    BY <2>1, <2>2, <1>1 DEF OInv, InOrder
  <2>4. /\ \A x, y : MayPrecede(x, y)' <=> MayPrecede(x, y)
        /\ \A x : Live(x)' <=> Live(x)
        /\ Found' = Found
    BY <1>1 DEF MayPrecede, Free, Target, Live, Found
  <2>5. HangsOnPut'
    BY <1>1, <1>3, HangsKept DEF OInv
  <2>6. started \in Seq(Entries) /\ Len(started) \in Nat
        /\ \A i \in 1 .. Len(started) : started[i] \in ToSet(started)
    BY ListedPut
  <2>7. /\ DOMAIN started' = 1 .. Len(started) + 1
        /\ \A i \in 1 .. Len(started) : started'[i] = started[i]
        /\ started'[Len(started) + 1] = e
        /\ ToSet(started') = ToSet(started) \cup {e}
    BY <2>1, <2>2, <2>6, <1>5, ListAppend
  <2>8. ASSUME NEW i \in 1 .. Len(started) + 1, NEW j \in 1 .. Len(started) + 1, i < j
        PROVE  MayPrecede(started[i], started[j])'
    <3>1. i \in 1 .. Len(started) /\ (j \in 1 .. Len(started) \/ j = Len(started) + 1)
      BY <2>6, <2>8
    <3>2. PICK x \in ToSet(started) : x = started[i] /\ x = started'[i]
      BY <3>1, <2>6, <2>7
    <3>3. CASE j = Len(started) + 1
      <4>1. MayPrecede(x, e)' /\ started'[j] = e
        BY <3>3, <2>3, <2>4, <2>7
      <4> QED
        BY <3>2, <4>1 DEF MayPrecede, Target
    <3>4. CASE j \in 1 .. Len(started)
      <4>1. PICK y \in ToSet(started) : y = started[j] /\ y = started'[j]
        BY <3>4, <2>6, <2>7
      <4>2. MayPrecede(started[i], started[j])
        <5>1. i \in DOMAIN started /\ j \in DOMAIN started
          BY <3>1, <3>4, ListedPut
        <5> QED
          BY <5>1, <2>8 DEF OInv, InOrder
      <4>3. MayPrecede(x, y)'
        BY <3>2, <4>1, <4>2, <2>4
      <4> QED
        BY <3>2, <4>1, <4>3 DEF MayPrecede, Target
    <3> QED
      BY <3>1, <3>3, <3>4
  <2>9. ToSet(started)' = ToSet(started) \cup {e} /\ ToSet(queue)' = ToSet(queue)
    BY <2>7, <1>1
  <2>10. \A x \in ToSet(started)' : x \in Found' /\ driver'[x].initialized
    BY <2>2, <2>4, <2>9, <1>1 DEF OInv, InOrder
  <2>11. \A x \in ToSet(started)', y \in ToSet(queue)' : Live(y)' => MayPrecede(x, y)'
    BY <2>3, <2>4, <2>9 DEF OInv, InOrder
  <2>12. \A i, j \in DOMAIN queue' :
           i < j /\ Live(queue[i])' /\ Live(queue[j])' => MayPrecede(queue[i], queue[j])'
    <3>1. \A i, j \in DOMAIN queue :
           i < j /\ Live(queue[i]) /\ Live(queue[j]) => MayPrecede(queue[i], queue[j])
      BY DEF OInv, InOrder
    <3> QED
      BY <3>1, <1>1 DEF MayPrecede, Free, Target, Live
  <2>13. \A i, j \in DOMAIN started' : i < j => MayPrecede(started[i], started[j])'
    BY <2>7, <2>8
  <2>14. InOrder'
    BY <2>10, <2>11, <2>12, <2>13, <1>2 DEF InOrder
  <2> QED
    BY <2>5, <2>14 DEF OInv
<1> QED
  BY <1>4, <1>5 DEF StartImage

(* Drivers are added at the end of the queue.                               *)
PutStays(e) ==
  Put(driver[e]) =>
    /\ Put(driver'[e])
    /\ e \notin Odd => /\ driver'[e].before = driver[e].before
                      /\ driver'[e].after = driver[e].after
                      /\ driver'[e].depex = driver[e].depex
    /\ driver[e].initialized => driver'[e].initialized
    /\ driver'[e].image # "violation" => driver[e].image # "violation"

LEMMA QueueGrows ==
  ASSUME IInv, OInv, \A e \in Found : PutStays(e), Found \subseteq Found',
         started' = started,
         d'.pc = "start" => d.pc = "start" /\ d'.entry = d.entry,
         NEW added \in Seq(Entries), queue' = queue \o added,
         \A x \in Found, y \in ToSet(added) :
           Put(driver[x]) /\ Live(y)' => MayPrecede(x, y)',
         \A i, j \in 1 .. Len(added) : MayPrecede(added[i], added[j])',
         HangsOnPut'
  PROVE  OInv'
<1>1. /\ \A x \in ToSet(started) : x \in Found /\ Put(driver[x])
      /\ \A y \in ToSet(queue) : y \in Found /\ Put(driver[y])
      /\ DOMAIN started = 1 .. Len(started) /\ DOMAIN queue = 1 .. Len(queue)
      /\ Len(queue) \in Nat /\ queue \in Seq(Entries)
      /\ \A i \in 1 .. Len(started) : started[i] \in ToSet(started)
      /\ \A i \in 1 .. Len(queue) : queue[i] \in ToSet(queue)
      /\ d.pc = "start" => d.entry \in Found /\ Put(driver[d.entry])
  BY ListedPut
<1>2. \A x \in Found : Put(driver[x]) =>
                         /\ driver[x].initialized => driver'[x].initialized
                         /\ Live(x)' => Live(x)
  BY DEF PutStays, Live
<1>3. \A x, y \in Found :
        Put(driver[x]) /\ Put(driver[y]) /\ MayPrecede(x, y) => MayPrecede(x, y)'
  BY DEF PutStays, MayPrecede, Free, Target
<1>4. /\ queue' \in Seq(Entries) /\ Len(queue') = Len(queue) + Len(added)
      /\ \A i \in 1 .. Len(queue) + Len(added) :
              \/ i \in 1 .. Len(queue) /\ queue'[i] = queue[i]
              \/ i - Len(queue) \in 1 .. Len(added)
                 /\ queue'[i] = added[i - Len(queue)]
      /\ ToSet(queue') = ToSet(queue) \cup ToSet(added)
  BY <1>1, ListConcat
<1>5. DOMAIN queue' = 1 .. Len(queue) + Len(added)
      /\ Len(added) \in Nat /\ \A i \in 1 .. Len(added) : added[i] \in ToSet(added)
  BY <1>4, ListIs
<1>6. \A x \in ToSet(started)' : x \in Found' /\ driver'[x].initialized
  BY <1>1, <1>2 DEF OInv, InOrder
<1>7. \A i, j \in DOMAIN started' : i < j => MayPrecede(started[i], started[j])'
  <2> SUFFICES ASSUME NEW i \in DOMAIN started, NEW j \in DOMAIN started, i < j
               PROVE  MayPrecede(started[i], started[j])'
    OBVIOUS
  <2>1. MayPrecede(started[i], started[j])
    BY DEF OInv, InOrder
  <2> QED
    BY <2>1, <1>1, <1>3
<1>8. \A x \in ToSet(started)', y \in ToSet(queue)' : Live(y)' => MayPrecede(x, y)'
  <2> SUFFICES ASSUME NEW x \in ToSet(started), NEW y \in ToSet(queue'), Live(y)'
               PROVE  MayPrecede(x, y)'
    OBVIOUS
  <2>1. CASE y \in ToSet(added)
    BY <2>1, <1>1
  <2>2. CASE y \in ToSet(queue)
    <3>1. MayPrecede(x, y)
      BY <2>2, <1>1, <1>2 DEF OInv, InOrder
    <3> QED
      BY <3>1, <2>2, <1>1, <1>3
  <2> QED
    BY <2>1, <2>2, <1>4
<1>9. ASSUME NEW i \in 1 .. Len(queue) + Len(added),
             NEW j \in 1 .. Len(queue) + Len(added), i < j,
             Live(queue[i])', Live(queue[j])'
      PROVE  MayPrecede(queue[i], queue[j])'
  <2>0. \A k \in DOMAIN queue' : queue'[k] \in ToSet(queue')
    BY DEF ToSet
  <2>1. PICK x \in ToSet(queue') : x = queue'[i]
    BY <1>5, <2>0
  <2>2. PICK y \in ToSet(queue') : y = queue'[j]
    BY <1>5, <2>0
  <2>3. Live(x)' /\ Live(y)'
    BY <2>1, <2>2, <1>9 DEF Live
  <2>4. MayPrecede(x, y)'
    <3>1. CASE i \in 1 .. Len(queue) /\ queue'[i] = queue[i]
               /\ j \in 1 .. Len(queue) /\ queue'[j] = queue[j]
      <4>1. Live(queue[i]) /\ Live(queue[j])
        BY <3>1, <2>1, <2>2, <2>3, <1>1, <1>2
      <4>2. MayPrecede(queue[i], queue[j])
        BY <3>1, <4>1, <1>1, <1>9 DEF OInv, InOrder
      <4> QED
        BY <3>1, <4>2, <2>1, <2>2, <1>1, <1>3
    <3>2. CASE i \in 1 .. Len(queue) /\ queue'[i] = queue[i]
               /\ j - Len(queue) \in 1 .. Len(added)
               /\ queue'[j] = added[j - Len(queue)]
      BY <3>2, <2>1, <2>2, <2>3, <1>1, <1>5
    <3>3. CASE i - Len(queue) \in 1 .. Len(added)
               /\ queue'[i] = added[i - Len(queue)]
               /\ j - Len(queue) \in 1 .. Len(added)
               /\ queue'[j] = added[j - Len(queue)]
      BY <3>3, <2>1, <2>2
    <3>4. CASE i - Len(queue) \in 1 .. Len(added) /\ j \in 1 .. Len(queue)
      BY <3>4, <1>1, <1>5, <1>9
    <3> QED
      BY <3>1, <3>2, <3>3, <3>4, <1>4
  <2> QED
    BY <2>1, <2>2, <2>4 DEF MayPrecede, Target
<1>10. ASSUME d'.pc = "start", Live(d.entry)'
       PROVE  /\ \A x \in ToSet(started) : MayPrecede(x, d.entry)'
              /\ \A y \in ToSet(queue)' : Live(y)' => MayPrecede(d.entry, y)'
  <2>1. PICK f \in Found : /\ f = d.entry /\ f = d'.entry /\ Put(driver[f])
                           /\ d.pc = "start"
    BY <1>1, <1>10
  <2>2. Live(f)' /\ Live(f)
    BY <2>1, <1>2, <1>10 DEF Live
  <2>3. /\ \A x \in ToSet(started) : MayPrecede(x, f)
        /\ \A y \in ToSet(queue) : Live(y) => MayPrecede(f, y)
    BY <2>1, <2>2 DEF OInv, InOrder
  <2>4. \A x \in ToSet(started) : MayPrecede(x, f)'
    BY <2>1, <2>3, <1>1, <1>3
  <2>5. \A y \in ToSet(queue)' : Live(y)' => MayPrecede(f, y)'
    <3> SUFFICES ASSUME NEW y \in ToSet(queue'), Live(y)' PROVE MayPrecede(f, y)'
      OBVIOUS
    <3>1. CASE y \in ToSet(added)
      BY <2>1, <3>1
    <3>2. CASE y \in ToSet(queue)
      BY <2>1, <2>3, <3>2, <1>1, <1>2, <1>3
    <3> QED
      BY <3>1, <3>2, <1>4
  <2> QED
    BY <2>1, <2>4, <2>5 DEF MayPrecede, Target
<1>11. InOrder'
  BY <1>5, <1>6, <1>7, <1>8, <1>9, <1>10 DEF InOrder
<1> QED
  BY <1>11 DEF OInv

LEMMA AppendConcat ==
  ASSUME NEW S, NEW s \in Seq(S), NEW e \in S
  PROVE  /\ Append(s, e) = s \o <<e>> /\ <<e>> \in Seq(S)
         /\ ToSet(<<e>>) = {e} /\ Len(<<e>>) = 1 /\ <<e>>[1] = e
BY DEF ToSet

(* One driver is added, which none that was scheduled must precede.         *)
LEMMA QueueGrowsByOne ==
  ASSUME IInv, OInv, \A e \in Found : PutStays(e), discovered' = discovered,
         started' = started,
         d'.pc = "start" => d.pc = "start" /\ d'.entry = d.entry,
         NEW f \in Entries, queue' = Append(queue, f),
         \A x \in Found : Put(driver[x]) /\ Live(f)' => MayPrecede(x, f)',
         HangsOnPut', f \in Found', Put(driver'[f])
  PROVE  OInv'
<1>1. queue \in Seq(Entries)
  BY Types DEF IInv
<1>2. /\ queue' = queue \o <<f>> /\ <<f>> \in Seq(Entries)
      /\ ToSet(<<f>>) = {f} /\ Len(<<f>>) = 1 /\ <<f>>[1] = f
  BY <1>1, AppendConcat
<1>3. Found' = Found
  BY DEF Found
<1>4. MayPrecede(f, f)'
  BY DEF HangsOnPut, MayPrecede, Hangs, Target
<1> DEFINE added == <<f>>
<1>5. /\ added \in Seq(Entries) /\ ToSet(added) = {f} /\ queue' = queue \o added
  BY <1>2
<1>6. \A i, j \in 1 .. Len(added) : added[i] = f /\ added[j] = f
  BY <1>2
<1> HIDE DEF added
<1>7. \A i, j \in 1 .. Len(added) : MayPrecede(added[i], added[j])'
  BY <1>4, <1>6
<1>8. \A x \in Found, y \in ToSet(added) :
           Put(driver[x]) /\ Live(y)' => MayPrecede(x, y)'
  BY <1>5
<1> QED
  BY <1>3, <1>5, <1>7, <1>8, QueueGrows

(* The other steps leave the lists alone, and what was scheduled.           *)
LEMMA SameDrivers ==
  ASSUME IInv, OInv, UNCHANGED <<discovered, queue, started, driver>>,
         d'.pc = "start" => d.pc = "start" /\ d'.entry = d.entry
  PROVE  OInv'
<1>1. \A e \in Found : PutKept(e)
  BY DEF PutKept
<1> QED
  BY <1>1, OrderKept

LEMMA UnscheduledChanges ==
  ASSUME IInv, OInv, UNCHANGED <<discovered, queue, started>>,
         NEW e \in Entries, NEW r, driver' = [driver EXCEPT ![e] = r],
         ~Put(driver[e]), ~Put(r),
         d'.pc = "start" => d.pc = "start" /\ d'.entry = d.entry
  PROVE  OInv'
<1>1. Found \subseteq Entries /\ driver \in [Entries -> Driver]
  BY Types DEF IInv
<1>2. driver'[e] = r /\ \A x \in Entries : x # e => driver'[x] = driver[x]
  BY <1>1
<1>3. \A x \in Found : PutKept(x)
  BY <1>1, <1>2 DEF PutKept
<1> QED
  BY <1>3, OrderKept

(* An odd driver changes, though it may have been scheduled.                *)
LEMMA OddChanges ==
  ASSUME IInv, OInv, UNCHANGED <<discovered, queue, started>>,
         NEW e \in Odd, e \in Entries, NEW r, driver' = [driver EXCEPT ![e] = r],
         r.scheduled = driver[e].scheduled, r.untrusted = driver[e].untrusted,
         r.initialized = driver[e].initialized, r.image = driver[e].image,
         d'.pc = "start" => d.pc = "start" /\ d'.entry = d.entry
  PROVE  OInv'
<1>1. Found \subseteq Entries /\ driver \in [Entries -> Driver]
  BY Types DEF IInv
<1>2. driver'[e] = r /\ \A x \in Entries : x # e => driver'[x] = driver[x]
  BY <1>1
<1>3. \A x \in Found : PutKept(x)
  BY <1>1, <1>2 DEF PutKept, Put
<1> QED
  BY <1>3, OrderKept

(* A driver that is trusted has an image that will not be started.          *)
LEMMA TrustOrder ==
  ASSUME IInv, OInv, TrustKept, TrustInserts
  PROVE  OInv'
<1>0. UNCHANGED <<discovered, d, started>>
  BY DEF TrustInserts
<1>1. PICK e \in Found : /\ e = Last(trusting)
                         /\ driver[e].untrusted \/ driver[e].scheduled
  BY LastTrusted
<1>2. /\ driver[e] \in Driver /\ driver \in [Entries -> Driver] /\ e \in Entries
      /\ ImageKept(driver[e])
      /\ driver[e].scheduled <=> e \in ToSet(queue)
  BY FoundEntry
<1>3. CASE e \in ToSet(queue)
  <2>1. UNCHANGED <<queue, driver>>
    BY <1>1, <1>3 DEF TrustInserts, Enqueue
  <2> QED
    BY <2>1, <1>0, SameDrivers
<1>4. CASE e \notin ToSet(queue)
  <2>1. driver[e].untrusted /\ driver[e].image = "violation"
    BY <1>1, <1>2, <1>4 DEF ImageKept
  <2>2. /\ queue' = Append(queue, e)
        /\ driver' = [driver EXCEPT ![e] = [driver[e] EXCEPT !.untrusted = FALSE,
                                                             !.scheduled = TRUE]]
    BY <1>1, <1>4 DEF TrustInserts, Enqueue
  <2>3. /\ driver'[e].untrusted = FALSE /\ driver'[e].scheduled
        /\ driver'[e].before = driver[e].before /\ driver'[e].after = driver[e].after
        /\ driver'[e].depex = driver[e].depex
        /\ driver'[e].initialized = driver[e].initialized
        /\ driver'[e].image = driver[e].image
        /\ \A x \in Entries : x # e => driver'[x] = driver[x]
    BY <1>2, <2>2 DEF Driver
  <2>4. Found \subseteq Entries /\ Found' = Found
    BY <1>0, Types DEF IInv, Found
  <2>5. \A x \in Found : PutKept(x) /\ PutStays(x)
    <3>1. PutKept(e)
      BY <2>1, <2>3 DEF PutKept, Put
    <3>2. \A x \in Found : PutKept(x)
      BY <3>1, <2>3, <2>4 DEF PutKept
    <3> QED
      BY <3>2 DEF PutKept, PutStays
  <2>6. HangsOnPut'
    BY <1>0, <2>5, HangsKept DEF OInv
  <2>7. ~Live(e)' /\ Put(driver'[e])
    BY <2>1, <2>3 DEF Live, Put
  <2> QED
    BY <1>0, <1>2, <2>2, <2>4, <2>5, <2>6, <2>7, QueueGrowsByOne
<1> QED
  BY <1>3, <1>4

(* The companions of a driver are put before it and after it.               *)
LEMMA InsertPutOrder ==
  ASSUME IInv, OInv, InsertPut, Frame.entry \notin ToSet(queue)
  PROVE  OInv'
<1> DEFINE n == Len(d.frames)
<1>1. d.pc = "insert" /\ Frame.phase = "put"
  BY DEF InsertPut, At
<1>2. /\ n \in Nat /\ n >= 1 /\ Frame \in Frames
      /\ DOMAIN d.frames = 1 .. n
      /\ Frame = d.frames[n] /\ FrameKept(n) /\ Frame.entry \in Found
      /\ d \in Activation
  BY <1>1, TopFrame
<1>3. PICK e \in Found : e = Frame.entry
  BY <1>2
<1>4. /\ e \in Entries /\ driver[e] \in Driver /\ driver \in [Entries -> Driver]
      /\ Sound(e, driver[e]) /\ DepexRead(driver[e])
  BY <1>3, FoundEntry
<1>5. driver[e].dependent /\ (e \notin Odd => ~Put(driver[e]))
  BY <1>1, <1>2, <1>3, <1>4 DEF FrameKept, Sound, InOneState, Unread
<1>6. /\ driver' = [driver EXCEPT ![e] = [driver[e] EXCEPT !.dependent = FALSE,
                                                          !.scheduled = TRUE]]
      /\ queue' = Append(queue, e)
      /\ UNCHANGED <<discovered, started>>
  BY <1>3 DEF InsertPut, Enqueue
<1>7. /\ driver'[e].scheduled
      /\ driver'[e].before = driver[e].before /\ driver'[e].after = driver[e].after
      /\ driver'[e].depex = driver[e].depex
      /\ driver'[e].initialized = driver[e].initialized
      /\ driver'[e].image = driver[e].image
      /\ \A x \in Entries : x # e => driver'[x] = driver[x]
  BY <1>4, <1>6 DEF Driver
<1>8. d'.pc = "insert"
  BY <1>1, <1>2 DEF InsertPut, Activation
<1>9. Found \subseteq Entries /\ Found' = Found
  BY <1>6, Types DEF IInv, Found
<1>10. \A x \in Found : PutStays(x)
  BY <1>7, <1>9 DEF PutStays, Put
<1> HIDE DEF n
<1>11. ASSUME Hangs(driver[e])
       PROVE  /\ Target(e) # e /\ Target(e) \in Found
              /\ driver[e].before =>
                   ~driver[e].after /\ (Target(e) \notin Odd => ~Put(driver[Target(e)]))
              /\ driver[e].after => Put(driver[Target(e)])
  <2>1. n > 1 /\ Target(e) = d.frames[n - 1].entry
    <3>1. n # 1 /\ (n > 1 => Target(e) = d.frames[n - 1].entry)
      BY <1>2, <1>3, <1>11 DEF FrameKept
    <3> QED
      BY <3>1, <1>2
  <2>2. n - 1 \in 1 .. n /\ n \in 1 .. n /\ n - 1 # n /\ n - 1 < n
    BY <2>1, <1>2
  <2>3. FrameKept(n - 1) /\ d.frames[n - 1].entry # d.frames[n].entry
    BY <2>2, <1>2 DEF IInv, FramesKept
  <2>4. /\ d.frames[n - 1].phase \in {"before", "after"}
        /\ d.frames[n - 1].phase = "before" => driver[e].before
        /\ d.frames[n - 1].phase = "after" => driver[e].after
    <3>1. d.frames[n - 1].phase \in {"before", "put", "after"}
      BY <2>2, <1>1, TopFrame DEF Frames, n
    <3>2. d.frames[n - 1].phase # "put"
      BY <2>2, <2>3 DEF FrameKept, n
    <3>3. /\ d.frames[n - 1].phase = "before" => driver[e].before
          /\ d.frames[n - 1].phase = "after" => driver[e].after
      BY <2>1, <1>2, <1>3 DEF FrameKept
    <3> QED
      BY <3>1, <3>2, <3>3
  <2>5. ~(driver[e].before /\ driver[e].after)
    BY <1>4 DEF DepexRead
  <2>6. /\ Target(e) \in Found
        /\ d.frames[n - 1].phase = "after" => Put(driver[Target(e)])
        /\ d.frames[n - 1].phase # "after" => driver[Target(e)].dependent
    BY <2>1, <2>3 DEF FrameKept
  <2>7. driver[Target(e)].dependent /\ Target(e) \notin Odd => ~Put(driver[Target(e)])
    BY <2>6, FoundEntry DEF Sound, InOneState, Unread
  <2>8. Target(e) # e
    BY <2>1, <2>3, <1>2, <1>3
  <2> QED
    BY <2>4, <2>5, <2>6, <2>7, <2>8
<1>12. Target(e)' = Target(e) /\ \A x \in Entries : x # e => Target(x)' = Target(x)
  BY <1>7 DEF Target
<1>13. Put(driver'[e]) /\ Hangs(driver'[e]) = Hangs(driver[e])
  BY <1>7 DEF Put, Hangs
<1>14. HangsOnPut'
  <2>1. ASSUME NEW x \in Found, Free(x), Put(driver'[x]), Hangs(driver'[x])
        PROVE  /\ Target(x)' # x
               /\ driver'[x].after => Target(x)' \in Found /\ Put(driver'[Target(x)'])
    <3>1. CASE x = e
      BY <3>1, <2>1, <1>7, <1>9, <1>11, <1>12, <1>13
    <3>2. CASE x # e
      <4>1. driver'[x] = driver[x] /\ Target(x)' = Target(x)
        BY <3>2, <1>7, <1>9, <1>12
      <4>2. /\ Target(x) # x
            /\ driver[x].after => Target(x) \in Found /\ Put(driver[Target(x)])
        BY <2>1, <4>1 DEF OInv, HangsOnPut
      <4>3. \A y \in Found : Put(driver[y]) => Put(driver'[y])
        BY <1>10 DEF PutStays
      <4> QED
        BY <4>1, <4>2, <4>3
    <3> QED
      BY <3>1, <3>2
  <2>2. ASSUME NEW x \in Found', Free(x)', Put(driver[x])', Hangs(driver[x])'
        PROVE  /\ Target(x)' # x
               /\ driver'[x].after => Target(x)' \in Found' /\ Put(driver[Target(x)])'
    BY <2>1, <2>2, <1>9 DEF Put, Hangs, Free
  <2> QED
    BY <2>2 DEF HangsOnPut
<1>15. ASSUME NEW x \in Found, Put(driver[x]) PROVE MayPrecede(x, e)'
  <2> SUFFICES ASSUME x \notin Odd, e \notin Odd PROVE MayPrecede(x, e)'
    BY DEF MayPrecede
  <2>1. x # e /\ driver'[x] = driver[x] /\ Target(x)' = Target(x)
    BY <1>5, <1>7, <1>9, <1>12, <1>15
  <2>2. driver[e].before => Target(e) # x
    BY <1>11, <1>15 DEF Hangs
  <2>3. Free(x) /\ driver[x].after => Target(x) # e
    BY <1>5, <1>15 DEF OInv, HangsOnPut, Hangs
  <2> QED
    BY <2>1, <2>2, <2>3, <1>7, <1>12 DEF MayPrecede, Free
<1> QED
  BY <1>4, <1>6, <1>8, <1>9, <1>10, <1>13, <1>14, <1>15, QueueGrowsByOne

(* A priori drivers may be queued after any driver.                         *)
LEMMA DiscoversOrder ==
  ASSUME IInv, OInv, Discovers
  PROVE  OInv'
<1>1. /\ queue' = queue \o First
      /\ Found' = Found \cup ToSet(NewFiles)
      /\ \A e \in ToSet(NewFiles) : e \in Entries /\ e \notin Found
      /\ ToSet(First) \subseteq ToSet(NewFiles)
      /\ \A e \in Entries : e \notin ToSet(NewFiles) => driver'[e] = driver[e]
      /\ \A e \in ToSet(NewFiles) :
           /\ driver'[e].scheduled <=> e \in ToSet(First)
           /\ ~driver'[e].untrusted /\ ~driver'[e].initialized
           /\ e \in ToSet(First) => e \in AprioriEntries
  BY DiscoversIs
<1>2. UNCHANGED <<started, d>> /\ ~Quiet
  BY DEF Discovers, FwVolNotify
<1>3. First \in Seq(Entries)
  BY <1>2, VolumeIs
<1>4. \A e \in Found : driver'[e] = driver[e] /\ e \in Entries
  BY <1>1, Types DEF IInv
<1>5. \A e \in Found : PutStays(e)
  BY <1>4 DEF PutStays
<1>6. HangsOnPut'
  <2>1. ASSUME NEW x \in Found', Free(x), Put(driver'[x]), Hangs(driver'[x])
        PROVE  /\ Target(x)' # x
               /\ driver'[x].after => Target(x)' \in Found' /\ Put(driver'[Target(x)'])
    <3>1. x \in Found
      BY <2>1, <1>1 DEF Put, Free
    <3>2. driver'[x] = driver[x] /\ Target(x)' = Target(x)
      BY <3>1, <1>4 DEF Target
    <3>3. /\ Target(x) # x
          /\ driver[x].after => Target(x) \in Found /\ Put(driver[Target(x)])
      BY <2>1, <3>1, <3>2 DEF OInv, HangsOnPut
    <3> QED
      BY <3>2, <3>3, <1>1, <1>4
  <2>2. ASSUME NEW x \in Found', Free(x)', Put(driver[x])', Hangs(driver[x])'
        PROVE  /\ Target(x)' # x
               /\ driver'[x].after => Target(x)' \in Found' /\ Put(driver[Target(x)])'
    BY <2>1, <2>2 DEF Put, Hangs, Free
  <2> QED
    BY <2>2 DEF HangsOnPut
<1>7. \A y \in ToSet(First) : y \in AprioriEntries /\ y \notin Found
  BY <1>1
<1>8. ASSUME NEW x \in Found, NEW y \in ToSet(First), Put(driver[x])
      PROVE  MayPrecede(x, y)'
  <2>1. Free(x) /\ driver[x].after => Target(x) # y
    BY <1>7, <1>8 DEF OInv, HangsOnPut, Hangs
  <2>2. driver'[x] = driver[x] /\ Target(x)' = Target(x)
    BY <1>4 DEF Target
  <2>3. ~Free(y)
    BY <1>7 DEF Free
  <2> QED
    BY <2>1, <2>2, <2>3 DEF MayPrecede, Free
<1>9. PICK added \in Seq(Entries) : added = First
  BY <1>3
<1>10. \A i, j \in 1 .. Len(added) : MayPrecede(added[i], added[j])'
  <2> SUFFICES ASSUME NEW i \in 1 .. Len(added), NEW j \in 1 .. Len(added)
               PROVE  MayPrecede(added[i], added[j])'
    OBVIOUS
  <2>1. added[i] \in ToSet(First) /\ added[j] \in ToSet(First)
    BY <1>9, ListIs
  <2> QED
    BY <2>1, <1>7 DEF MayPrecede, Free
<1> QED
  BY <1>1, <1>2, <1>5, <1>6, <1>8, <1>9, <1>10, QueueGrows

LEMMA LoadImageOrder ==
  ASSUME IInv, OInv, NEW status \in {"success", "violation", "error"}, LoadImage(status)
  PROVE  OInv'
<1>1. d.pc = "drain" /\ d \in Activation /\ queue # <<>>
  BY Plain DEF LoadImage, At
<1>2. PICK e \in Found : e = Head(queue)
  BY <1>1, FirstQueued
<1>3. /\ e \in Entries /\ driver[e] \in Driver /\ driver \in [Entries -> Driver]
  BY FoundEntry
<1>4. PICK image : /\ driver' = [driver EXCEPT ![e].image = image]
                   /\ driver[e].image # None => image = driver[e].image
  BY <1>2, <1>3 DEF LoadImage
<1>5. /\ UNCHANGED <<discovered, queue, started>> /\ d'.pc = "loaded"
  BY <1>1 DEF LoadImage, Activation
<1>6. /\ driver'[e].image = image
      /\ driver'[e].scheduled = driver[e].scheduled
      /\ driver'[e].untrusted = driver[e].untrusted
      /\ driver'[e].initialized = driver[e].initialized
      /\ driver'[e].before = driver[e].before /\ driver'[e].after = driver[e].after
      /\ driver'[e].depex = driver[e].depex
      /\ \A x \in Entries : x # e => driver'[x] = driver[x]
  BY <1>3, <1>4 DEF Driver
<1>7. driver[e].image = "violation" => image = "violation"
  BY <1>4, DispatcherAssumption
<1>8. Found \subseteq Entries
  BY Types DEF IInv
<1>9. \A x \in Found : PutKept(x)
  BY <1>6, <1>7, <1>8 DEF PutKept, Put
<1> QED
  BY <1>5, <1>9, OrderKept

LEMMA VisitOrder ==
  ASSUME IInv, OInv, Visit
  PROVE  OInv'
<1>1. d.pc = "search" /\ d \in Activation
  BY Plain DEF Visit, At
<1>2. PICK e \in Found : e = discovered[d.link]
  <2>1. discovered \in Seq(Entries) /\ d.link \in Nat \ {0}
    BY Types DEF IInv
  <2>2. d.link \in 1 .. Len(discovered)
    BY <2>1, ListIs DEF Visit
  <2> QED
    BY <2>1, <2>2, ListIs DEF Found
<1>3. /\ e \in Entries /\ driver[e] \in Driver /\ driver \in [Entries -> Driver]
      /\ Sound(e, driver[e]) /\ DepexRead(driver[e]) /\ ImageKept(driver[e])
  BY FoundEntry
<1>4. UNCHANGED <<discovered, queue, started>>
  BY DEF Visit
<1>5. d'.pc # "start"
  <2>1. NextEntry.pc = "search"
    BY <1>1, NextEntryIs
  <2>2. \A x : [d EXCEPT !.pc = "evaluate", !.entry = x].pc = "evaluate"
    BY <1>1 DEF Activation
  <2> QED
    BY <2>1, <2>2 DEF Visit
<1>6. CASE ~driver[e].protocolError
  <2>1. driver' = [driver EXCEPT ![e] = driver[e]]
    BY <1>2, <1>6 DEF Visit
  <2>2. driver' = driver
    BY <2>1, <1>3
  <2> QED
    BY <2>2, <1>4, <1>5, SameDrivers
<1>7. CASE driver[e].protocolError
  <2>1. driver' = [driver EXCEPT ![e] = CoreGetDepexSection(e)]
    BY <1>2, <1>7 DEF Visit
  <2>2. Unstated(driver[e])
    BY <1>3, <1>7 DEF Unstated, DepexRead, Hangs
  <2>3. PICK r : r = CoreGetDepexSection(e)
    OBVIOUS
  <2>4. /\ r.scheduled = driver[e].scheduled /\ r.untrusted = driver[e].untrusted
        /\ r.initialized = driver[e].initialized /\ r.image = driver[e].image
    BY <1>3, <2>2, <2>3, DepexSection
  <2>5. e \notin Odd => ~Put(driver[e]) /\ ~Put(r)
    BY <1>3, <1>7, <2>4 DEF Sound, InOneState, Unread, Put
  <2> QED
    BY <2>1, <2>3, <2>4, <2>5, <1>3, <1>4, <1>5, UnscheduledChanges, OddChanges
<1> QED
  BY <1>6, <1>7

LEMMA EvaluateOrder ==
  ASSUME IInv, OInv, Evaluate
  PROVE  OInv'
<1>1. d.pc = "evaluate" /\ d \in Activation
  BY Plain DEF Evaluate, At
<1>2. PICK e \in Found : e = d.entry /\ driver[e].dependent
  BY <1>1 DEF IInv, EntryKept
<1>3. /\ e \in Entries /\ driver[e] \in Driver /\ driver \in [Entries -> Driver]
      /\ Sound(e, driver[e])
  BY FoundEntry
<1>4. UNCHANGED <<discovered, queue, started>>
  BY DEF Evaluate
<1>5. d'.pc # "start"
  <2>1. \A b : Result(b) => d'.pc # "start"
    BY <1>1, <1>2, <1>3, ResultIs
  <2>2. \A i, s : [d EXCEPT !.iterator = i, !.bools = s].pc = "evaluate"
    BY <1>1 DEF Activation
  <2> QED
    BY <2>1, <2>2 DEF Evaluate
<1>6. e \notin Odd => ~Put(driver[e])
  BY <1>2, <1>3 DEF Sound, InOneState, Unread
<1>7. CASE UNCHANGED driver
  BY <1>4, <1>5, <1>7, SameDrivers
<1>8. CASE \E c : driver' = [driver EXCEPT ![e].depex = c]
  <2>1. PICK c : driver' = [driver EXCEPT ![e].depex = c]
    BY <1>8
  <2> DEFINE r == [driver[e] EXCEPT !.depex = c]
  <2>2. driver' = [driver EXCEPT ![e] = r]
    BY <2>1
  <2>3. /\ r.scheduled = driver[e].scheduled /\ r.untrusted = driver[e].untrusted
        /\ r.initialized = driver[e].initialized /\ r.image = driver[e].image
    BY <1>3 DEF Driver
  <2> HIDE DEF r
  <2>4. e \notin Odd => ~Put(r)
    BY <2>3, <1>6 DEF Put
  <2> QED
    BY <2>2, <2>3, <2>4, <1>3, <1>4, <1>5, <1>6, UnscheduledChanges, OddChanges
<1> QED
  BY <1>2, <1>7, <1>8 DEF Evaluate

LEMMA ServiceOrder ==
  ASSUME IInv, OInv, Service
  PROVE  OInv'
<1>1. UNCHANGED <<discovered, queue, d, started>>
  BY DEF Service
<1>2. ASSUME UNCHANGED driver PROVE OInv'
  BY <1>1, <1>2, SameDrivers
<1>3. ASSUME NEW e \in Entries, CoreTrust(e) PROVE OInv'
  BY <1>2, <1>3 DEF CoreTrust
<1>4. ASSUME NEW e \in Entries, CoreSchedule(e) PROVE OInv'
  <2> DEFINE r == [driver[e] EXCEPT !.unrequested = FALSE, !.dependent = TRUE]
  <2>1. e \in Found /\ driver[e].unrequested
    BY <1>4 DEF CoreSchedule, Found
  <2>2. /\ driver[e] \in Driver /\ driver \in [Entries -> Driver]
        /\ e \notin Odd => ~Put(driver[e])
    BY <2>1, FoundEntry DEF Sound, InOneState, Unread
  <2>3. driver' = [driver EXCEPT ![e] = r]
    BY <2>2, <1>4 DEF CoreSchedule
  <2>4. /\ r.scheduled = driver[e].scheduled /\ r.untrusted = driver[e].untrusted
        /\ r.initialized = driver[e].initialized /\ r.image = driver[e].image
    BY <2>2 DEF Driver
  <2> HIDE DEF r
  <2>5. e \notin Odd => ~Put(r)
    BY <2>2, <2>4 DEF Put
  <2> QED
    BY <2>2, <2>3, <2>4, <2>5, <1>1, UnscheduledChanges, OddChanges
<1>5. ASSUME NEW p \in Protocols, InstallProtocol(p) \/ UninstallProtocol(p) PROVE OInv'
  BY <1>2, <1>5 DEF InstallProtocol, UninstallProtocol
<1>6. ASSUME NEW fv \in Volumes, InstallVolume(fv) PROVE OInv'
  BY <1>2, <1>6 DEF InstallVolume
<1> QED
  BY <1>3, <1>4, <1>5, <1>6 DEF Service

LEMMA MoveOrder ==
  ASSUME IInv, OInv,
         \/ ImageReturns \/ ProcessFvImage \/ RoundEnd \/ SignalReturns \/ SearchEnd
         \/ DispatchReturns \/ InsertRecurse \/ InsertLoopEnd
         \/ \E created \in BOOLEAN : Dispatch(created)
  PROVE  OInv'
<1>1. UNCHANGED <<discovered, queue, started, driver>>
  BY DEF ImageReturns, ProcessFvImage, RoundEnd, SignalReturns, SearchEnd,
         DispatchReturns, InsertRecurse, InsertLoopEnd, Dispatch
<1>2. d \in Activation
  BY DEF IInv, TypeOK
<1>3. d'.pc # "start"
  <2>1. CASE ImageReturns \/ ProcessFvImage \/ SignalReturns \/ InsertRecurse
    BY <2>1, <1>2 DEF ImageReturns, ProcessFvImage, SignalReturns, InsertRecurse,
                      At, Activation
  <2>2. CASE RoundEnd \/ SearchEnd
    BY <2>2, <1>2 DEF RoundEnd, SearchEnd, Activation
  <2>3. CASE DispatchReturns
    BY <2>3 DEF DispatchReturns, Idle
  <2>4. CASE InsertLoopEnd
    <3>1. NextEntry \in Activation /\ NextEntry.pc = "search"
      BY <1>2, NextEntryIs
    <3>2. [NextEntry EXCEPT !.ready = TRUE].pc = "search"
      BY <3>1 DEF Activation
    <3>3. d.pc = "insert" /\ \A s : [d EXCEPT !.frames = s].pc = "insert"
      BY <2>4, <1>2 DEF InsertLoopEnd, At, Activation
    <3> QED
      BY <2>4, <3>2, <3>3 DEF InsertLoopEnd
  <2>5. CASE \E created \in BOOLEAN : Dispatch(created)
    BY <2>5, <1>2 DEF Dispatch, At, Activation
  <2> QED
    BY <2>1, <2>2, <2>3, <2>4, <2>5
<1> QED
  BY <1>1, <1>3, SameDrivers

LEMMA NextOInv == IInv /\ TrustKept /\ OInv /\ [Next]_vars => OInv'
<1> SUFFICES ASSUME IInv, TrustKept, OInv, [Next]_vars PROVE OInv'
  OBVIOUS
<1>1. CASE DispatcherStep
  <2>1. ASSUME NEW status \in {"success", "violation", "error"}, LoadImage(status)
        PROVE  OInv'
    BY <2>1, LoadImageOrder
  <2>2. CASE InsertPut
    <3>1. ASSUME Frame.entry \in ToSet(queue) PROVE OInv'
      BY <2>2, <3>1, BreakIs, SameDrivers DEF InsertBreaks
    <3> QED
      BY <2>2, <3>1, InsertPutOrder
  <2> QED
    BY <1>1, <2>1, <2>2, TakeOffOrder, StartImageOrder, MoveOrder, VisitOrder,
       EvaluateOrder DEF DispatcherStep
<1>2. CASE FwVolNotify
  <2>1. CASE Volume \in processed
    BY <1>2, <2>1, SameDrivers DEF FwVolNotify, Volume
  <2>2. CASE Volume \notin processed
    BY <1>2, <2>2, DiscoversOrder DEF Discovers
  <2> QED
    BY <2>1, <2>2
<1>3. CASE Call \/ Callback
  BY <1>3, ServiceOrder DEF Call, Callback
<1>4. CASE \E created \in BOOLEAN : Dispatch(created)
  BY <1>4, MoveOrder
<1>5. CASE UNCHANGED vars
  BY <1>5, SameDrivers DEF vars
<1>6. CASE TrustInserts
  BY <1>6, TrustOrder
<1> QED
  BY <1>1, <1>2, <1>3, <1>4, <1>5, <1>6 DEF Next

(* Drivers are started in the order BEFORE and AFTER ask for: through chains of
   such drivers, with volumes, callbacks, requests and trust coming at any
   time.                                                                    *)
THEOREM OrderedHolds == Spec => []Ordered
<1>1. Init => OInv
  <2> SUFFICES ASSUME Init PROVE OInv
    OBVIOUS
  <2>1. started = <<>> /\ queue = <<>> /\ discovered = <<>> /\ d.pc = "idle"
    BY DEF Init, Idle
  <2>2. Found = {} /\ ToSet(started) = {} /\ ToSet(queue) = {}
    BY <2>1, EmptyList DEF Found
  <2>3. DOMAIN started = {} /\ DOMAIN queue = {}
    BY <2>1
  <2>4. HangsOnPut
    BY <2>2 DEF HangsOnPut
  <2>5. InOrder
    BY <2>1, <2>2, <2>3 DEF InOrder
  <2> QED
    BY <2>4, <2>5 DEF OInv
<1>2. IInv /\ TrustKept /\ OInv /\ [Next]_vars => OInv'
  BY NextOInv
<1>3. IInv /\ OInv => Ordered
  <2> SUFFICES ASSUME IInv, OInv, NEW i \in DOMAIN started, NEW j \in DOMAIN started,
                      Free(started[i]), Target(started[i]) = started[j],
                      started[j] \notin Odd
               PROVE  /\ driver[started[i]].before => i < j
                      /\ driver[started[i]].after => j < i
    BY DEF Ordered, Free
  <2>1. i \in Nat /\ j \in Nat
    BY ListedPut
  <2>2. started[i] \in Found /\ Put(driver[started[i]])
    BY ListedPut
  <2>3. /\ i < j => MayPrecede(started[i], started[j])
        /\ j < i => MayPrecede(started[j], started[i])
    BY DEF OInv, InOrder
  <2>4. Hangs(driver[started[i]]) => i # j
    BY <2>2 DEF OInv, HangsOnPut
  <2>5. driver[started[i]].before => ~(j < i)
    BY <2>3, OddNotFree DEF MayPrecede
  <2>6. driver[started[i]].after => ~(i < j)
    BY <2>3, OddNotFree DEF MayPrecede
  <2> QED
    BY <2>1, <2>4, <2>5, <2>6 DEF Hangs
<1> QED
  BY <1>1, <1>2, <1>3, SpecIInv, PTL DEF Spec

-----------------------------------------------------------------------------
(* Companions                                                               *)

(* Outside the recursion, only callbacks can leave a notification due.      *)
LEMMA NoFramesPassed ==
  ASSUME d'.frames = <<>>,
         ~disturbed' /\ d'.pc \in {"search", "evaluate", "insert"} => Quiet'
  PROVE  CInv'
BY DEF CInv

(* The loops of a call that has just begun have passed nothing.             *)
LEMMA BeginsPassed ==
  ASSUME IInv', NEW k \in Nat, d'.frames[k].phase = "before", d'.frames[k].link = 1
  PROVE  FramePassed(k)' /\ PutDone(k)'
<1>0. discovered' \in Seq(Entries)
  BY DEF IInv, TypeOK
<1>1. \A i \in DOMAIN discovered' : i \in Nat /\ ~(i < 1)
  BY <1>0, ListIs
<1> QED
  BY <1>1 DEF FramePassed, PutDone

(* What a loop has yet to pass is wanted.                                   *)
LEMMA LeftIsWanted ==
  ASSUME IInv, d.pc = "insert", NEW x, x # Frame.entry,
         \/ Frame.phase = "before" /\ LeftBefore(Frame.entry, x)
         \/ Frame.phase = "after" /\ LeftAfter(Frame.entry, x)
  PROVE  Wanted(x)
BY DEF Wanted, LeftBefore, LeftAfter

(* No call is below the innermost one.                                      *)
LEMMA InnermostPassed ==
  ASSUME IInv, CInv, ~disturbed, d.pc = "insert"
  PROVE  \A i \in DOMAIN discovered : discovered[i] # Frame.entry =>
           /\ LeftBefore(Frame.entry, discovered[i]) =>
                Frame.phase = "before" /\ ~(i < Frame.link)
           /\ LeftAfter(Frame.entry, discovered[i]) =>
                ~(Frame.phase = "after" /\ i < Frame.link)
<1> DEFINE n == Len(d.frames)
<1>1. n \in Nat /\ n >= 1 /\ DOMAIN d.frames = 1 .. n /\ Frame = d.frames[n]
  BY TopFrame
<1>2. n \in DOMAIN d.frames /\ ~(n < n)
  BY <1>1
<1>3. FramePassed(n)
  BY <1>2 DEF CInv
<1>4. \A i : ~Passed(n, i)
  BY <1>2 DEF Passed
<1> HIDE DEF n
<1> QED
  BY <1>1, <1>3, <1>4 DEF FramePassed

(* The outer calls of a step of the innermost one.                          *)
LEMMA OutersPassed ==
  ASSUME IInv, IInv', CInv, ~disturbed, d.pc = "insert", UNCHANGED <<discovered>>,
         \A e \in Found : /\ driver'[e].dependent => driver[e].dependent
                          /\ driver'[e].before = driver[e].before
                          /\ driver'[e].after = driver[e].after
                          /\ driver'[e].depex = driver[e].depex,
         Len(d'.frames) >= Len(d.frames),
         \A k \in 1 .. Len(d.frames) - 1 : d'.frames[k] = d.frames[k],
         d'.frames[Len(d.frames)].entry = Frame.entry,
         NEW k \in 1 .. Len(d.frames) - 1
  PROVE  FramePassed(k)' /\ PutDone(k)'
<1> DEFINE n == Len(d.frames)
<1>1. n \in Nat /\ n >= 1 /\ DOMAIN d.frames = 1 .. n /\ Frame = d.frames[n]
  BY TopFrame
<1>2. k \in DOMAIN d.frames /\ k < n /\ k + 1 \in 1 .. n /\ k \in Nat
  BY <1>1
<1>3. FramePassed(k)
  BY <1>2 DEF CInv
<1>4. PICK f : f = d.frames[k] /\ f = d'.frames[k]
  OBVIOUS
<1>5. d'.frames[k + 1].entry = d.frames[k + 1].entry
  <2>1. CASE k + 1 = n
    BY <2>1, <1>1
  <2>2. CASE k + 1 # n
    <3>1. k + 1 \in 1 .. n - 1
      BY <1>1, <1>2, <2>2
    <3> QED
      BY <3>1
  <2> QED
    BY <2>1, <2>2
<1>6. Len(d'.frames) \in Nat
  <2>1. d'.frames \in Seq(Frames)
    BY DEF IInv, TypeOK, Activation
  <2> QED
    BY <2>1, ListIs
<1>7. k < Len(d'.frames)
  BY <1>1, <1>2, <1>6
<1>8. \A i \in DOMAIN discovered : discovered[i] \in Found
  BY DEF Found, ToSet
<1>9. \A x \in Found : /\ LeftBefore(f.entry, x)' => LeftBefore(f.entry, x)
                       /\ LeftAfter(f.entry, x)' => LeftAfter(f.entry, x)
  BY DEF LeftBefore, LeftAfter, Target
<1>10. \A i : Passed(k, i)' <=> Passed(k, i)
  BY <1>2, <1>5, <1>7 DEF Passed
<1>11. \A i \in DOMAIN discovered : discovered[i] # f.entry =>
        /\ LeftBefore(f.entry, discovered[i]) =>
             f.phase = "before" /\ (i < f.link => Passed(k, i))
        /\ LeftAfter(f.entry, discovered[i]) =>
             (f.phase = "after" /\ i < f.link => Passed(k, i))
  BY <1>3, <1>4 DEF FramePassed
<1>12. ASSUME NEW i \in DOMAIN discovered', discovered'[i] # f.entry
       PROVE  /\ LeftBefore(f.entry, discovered[i])' =>
                   f.phase = "before" /\ (i < f.link => Passed(k, i)')
              /\ LeftAfter(f.entry, discovered[i])' =>
                   (f.phase = "after" /\ i < f.link => Passed(k, i)')
  <2>1. PICK x \in Found : x = discovered[i] /\ x = discovered'[i]
    BY <1>8
  <2> QED
    BY <2>1, <1>9, <1>10, <1>11, <1>12 DEF LeftBefore, LeftAfter
<1>13. FramePassed(k)'
  BY <1>4, <1>12 DEF FramePassed, LeftBefore, LeftAfter
<1>14. f.phase = "after" => ~driver'[f.entry].dependent
  <2>1. f.entry \in Found
    BY <1>2, <1>4 DEF IInv, FramesKept, FrameKept
  <2>2. f.phase = "after" => ~driver[f.entry].dependent
    BY <1>2, <1>4 DEF CInv, PutDone
  <2> QED
    BY <2>1, <2>2
<1> QED
  BY <1>4, <1>13, <1>14 DEF PutDone

LEMMA InsertRecursePassed ==
  ASSUME IInv, IInv', CInv, InsertRecurse
  PROVE  CInv'
<1>1. /\ d.pc = "insert" /\ Frame.phase # "put" /\ Matches # {} /\ Quiet
      /\ d' = [d EXCEPT !.frames = Deeper]
      /\ UNCHANGED <<discovered, driver, notified, disturbed>>
  BY DEF InsertRecurse, At, Deeper, NextMatch
<1>2. PICK n \in Nat : n = Len(d.frames)
  BY <1>1, TopFrame
<1>3. PICK m \in 1 .. Len(discovered) : m = NextMatch
  BY <1>1, NextMatchIs
<1>4. PICK f \in Frames : f = Frame
  BY <1>1, TopFrame
<1>5. /\ n >= 1 /\ DOMAIN d.frames = 1 .. n /\ f = d.frames[n] /\ d \in Activation
  BY <1>1, <1>2, <1>4, TopFrame
<1>6. d'.frames = Deeper /\ d'.pc = "insert"
  BY <1>1, <1>5 DEF Activation
<1>7. /\ Len(d'.frames) = n + 1 /\ DOMAIN d'.frames = 1 .. n + 1
      /\ \A k \in 1 .. n - 1 : d'.frames[k] = d.frames[k]
      /\ d'.frames[n] = [f EXCEPT !.link = m + 1]
      /\ d'.frames[n + 1] = InsertFrame(discovered[m])
  BY <1>1, <1>2, <1>3, <1>4, <1>6, DeeperIs
<1>8. /\ d'.frames[n].entry = f.entry /\ d'.frames[n].phase = f.phase
      /\ d'.frames[n].link = m + 1
      /\ d'.frames[n + 1].entry = discovered[m] /\ d'.frames[n + 1].phase = "before"
      /\ d'.frames[n + 1].link = 1
  BY <1>7 DEF Frames, InsertFrame
<1>9. \A i \in f.link .. m - 1 : ~Wanted(discovered[i])
  BY <1>1, <1>3, <1>4, NextMatchIs
<1>10. CASE disturbed
  BY <1>1, <1>10 DEF CInv
<1>11. CASE ~disturbed
  <2>1. ASSUME NEW k \in 1 .. n - 1 PROVE FramePassed(k)' /\ PutDone(k)'
    <3>1. Len(d'.frames) >= Len(d.frames)
      BY <1>2, <1>7
    <3> QED
      BY <3>1, <1>1, <1>2, <1>4, <1>7, <1>8, <1>11, OutersPassed
  <2>2. FramePassed(n + 1)' /\ PutDone(n + 1)'
    BY <1>8, BeginsPassed
  <2>3. FramePassed(n)'
    <3>1. discovered \in Seq(Entries) /\ f.link \in Nat \ {0}
      BY Types DEF IInv, Frames
    <3>2. DOMAIN discovered = 1 .. Len(discovered) /\ Len(discovered) \in Nat
      BY <3>1, ListIs
    <3>3. ASSUME NEW i \in DOMAIN discovered, discovered[i] # f.entry,
                 \/ f.phase = "before" /\ LeftBefore(f.entry, discovered[i])
                 \/ f.phase = "after" /\ LeftAfter(f.entry, discovered[i]),
                 i < m + 1
          PROVE  i = m
      <4>1. Wanted(discovered[i])
        BY <3>3, <1>1, <1>4, LeftIsWanted
      <4>2. ~(i < f.link)
        BY <3>3, <1>1, <1>4, <1>11, InnermostPassed
      <4>3. ~(i \in f.link .. m - 1)
        BY <4>1, <1>9
      <4> QED
        BY <3>1, <3>2, <3>3, <4>2, <4>3
    <3>4. Passed(n, m)'
      <4>1. n < Len(d'.frames)
        BY <1>7
      <4> QED
        BY <4>1, <1>1, <1>8 DEF Passed
    <3>5. \A e, x : /\ LeftBefore(e, x)' <=> LeftBefore(e, x)
                    /\ LeftAfter(e, x)' <=> LeftAfter(e, x)
      BY <1>1 DEF LeftBefore, LeftAfter, Target
    <3>6. ASSUME NEW i \in DOMAIN discovered, discovered[i] # f.entry,
                 LeftBefore(f.entry, discovered[i])
          PROVE  f.phase = "before" /\ (i < m + 1 => Passed(n, i)')
      <4>1. f.phase = "before"
        BY <3>6, <1>1, <1>4, <1>11, InnermostPassed
      <4> QED
        BY <4>1, <3>3, <3>4, <3>6
    <3>7. ASSUME NEW i \in DOMAIN discovered, discovered[i] # f.entry,
                 LeftAfter(f.entry, discovered[i])
          PROVE  f.phase = "after" /\ i < m + 1 => Passed(n, i)'
      BY <3>3, <3>4, <3>7
    <3>8. ASSUME NEW i \in DOMAIN discovered', discovered'[i] # f.entry
          PROVE  /\ LeftBefore(f.entry, discovered[i])' =>
                      f.phase = "before" /\ (i < m + 1 => Passed(n, i)')
                 /\ LeftAfter(f.entry, discovered[i])' =>
                      (f.phase = "after" /\ i < m + 1 => Passed(n, i)')
      <4>1. PICK x : x = discovered[i] /\ x = discovered'[i]
        BY <1>1
      <4>2. i \in DOMAIN discovered
        BY <1>1
      <4>3. /\ LeftBefore(f.entry, discovered[i])' => LeftBefore(f.entry, discovered[i])
            /\ LeftAfter(f.entry, discovered[i])' => LeftAfter(f.entry, discovered[i])
        BY <4>1, <3>5 DEF LeftBefore, LeftAfter
      <4> QED
        BY <4>1, <4>2, <4>3, <3>6, <3>7, <3>8
    <3> QED
      BY <3>8, <1>8 DEF FramePassed, LeftBefore, LeftAfter
  <2>4. \A k \in 1 .. n + 1 : k \in 1 .. n - 1 \/ k = n \/ k = n + 1
    BY <1>5
  <2>5. PutDone(n)'
    <3>1. f.phase = "after" => ~driver[f.entry].dependent
      BY <1>5, <1>11 DEF CInv, PutDone
    <3> QED
      BY <3>1, <1>1, <1>8 DEF PutDone
  <2>6. \A k \in DOMAIN d'.frames : FramePassed(k)' /\ PutDone(k)'
    BY <2>1, <2>2, <2>3, <2>4, <2>5, <1>7
  <2> QED
    BY <2>6, <1>1 DEF CInv, Quiet
<1> QED
  BY <1>10, <1>11

(* At the end of its loop the innermost call has left none behind.          *)
LEMMA LoopEndPassed ==
  ASSUME IInv, CInv, ~disturbed, d.pc = "insert", Matches = {},
         NEW i \in DOMAIN discovered, discovered[i] # Frame.entry
  PROVE  /\ Frame.phase # "put" => ~LeftBefore(Frame.entry, discovered[i])
         /\ Frame.phase = "after" => ~LeftAfter(Frame.entry, discovered[i])
<1>1. discovered \in Seq(Entries) /\ Frame.link \in Nat \ {0}
  BY TopFrame, Types DEF IInv, Frames
<1>2. i \in 1 .. Len(discovered) /\ Len(discovered) \in Nat
  BY <1>1, ListIs
<1>3. ASSUME \/ Frame.phase = "before" /\ LeftBefore(Frame.entry, discovered[i])
             \/ Frame.phase = "after" /\ LeftAfter(Frame.entry, discovered[i])
      PROVE  FALSE
  <2>1. Wanted(discovered[i])
    BY <1>3, LeftIsWanted
  <2>2. ~(i < Frame.link)
    BY <1>3, InnermostPassed
  <2>3. i \in Frame.link .. Len(discovered)
    BY <2>2, <1>1, <1>2
  <2> QED
    BY <2>1, <2>3 DEF Matches
<1>4. LeftBefore(Frame.entry, discovered[i]) => Frame.phase = "before"
  BY InnermostPassed
<1> QED
  BY <1>3, <1>4

LEMMA InsertLoopEndPassed ==
  ASSUME IInv, IInv', CInv, InsertLoopEnd
  PROVE  CInv'
<1>1. /\ d.pc = "insert" /\ Frame.phase # "put" /\ Matches = {} /\ Quiet
      /\ UNCHANGED <<discovered, driver, notified, disturbed>>
  BY DEF InsertLoopEnd, At
<1>2. PICK n \in Nat : n = Len(d.frames)
  BY <1>1, TopFrame
<1>3. PICK f \in Frames : f = Frame
  BY <1>1, TopFrame
<1>4. /\ n >= 1 /\ DOMAIN d.frames = 1 .. n /\ f = d.frames[n] /\ d \in Activation
      /\ FrameKept(n)
  BY <1>1, <1>2, <1>3, TopFrame
<1>5. CASE disturbed
  BY <1>1, <1>5 DEF CInv
<1>6. \A e, x : /\ LeftBefore(e, x)' <=> LeftBefore(e, x)
                /\ LeftAfter(e, x)' <=> LeftAfter(e, x)
  BY <1>1 DEF LeftBefore, LeftAfter, Target
<1>7. Quiet'
  BY <1>1 DEF Quiet
<1>8. CASE ~disturbed /\ f.phase = "before"
  <2> DEFINE g == [f EXCEPT !.phase = "put"]
  <2>1. g \in Frames /\ g.entry = f.entry /\ g.phase = "put"
    BY DEF Frames
  <2>2. d' = [d EXCEPT !.frames = Becomes(g)]
    BY <1>3, <1>8 DEF InsertLoopEnd
  <2>3. d'.frames = Becomes(g)
    BY <2>2, <1>4 DEF Activation
  <2> HIDE DEF g
  <2>4. /\ d'.frames \in Seq(Frames) /\ Len(d'.frames) = n
        /\ \A k \in 1 .. n - 1 : d'.frames[k] = d.frames[k]
        /\ d'.frames[n] = g
    BY <2>1, <2>3, <1>1, <1>2, BecomesIs
  <2>5. DOMAIN d'.frames = 1 .. n
    BY <2>4, ListIs
  <2>6. ASSUME NEW k \in 1 .. n - 1 PROVE FramePassed(k)' /\ PutDone(k)'
    <3>1. Len(d'.frames) >= Len(d.frames)
      BY <1>2, <2>4
    <3> QED
      BY <3>1, <2>1, <2>4, <1>1, <1>2, <1>3, <1>8, OutersPassed
  <2>7. FramePassed(n)'
    <3>1. \A i \in DOMAIN discovered : discovered[i] # f.entry =>
            ~LeftBefore(f.entry, discovered[i])
      BY <1>1, <1>3, <1>8, LoopEndPassed
    <3>2. ASSUME NEW i \in DOMAIN discovered', discovered'[i] # f.entry
          PROVE  ~LeftBefore(f.entry, discovered[i])'
      <4>1. PICK x : x = discovered[i] /\ x = discovered'[i]
        BY <1>1
      <4>2. ~LeftBefore(f.entry, x)'
        BY <4>1, <3>1, <3>2, <1>1, <1>6
      <4> QED
        BY <4>1, <4>2 DEF LeftBefore
    <3> QED
      BY <3>2, <2>1, <2>4 DEF FramePassed, LeftBefore
  <2>8. \A k \in 1 .. n : k \in 1 .. n - 1 \/ k = n
    BY <1>4
  <2>9. PutDone(n)'
    BY <2>1, <2>4 DEF PutDone
  <2>10. \A k \in DOMAIN d'.frames : FramePassed(k)' /\ PutDone(k)'
    BY <2>5, <2>6, <2>7, <2>8, <2>9
  <2> QED
    BY <2>10, <1>7 DEF CInv
<1>9. CASE ~disturbed /\ f.phase = "after" /\ n > 1
  <2>1. d' = [d EXCEPT !.frames = Front(d.frames)]
    BY <1>2, <1>3, <1>9 DEF InsertLoopEnd
  <2>2. d'.frames = Front(d.frames)
    BY <2>1, <1>4 DEF Activation
  <2>3. /\ d'.frames \in Seq(Frames) /\ Len(d'.frames) = n - 1
        /\ \A k \in 1 .. n - 1 : d'.frames[k] = d.frames[k]
    BY <2>2, <1>1, <1>2, FramesShorter
  <2>4. DOMAIN d'.frames = 1 .. n - 1
    BY <2>3, ListIs
  <2>5. ASSUME NEW k \in 1 .. n - 1 PROVE FramePassed(k)'
    <3>1. k \in DOMAIN d.frames /\ k < n
      BY <1>4
    <3>2. FramePassed(k)
      BY <3>1, <1>9 DEF CInv
    <3>3. PICK g : g = d.frames[k] /\ g = d'.frames[k]
      BY <2>3
    <3>4. ASSUME NEW i \in DOMAIN discovered, Passed(k, i),
                 driver[discovered[i]].dependent
          PROVE  Passed(k, i)'
      <4>1. k + 1 # n
        <5>1. ~driver[f.entry].dependent
          BY <1>4, <1>9 DEF CInv, PutDone
        <5> QED
          BY <5>1, <3>4, <1>4 DEF Passed
      <4>2. k + 1 \in 1 .. n - 1 /\ k < n - 1
        BY <4>1, <1>4
      <4>3. d'.frames[k + 1] = d.frames[k + 1] /\ k < Len(d'.frames)
        BY <4>2, <2>3
      <4> QED
        BY <4>3, <3>4, <1>1 DEF Passed
    <3>5. ASSUME NEW i \in DOMAIN discovered', discovered'[i] # g.entry
          PROVE  /\ LeftBefore(g.entry, discovered[i])' =>
                      g.phase = "before" /\ (i < g.link => Passed(k, i)')
                 /\ LeftAfter(g.entry, discovered[i])' =>
                      (g.phase = "after" /\ i < g.link => Passed(k, i)')
      <4>1. PICK x : x = discovered[i] /\ x = discovered'[i]
        BY <1>1
      <4>2. i \in DOMAIN discovered
        BY <1>1
      <4>3. /\ LeftBefore(g.entry, discovered[i])' => LeftBefore(g.entry, discovered[i])
            /\ LeftAfter(g.entry, discovered[i])' => LeftAfter(g.entry, discovered[i])
        BY <4>1, <1>6 DEF LeftBefore, LeftAfter
      <4>4. /\ LeftBefore(g.entry, discovered[i]) =>
                 /\ g.phase = "before" /\ (i < g.link => Passed(k, i))
                 /\ driver[discovered[i]].dependent
            /\ LeftAfter(g.entry, discovered[i]) =>
                 /\ (g.phase = "after" /\ i < g.link => Passed(k, i))
                 /\ driver[discovered[i]].dependent
        BY <4>1, <4>2, <3>2, <3>3, <3>5 DEF FramePassed, LeftBefore, LeftAfter
      <4> QED
        BY <4>2, <4>3, <4>4, <3>4
    <3> QED
      BY <3>3, <3>5 DEF FramePassed, LeftBefore, LeftAfter
  <2>6. ASSUME NEW k \in 1 .. n - 1 PROVE PutDone(k)'
    <3>1. k \in DOMAIN d.frames /\ d'.frames[k] = d.frames[k]
      BY <1>4, <2>3
    <3> QED
      BY <3>1, <1>1, <1>9 DEF CInv, PutDone
  <2>7. \A k \in DOMAIN d'.frames : FramePassed(k)' /\ PutDone(k)'
    BY <2>4, <2>5, <2>6
  <2> QED
    BY <2>7, <1>7 DEF CInv
<1>10. CASE ~disturbed /\ f.phase = "after" /\ ~(n > 1)
  <2>1. d' = [NextEntry EXCEPT !.ready = TRUE]
    BY <1>2, <1>3, <1>10 DEF InsertLoopEnd
  <2>2. NextEntry \in Activation /\ NextEntry.frames = <<>>
    BY <1>4, NextEntryIs
  <2>3. d'.frames = <<>>
    BY <2>1, <2>2 DEF Activation
  <2> QED
    BY <2>3, <1>7, NoFramesPassed
<1>11. f.phase \in {"before", "after"}
  BY <1>1, <1>3 DEF Frames
<1> QED
  BY <1>5, <1>8, <1>9, <1>10, <1>11

LEMMA InsertPutPassed ==
  ASSUME IInv, IInv', CInv, InsertPut, Frame.entry \notin ToSet(queue)
  PROVE  CInv'
<1>1. /\ d.pc = "insert" /\ Frame.phase = "put" /\ Quiet /\ broken = None
      /\ UNCHANGED <<discovered, notified, disturbed>>
  BY DEF InsertPut, At, Whole
<1>2. PICK n \in Nat : n = Len(d.frames)
  BY <1>1, TopFrame
<1>3. PICK f \in Frames : f = Frame
  BY <1>1, TopFrame
<1>4. /\ n >= 1 /\ DOMAIN d.frames = 1 .. n /\ f = d.frames[n] /\ d \in Activation
      /\ f.entry \in Found
  BY <1>1, <1>2, <1>3, TopFrame
<1>5. CASE disturbed
  BY <1>1, <1>5 DEF CInv
<1>6. Quiet'
  BY <1>1 DEF Quiet
<1>7. Found \subseteq Entries /\ driver \in [Entries -> Driver]
  BY Types DEF IInv
<1>8. \A e \in Found : /\ driver'[e].dependent => driver[e].dependent
                       /\ driver'[e].before = driver[e].before
                       /\ driver'[e].after = driver[e].after
                       /\ driver'[e].depex = driver[e].depex
                       /\ e = f.entry => ~driver'[e].dependent
  <2>1. driver' = [driver EXCEPT ![f.entry] = [driver[f.entry] EXCEPT
                                                 !.dependent = FALSE, !.scheduled = TRUE]]
    BY <1>3 DEF InsertPut, Enqueue
  <2>2. f.entry \in Entries /\ driver[f.entry] \in Driver
    BY <1>4, <1>7
  <2>3. /\ driver'[f.entry].dependent = FALSE
        /\ driver'[f.entry].before = driver[f.entry].before
        /\ driver'[f.entry].after = driver[f.entry].after
        /\ driver'[f.entry].depex = driver[f.entry].depex
        /\ \A x \in Entries : x # f.entry => driver'[x] = driver[x]
    BY <2>1, <2>2, <1>7 DEF Driver
  <2> QED
    BY <2>3, <1>7
<1> DEFINE g == [f EXCEPT !.phase = "after", !.link = 1]
<1>9. g \in Frames /\ g.entry = f.entry /\ g.phase = "after" /\ g.link = 1
  <2>1. 1 \in Nat \ {0}
    OBVIOUS
  <2> QED
    BY <2>1 DEF Frames
<1>10. d' = [d EXCEPT !.frames = Becomes(g)]
  BY <1>1, <1>3 DEF InsertPut, Enqueue
<1>11. d'.frames = Becomes(g)
  BY <1>10, <1>4 DEF Activation
<1> HIDE DEF g
<1>12. /\ d'.frames \in Seq(Frames) /\ Len(d'.frames) = n
       /\ \A k \in 1 .. n - 1 : d'.frames[k] = d.frames[k]
       /\ d'.frames[n] = g
  BY <1>1, <1>2, <1>9, <1>11, BecomesIs
<1>13. DOMAIN d'.frames = 1 .. n
  BY <1>12, ListIs
<1>14. CASE ~disturbed
  <2>1. ASSUME NEW k \in 1 .. n - 1 PROVE FramePassed(k)' /\ PutDone(k)'
    <3>1. Len(d'.frames) >= Len(d.frames)
      BY <1>2, <1>12
    <3> QED
      BY <3>1, <1>1, <1>2, <1>3, <1>8, <1>9, <1>12, <1>14, OutersPassed
  <2>2. FramePassed(n)'
    <3>1. \A i \in DOMAIN discovered : discovered[i] # f.entry =>
            ~LeftBefore(f.entry, discovered[i])
      BY <1>1, <1>3, <1>14, InnermostPassed
    <3>2. \A i \in DOMAIN discovered' : i \in Nat /\ ~(i < 1)
      <4>1. discovered \in Seq(Entries)
        BY Types DEF IInv
      <4> QED
        BY <4>1, <1>1, ListIs
    <3>3. ASSUME NEW i \in DOMAIN discovered', discovered'[i] # f.entry
          PROVE  ~LeftBefore(f.entry, discovered[i])'
      <4>1. PICK x \in Found : x = discovered[i] /\ x = discovered'[i]
        BY <1>1 DEF Found, ToSet
      <4>2. ~LeftBefore(f.entry, x)
        BY <4>1, <3>1, <3>3, <1>1
      <4>3. ~LeftBefore(f.entry, x)'
        BY <4>2, <1>8 DEF LeftBefore, Target
      <4> QED
        BY <4>1, <4>3 DEF LeftBefore
    <3> QED
      BY <3>2, <3>3, <1>9, <1>12 DEF FramePassed, LeftBefore
  <2>3. \A k \in 1 .. n : k \in 1 .. n - 1 \/ k = n
    BY <1>4
  <2>4. PutDone(n)'
    BY <1>4, <1>8, <1>9, <1>12 DEF PutDone
  <2>5. \A k \in DOMAIN d'.frames : FramePassed(k)' /\ PutDone(k)'
    BY <2>1, <2>2, <2>3, <2>4, <1>13
  <2> QED
    BY <2>5, <1>6 DEF CInv
<1> QED
  BY <1>5, <1>14

LEMMA EvaluatePassed ==
  ASSUME IInv, IInv', CInv, Evaluate
  PROVE  CInv'
<1>1. /\ d.pc = "evaluate" /\ Quiet /\ d \in Activation /\ d.frames = <<>>
      /\ UNCHANGED <<notified>>
  BY Plain DEF Evaluate, At
<1>2. Quiet'
  BY <1>1 DEF Quiet
<1>3. d.entry \in Entries
  BY <1>1, Types DEF IInv, EntryKept
<1>4. \/ d'.frames = <<>>
      \/ d'.pc = "insert" /\ d'.frames = <<InsertFrame(d.entry)>>
  <2>1. \A b : Result(b) => \/ d'.frames = <<>>
                            \/ d'.pc = "insert" /\ d'.frames = <<InsertFrame(d.entry)>>
    BY <1>1, <1>3, ResultIs
  <2>2. \A i, s : [d EXCEPT !.iterator = i, !.bools = s].frames = <<>>
    BY <1>1 DEF Activation
  <2> QED
    BY <2>1, <2>2 DEF Evaluate
<1>5. CASE d'.frames = <<>>
  BY <1>2, <1>5, NoFramesPassed
<1>6. CASE d'.frames = <<InsertFrame(d.entry)>>
  <2>1. /\ DOMAIN d'.frames = {1}
        /\ d'.frames[1].phase = "before" /\ d'.frames[1].link = 1
    BY <1>6 DEF InsertFrame
  <2>2. FramePassed(1)' /\ PutDone(1)'
    BY <2>1, BeginsPassed
  <2> QED
    BY <2>1, <2>2, <1>2 DEF CInv
<1> QED
  BY <1>4, <1>5, <1>6

(* The steps outside the recursion.                                         *)
LEMMA OutsidePassed ==
  ASSUME IInv, IInv', CInv, d.pc # "insert", d'.pc # "insert",
         ~disturbed' /\ d'.pc \in {"search", "evaluate"} => Quiet'
  PROVE  CInv'
<1>1. d'.frames = <<>>
  BY DEF IInv, TypeOK
<1> QED
  BY <1>1, NoFramesPassed

(* Steps that change no more than who is trusted.                           *)
LEMMA SamePassed ==
  ASSUME IInv, CInv, UNCHANGED <<discovered, notified, d, disturbed>>,
         \A e \in Found : /\ driver'[e].dependent = driver[e].dependent
                          /\ driver'[e].before = driver[e].before
                          /\ driver'[e].after = driver[e].after
                          /\ driver'[e].depex = driver[e].depex
  PROVE  CInv'
<1>1. \A i \in DOMAIN discovered : discovered[i] \in Found
  BY DEF Found, ToSet
<1>2. \A e, x : x \in Found => /\ LeftBefore(e, x)' <=> LeftBefore(e, x)
                               /\ LeftAfter(e, x)' <=> LeftAfter(e, x)
  BY DEF LeftBefore, LeftAfter, Target
<1>3. ASSUME NEW k \in DOMAIN d.frames, FramePassed(k) PROVE FramePassed(k)'
  <2>1. \A i : Passed(k, i)' <=> Passed(k, i)
    BY DEF Passed
  <2>2. PICK f : f = d.frames[k] /\ f = d'.frames[k]
    OBVIOUS
  <2>3. ASSUME NEW i \in DOMAIN discovered', discovered'[i] # f.entry
        PROVE  /\ LeftBefore(f.entry, discovered[i])' =>
                    f.phase = "before" /\ (i < f.link => Passed(k, i)')
               /\ LeftAfter(f.entry, discovered[i])' =>
                    (f.phase = "after" /\ i < f.link => Passed(k, i)')
    <3>1. PICK x \in Found : x = discovered[i] /\ x = discovered'[i]
      BY <1>1
    <3>2. /\ LeftBefore(f.entry, x) => f.phase = "before" /\ (i < f.link => Passed(k, i))
          /\ LeftAfter(f.entry, x) =>
               (f.phase = "after" /\ i < f.link => Passed(k, i))
      BY <3>1, <2>2, <2>3, <1>3 DEF FramePassed
    <3> QED
      BY <3>1, <3>2, <2>1, <1>2 DEF LeftBefore, LeftAfter
  <2> QED
    BY <2>2, <2>3 DEF FramePassed, LeftBefore, LeftAfter
<1>4. ASSUME NEW k \in DOMAIN d.frames, PutDone(k) PROVE PutDone(k)'
  <2>1. d.frames[k].entry \in Found
    BY DEF IInv, FramesKept, FrameKept
  <2> QED
    BY <2>1, <1>4 DEF PutDone
<1> QED
  BY <1>3, <1>4 DEF CInv, Quiet

LEMMA TrustPassed ==
  ASSUME IInv, TrustKept, CInv, TrustInserts
  PROVE  CInv'
<1>1. UNCHANGED <<discovered, notified, d, disturbed>>
  BY DEF TrustInserts
<1>2. PICK e \in Found : e = Last(trusting)
  BY LastTrusted
<1>3. /\ e \in Entries /\ driver[e] \in Driver /\ driver \in [Entries -> Driver]
      /\ Found \subseteq Entries
  BY FoundEntry, Types DEF IInv
<1>4. \/ UNCHANGED driver
      \/ driver' = [driver EXCEPT ![e] = [driver[e] EXCEPT !.untrusted = FALSE,
                                                           !.scheduled = TRUE]]
  BY <1>2 DEF TrustInserts, Enqueue
<1>5. \A x \in Found : /\ driver'[x].dependent = driver[x].dependent
                       /\ driver'[x].before = driver[x].before
                       /\ driver'[x].after = driver[x].after
                       /\ driver'[x].depex = driver[x].depex
  <2>1. CASE UNCHANGED driver
    BY <2>1
  <2>2. CASE driver' = [driver EXCEPT ![e] = [driver[e] EXCEPT !.untrusted = FALSE,
                                                               !.scheduled = TRUE]]
    <3>1. /\ driver'[e].dependent = driver[e].dependent
          /\ driver'[e].before = driver[e].before /\ driver'[e].after = driver[e].after
          /\ driver'[e].depex = driver[e].depex
          /\ \A x \in Entries : x # e => driver'[x] = driver[x]
      BY <2>2, <1>3 DEF Driver
    <3> QED
      BY <3>1, <1>3
  <2> QED
    BY <2>1, <2>2, <1>4
<1> QED
  BY <1>1, <1>5, SamePassed

LEMMA NextCInv ==
  ASSUME IInv, IInv', TrustKept, CInv, [Next]_vars
  PROVE  CInv'
<1>1. d \in Activation
  BY DEF IInv, TypeOK
<1>2. CASE InsertRecurse \/ InsertLoopEnd \/ InsertPut \/ Evaluate
  <2>1. CASE InsertBreaks
    BY <2>1, BreakIs, SamePassed
  <2>2. CASE InsertPut /\ ~InsertBreaks
    BY <2>2, InsertPutPassed DEF InsertBreaks
  <2> QED
    BY <1>2, <2>1, <2>2, InsertRecursePassed, InsertLoopEndPassed, EvaluatePassed
       DEF InsertBreaks
<1>3. ASSUME NEW status \in {"success", "violation", "error"}, LoadImage(status)
      PROVE  CInv'
  <2>1. d.pc = "drain" /\ d'.pc = "loaded"
    BY <1>1, <1>3 DEF LoadImage, At, Activation
  <2> QED
    BY <2>1, OutsidePassed
<1>4. CASE TakeOff
  <2>1. d.pc = "loaded" /\ d'.pc \in {"start", "drain"}
    BY <1>1, <1>4 DEF TakeOff, At, Activation
  <2> QED
    BY <2>1, OutsidePassed
<1>5. CASE StartImage \/ ProcessFvImage
  <2>1. d.pc = "start" /\ d'.pc \in {"image", "drain"}
    BY <1>1, <1>5 DEF StartImage, ProcessFvImage, At, Activation
  <2> QED
    BY <2>1, OutsidePassed
<1>6. CASE ImageReturns \/ RoundEnd \/ SignalReturns \/ SearchEnd
  <2>1. /\ d.pc # "insert" /\ d'.pc \in {"drain", "signal", "search", "exit"}
        /\ Quiet /\ UNCHANGED notified
    BY <1>1, <1>6 DEF ImageReturns, RoundEnd, SignalReturns, SearchEnd, At, Activation
  <2>2. Quiet'
    BY <2>1 DEF Quiet
  <2> QED
    BY <2>1, <2>2, OutsidePassed
<1>7. CASE DispatchReturns
  <2>1. d.pc # "insert" /\ d'.pc = "idle"
    BY <1>7 DEF DispatchReturns, At, Idle
  <2> QED
    BY <2>1, OutsidePassed
<1>8. CASE Visit
  <2>1. NextEntry.pc = "search"
    BY <1>1, NextEntryIs
  <2>2. \A x : [d EXCEPT !.pc = "evaluate", !.entry = x].pc = "evaluate"
    BY <1>1 DEF Activation
  <2>3. /\ d.pc # "insert" /\ d'.pc # "insert" /\ Quiet /\ UNCHANGED notified
    BY <1>8, <2>1, <2>2 DEF Visit, At
  <2>4. Quiet'
    BY <2>3 DEF Quiet
  <2> QED
    BY <2>3, <2>4, OutsidePassed
<1>9. ASSUME NEW created \in BOOLEAN, Dispatch(created) PROVE CInv'
  <2>1. d.pc = "idle" /\ d'.pc \in {"idle", "drain"}
    BY <1>1, <1>9 DEF Dispatch, At, Activation
  <2> QED
    BY <2>1, OutsidePassed
<1>10. CASE FwVolNotify
  <2>1. ~Quiet /\ UNCHANGED <<d, disturbed>>
    BY <1>10 DEF FwVolNotify
  <2>2. ~disturbed => d.pc \notin {"search", "evaluate", "insert"}
    BY <2>1 DEF CInv
  <2>3. CASE disturbed
    BY <2>1, <2>3 DEF CInv
  <2>4. CASE ~disturbed
    BY <2>1, <2>2, <2>4, OutsidePassed
  <2> QED
    BY <2>3, <2>4
<1>11. CASE Call
  <2>1. d.pc \in {"idle", "image", "signal"} /\ UNCHANGED d
    BY <1>11 DEF Call, Outside, Service
  <2> QED
    BY <2>1, OutsidePassed
<1>12. CASE Callback
  <2>1. CASE Outside
    <3>1. d.pc \in {"idle", "image", "signal"} /\ UNCHANGED d
      BY <1>12, <2>1 DEF Callback, Outside, Service
    <3> QED
      BY <3>1, OutsidePassed
  <2>2. CASE ~Outside
    BY <1>12, <2>2 DEF Callback, CInv
  <2> QED
    BY <2>1, <2>2
<1>13. CASE UNCHANGED vars
  BY <1>13, SamePassed DEF vars
<1>14. CASE TrustInserts
  BY <1>14, TrustPassed
<1> QED
  BY <1>2, <1>3, <1>4, <1>5, <1>6, <1>7, <1>8, <1>9, <1>10, <1>11, <1>12, <1>13, <1>14
     DEF Next, DispatcherStep

(* When the insertion of a driver on the scheduled queue returns, no driver that
   is BEFORE or AFTER it has been left behind: the two loops over the discovered
   entries, which recurse and so are interrupted by each other, miss none.  *)
THEOREM CompanionsHold == Spec => Companions
<1>1. Init => CInv
  <2> SUFFICES ASSUME Init PROVE CInv
    OBVIOUS
  <2>1. d.pc = "idle" /\ d.frames = <<>>
    BY DEF Init, Idle
  <2> QED
    BY <2>1 DEF CInv
<1>2. IInv /\ TrustKept /\ CInv /\ [Next]_vars => CInv'
  BY NextIInv, NextCInv
<1> DEFINE Step ==
      At("insert") /\ Len(d'.frames) < Len(d.frames) /\ ~disturbed =>
        \A e \in ToSet(discovered) :
          driver[e].dependent /\ (driver[e].before \/ driver[e].after) =>
            Target(e) # Frame.entry
<1>3. IInv /\ CInv /\ [Next]_vars => [Step]_vars
  <2> SUFFICES ASSUME IInv, CInv, Next, At("insert"),
                      Len(d'.frames) < Len(d.frames), ~disturbed,
                      NEW e \in Found, driver[e].dependent, Hangs(driver[e]),
                      Target(e) = Frame.entry
               PROVE  FALSE
    BY DEF Found, Hangs
  <2>1. d.pc = "insert"
    BY DEF At
  <2>2. PICK n \in Nat : n = Len(d.frames)
    BY <2>1, TopFrame
  <2>3. PICK f \in Frames : f = Frame
    BY <2>1, TopFrame
  <2>4. f.entry \in Found /\ FrameKept(n) /\ f = d.frames[n] /\ d \in Activation
    BY <2>1, <2>2, <2>3, TopFrame
  <2>5. ASSUME UNCHANGED d PROVE FALSE
    BY <2>2, <2>5
  <2>6. InsertLoopEnd /\ f.phase = "after"
    <3>1. ~InsertRecurse
      <4>1. ASSUME InsertRecurse PROVE FALSE
        <5>1. Matches # {} /\ d' = [d EXCEPT !.frames = Deeper]
          BY <4>1 DEF InsertRecurse, Deeper, NextMatch
        <5>2. Len(d'.frames) = n + 1
          BY <5>1, <2>1, <2>2, <2>4, DeeperIs DEF Activation
        <5> QED
          BY <5>2, <2>2
      <4> QED
        BY <4>1
    <3>2. ASSUME NEW g \in Frames, d' = [d EXCEPT !.frames = Becomes(g)] PROVE FALSE
      <4>1. Len(Becomes(g)) = n
        BY <2>1, <2>2, BecomesIs
      <4>2. d'.frames = Becomes(g)
        BY <3>2, <2>4 DEF Activation
      <4> QED
        BY <4>1, <4>2, <2>2
    <3>3. ~InsertPut
      <4>1. 1 \in Nat \ {0}
        OBVIOUS
      <4>2. [f EXCEPT !.phase = "after", !.link = 1] \in Frames
        BY <4>1 DEF Frames
      <4>3. ASSUME InsertPut PROVE FALSE
        <5>1. UNCHANGED d \/ d' = [d EXCEPT !.frames =
                                     Becomes([f EXCEPT !.phase = "after", !.link = 1])]
          BY <2>3, <4>3 DEF InsertPut
        <5> QED
          BY <5>1, <2>5, <3>2, <4>2
      <4> QED
        BY <4>3
    <3>4. InsertLoopEnd
      BY <2>1, <2>5, <3>1, <3>3
         DEF Next, DispatcherStep, LoadImage, TakeOff, StartImage, ImageReturns,
             ProcessFvImage, RoundEnd, SignalReturns, Visit, SearchEnd,
             DispatchReturns, Evaluate, FwVolNotify, TrustInserts, Call,
             Callback, Service, Dispatch, At
    <3>5. [f EXCEPT !.phase = "put"] \in Frames
      BY DEF Frames
    <3>6. f.phase # "before" /\ f.phase # "put"
      BY <2>3, <3>2, <3>4, <3>5 DEF InsertLoopEnd
    <3> QED
      BY <3>4, <3>6 DEF Frames
  <2>7. e # f.entry
    <3>1. n \in DOMAIN d.frames
      BY <2>1, <2>2, TopFrame
    <3>2. ~driver[f.entry].dependent
      BY <2>4, <2>6, <3>1 DEF CInv, PutDone
    <3> QED
      BY <3>2
  <2>8. PICK i \in DOMAIN discovered : discovered[i] = e
    BY DEF Found, ToSet
  <2>9. Matches = {}
    BY <2>6 DEF InsertLoopEnd
  <2>10. ~LeftBefore(f.entry, e) /\ ~LeftAfter(f.entry, e)
    BY <2>1, <2>3, <2>6, <2>7, <2>8, <2>9, LoopEndPassed
  <2> QED
    BY <2>3, <2>10 DEF LeftBefore, LeftAfter, Hangs
<1>4. Companions <=> [][Step]_vars
  BY DEF Companions
<1> HIDE DEF Step
<1> QED
  BY <1>1, <1>2, <1>3, <1>4, SpecIInv, PTL DEF Spec
=============================================================================
