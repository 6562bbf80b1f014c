--------------------------- MODULE VariableProofs ---------------------------
(***************************************************************************)
(* Theorems about VariableStore and VariableCache, for every set of         *)
(* variables and values and every size of the store: what is in flash       *)
(* changes by SetVariable alone, through power failures, recovery and       *)
(* garbage collection, the copies in memory follow it, and a read of the    *)
(* runtime cache returns a value the variable had.                          *)
(***************************************************************************)
EXTENDS VariableCache, ListLemmas, FiniteSetTheorems

-----------------------------------------------------------------------------
(* The log                                                                  *)

(* The headers of the store s are at W, one behind the other from its start on,
   and end at e.                                                            *)
IsLog(s, W, e) ==
  /\ e \in 1 .. Size + 1 /\ ~IsHeader(s, e)
  /\ 1 \in W \cup {e}
  /\ \A p \in W : /\ IsHeader(s, p) /\ p < e
                  /\ NextVariablePtr(s, p) \in W \cup {e}
  /\ \A p, q \in W : p < q => NextVariablePtr(s, p) <= q

HeaderCell == [name : Names, size : {DataSize[v] : v \in Values}, state : SUBSET Bit]

(* What a cell is, and what it is not.                                      *)
LEMMA Headers ==
  /\ HeaderCell \subseteq Header
  /\ Cell = Values \cup {Erased, Torn} \cup HeaderCell
  /\ \A c \in HeaderCell : /\ c \notin Values \cup {Erased, Torn}
                           /\ c.name \in Names /\ c.state \in SUBSET Bit
                           /\ c.size \in Nat /\ c.size > 0
  /\ Size \in Nat /\ Erased # Torn /\ Erased \notin Values /\ Torn \notin Values
  /\ None \notin Values
<1>1. \A v \in Values : DataSize[v] \in Nat /\ DataSize[v] > 0
  BY VariableAssumption
<1>2. HeaderCell \subseteq Header
  BY <1>1 DEF HeaderCell, Header
<1>3. \A c \in HeaderCell : c \notin Values \cup {Erased, Torn}
  BY <1>2, CellAssumption
<1>4. \A c \in HeaderCell : c.name \in Names /\ c.state \in SUBSET Bit
                              /\ c.size \in {DataSize[v] : v \in Values}
  BY DEF HeaderCell
<1>5. Cell = Values \cup {Erased, Torn} \cup HeaderCell
  BY DEF Cell, HeaderCell
<1> QED
  BY <1>1, <1>2, <1>3, <1>4, <1>5, VariableAssumption, CellAssumption

LEMMA HeaderIs ==
  ASSUME NEW s \in Store, NEW p, IsHeader(s, p)
  PROVE  /\ p \in Place /\ p \in Nat /\ p > 0 /\ s[p] \in HeaderCell
         /\ s[p].size \in Nat /\ s[p].size > 0 /\ s[p].state \in SUBSET Bit
         /\ s[p].name \in Names
         /\ NextVariablePtr(s, p) \in Nat /\ NextVariablePtr(s, p) > p
<1>1. p \in Place /\ s[p] \in Cell /\ s[p] \notin Values \cup {Erased, Torn}
  BY DEF IsHeader, Store
<1>2. s[p] \in HeaderCell
  BY <1>1, Headers
<1>3. p \in Nat /\ p > 0
  BY <1>1, Headers DEF Place
<1>4. s[p].size \in Nat /\ s[p].size > 0 /\ s[p].state \in SUBSET Bit /\ s[p].name \in Names
  BY <1>2, Headers
<1> QED
  BY <1>1, <1>2, <1>3, <1>4 DEF NextVariablePtr

(* The recursion of Pointers has a solution.                                *)
LEMMA PointersEquation ==
  ASSUME NEW s
  PROVE  Pointers(s) = [k \in 0 .. Size |->
                          IF k = 0 THEN 1 ELSE Advance(s, Pointers(s)[k - 1])]
<1> DEFINE Body(f, n) == [k \in 0 .. n |-> IF k = 0 THEN 1 ELSE Advance(s, f[k - 1])]
           Solved == {n \in Nat : \E f : f = Body(f, n)}
<1>1. 0 \in Solved
  <2>1. [k \in 0 .. 0 |-> 1] = Body([k \in 0 .. 0 |-> 1], 0)
    OBVIOUS
  <2> QED
    BY <2>1
<1>2. ASSUME NEW n \in Nat, n \in Solved PROVE n + 1 \in Solved
  <2>1. PICK f : f = Body(f, n)
    BY <1>2
  <2> DEFINE last == Advance(s, f[n])
             g == [k \in 0 .. n + 1 |-> IF k <= n THEN f[k] ELSE last]
  <2>2. \A k \in 0 .. n : g[k] = f[k]
    OBVIOUS
  <2>3. g[n + 1] = last
    OBVIOUS
  <2>4. \A k \in 0 .. n : f[k] = IF k = 0 THEN 1 ELSE Advance(s, f[k - 1])
    BY <2>1
  <2>5. g \in [0 .. n + 1 -> {g[k] : k \in 0 .. n + 1}]
    OBVIOUS
  <2> HIDE DEF g
  <2>6. \A k \in 0 .. n + 1 : g[k] = IF k = 0 THEN 1 ELSE Advance(s, g[k - 1])
    <3> SUFFICES ASSUME NEW k \in 0 .. n + 1
                 PROVE  g[k] = IF k = 0 THEN 1 ELSE Advance(s, g[k - 1])
      OBVIOUS
    <3>1. CASE k = 0
      BY <2>2, <2>4, <3>1
    <3>2. CASE k \in 1 .. n
      BY <2>2, <2>4, <3>2
    <3>3. CASE k = n + 1
      <4>1. k # 0 /\ k - 1 = n /\ n \in 0 .. n
        BY <3>3
      <4>2. g[k - 1] = f[n]
        BY <2>2, <4>1
      <4> QED
        BY <2>3, <3>3, <4>1, <4>2
    <3> QED
      BY <3>1, <3>2, <3>3
  <2>7. g = Body(g, n + 1)
    BY <2>5, <2>6
  <2> QED
    BY <2>7
<1> HIDE DEF Solved
<1>3. Nat \subseteq Solved
  BY <1>1, <1>2, Induction
<1>4. Size \in Nat
  BY Headers
<1>5. PICK f : f = Body(f, Size)
  BY <1>3, <1>4 DEF Solved
<1> DEFINE ptr == CHOOSE h : h = [k \in 0 .. Size |-> IF k = 0 THEN 1 ELSE Advance(s, h[k - 1])]
<1>6. ptr = Body(ptr, Size)
  BY <1>5, Zenon
<1>7. Pointers(s) = ptr
  BY Zenon DEF Pointers
<1> QED
  BY <1>6, <1>7

(* A walk visits the headers of a log, and ends at its end.                 *)
LEMMA WalkIs ==
  ASSUME NEW s \in Store, NEW W, NEW e, IsLog(s, W, e)
  PROVE  Walk(s) = W /\ EndOfWalk(s) = e
<1> DEFINE ptr == Pointers(s)
<1>0. Size \in Nat /\ e \in Nat /\ e >= 1 /\ e <= Size + 1
  BY Headers DEF IsLog
<1>1. DOMAIN ptr = 0 .. Size /\ ptr[0] = 1
      /\ \A k \in 0 .. Size : k # 0 => ptr[k] = Advance(s, ptr[k - 1])
  BY <1>0, PointersEquation
<1> HIDE DEF ptr
<1>2. \A p \in W : p \in Nat /\ p >= 1 /\ p < e /\ IsHeader(s, p)
                   /\ Advance(s, p) = NextVariablePtr(s, p) /\ Advance(s, p) > p
                   /\ Advance(s, p) \in W \cup {e}
  BY HeaderIs DEF IsLog, Advance
<1>3. Advance(s, e) = e
  BY DEF IsLog, Advance
<1> DEFINE Visited(k) ==
             /\ ptr[k] \in W \cup {e}
             /\ ptr[k] = e \/ ptr[k] > k
             /\ \A q \in W : q < ptr[k] => \E j \in 0 .. k : ptr[j] = q
           Reached == {k \in Nat : k <= Size => Visited(k)}
<1>4. 0 \in Reached
  BY <1>0, <1>1, <1>2 DEF IsLog
<1>5. ASSUME NEW k \in Nat, k \in Reached, k + 1 <= Size
      PROVE  Visited(k + 1)
  <2>1. Visited(k) /\ k + 1 \in 0 .. Size /\ k + 1 # 0 /\ (k + 1) - 1 = k
    BY <1>0, <1>5
  <2>2. ptr[k + 1] = Advance(s, ptr[k])
    BY <1>1, <2>1
  <2>3. CASE ptr[k] = e
    BY <1>0, <1>2, <1>3, <2>1, <2>2, <2>3
  <2>4. CASE ptr[k] \in W
    <3>1. ptr[k + 1] \in W \cup {e} /\ ptr[k + 1] > ptr[k] /\ ptr[k + 1] \in Nat
          /\ ptr[k] \in Nat
      BY <1>0, <1>2, <2>2, <2>4
    <3>2. ptr[k + 1] = e \/ ptr[k + 1] > k + 1
      <4>1. ptr[k] > k
        BY <1>2, <2>1, <2>4
      <4> QED
        BY <3>1, <4>1
    <3>3. ASSUME NEW q \in W, q < ptr[k + 1]
          PROVE  \E j \in 0 .. k + 1 : ptr[j] = q
      <4>1. CASE q < ptr[k]
        BY <2>1, <4>1
      <4>2. CASE q = ptr[k]
        BY <4>2
      <4>3. CASE q > ptr[k]
        BY <1>2, <2>2, <2>4, <3>1, <3>3, <4>3 DEF IsLog
      <4> QED
        BY <1>2, <3>1, <4>1, <4>2, <4>3
    <3> QED
      BY <3>1, <3>2, <3>3
  <2> QED
    BY <2>1, <2>3, <2>4
<1>6. \A k \in 0 .. Size : Visited(k)
  <2>1. \A k \in Nat : k \in Reached => k + 1 \in Reached
    BY <1>5
  <2> HIDE DEF Reached
  <2>2. Nat \subseteq Reached
    BY <1>4, <2>1, Induction
  <2> QED
    BY <1>0, <2>2 DEF Reached
<1>7. ptr[Size] = e
  <2>1. Visited(Size)
    BY <1>0, <1>6
  <2>2. ptr[Size] \in Nat /\ ptr[Size] <= e
    BY <1>0, <1>2, <2>1
  <2> QED
    BY <1>0, <2>1, <2>2
<1>8. EndOfWalk(s) = e
  BY <1>7 DEF EndOfWalk, ptr
<1>9. Range(ptr) = {ptr[k] : k \in 0 .. Size}
  BY <1>1 DEF Range
<1>10. \A p : p \in Walk(s) <=> IsHeader(s, p) /\ \E k \in 0 .. Size : ptr[k] = p
  BY <1>9 DEF Walk, ptr
<1>11. \A p \in Walk(s) : p \in W
  BY <1>6, <1>10 DEF IsLog
<1>12. ASSUME NEW p \in W PROVE p \in Walk(s)
  <2>1. Visited(Size)
    BY <1>0, <1>6
  <2>2. \E k \in 0 .. Size : ptr[k] = p
    BY <1>2, <1>7, <2>1
  <2> QED
    BY <1>2, <1>10, <2>2
<1> QED
  BY <1>8, <1>11, <1>12

(* A store whose live variables are whole: each has the data of one value.  *)
Live(s, p) == s[p].state \in {VAR_ADDED, IN_TRANSITION}
Holds(s, p, v) == s[p].size = DataSize[v] /\ \A i \in 1 .. s[p].size : s[p + i] = v
Logged(s, W, e) ==
  /\ s \in Store /\ IsLog(s, W, e)
  /\ \A p \in W : Live(s, p) => \E v \in Values : Holds(s, p, v)
Good(s) == Logged(s, Walk(s), EndOfWalk(s))

(* Nothing is written from e on.                                            *)
Free(s, e) == \A i \in e .. Size : s[i] = Erased

LEMMA LoggedIs ==
  ASSUME NEW s, NEW W, NEW e, Logged(s, W, e)
  PROVE  Walk(s) = W /\ EndOfWalk(s) = e /\ Good(s)
BY WalkIs DEF Logged, Good

(* A live variable is in front of the end, and apart from the others.       *)
LEMMA Within ==
  ASSUME NEW s, NEW W, NEW e, Logged(s, W, e)
  PROVE  /\ Size \in Nat /\ e \in Nat /\ e > 0 /\ e <= Size + 1
         /\ \A p \in W : /\ p \in Nat /\ p > 0 /\ p < e /\ p \in Place
                         /\ s[p].size \in Nat /\ s[p].size > 0 /\ s[p].name \in Names
                         /\ NextVariablePtr(s, p) \in Nat
                         /\ p < NextVariablePtr(s, p) /\ NextVariablePtr(s, p) <= e
                         /\ Live(s, p) => NextVariablePtr(s, p) = p + 1 + s[p].size
         /\ \A p, q \in W : p < q => NextVariablePtr(s, p) <= q
<1>1. Size \in Nat /\ e \in Nat /\ e > 0 /\ e <= Size + 1
  BY Headers DEF Logged, IsLog
<1>2. ASSUME NEW p \in W
      PROVE  /\ p \in Nat /\ p > 0 /\ p < e /\ p \in Place
             /\ s[p].size \in Nat /\ s[p].size > 0 /\ s[p].name \in Names
             /\ NextVariablePtr(s, p) \in Nat
             /\ p < NextVariablePtr(s, p)
  BY HeaderIs DEF Logged, IsLog
<1>3. ASSUME NEW p \in W
      PROVE  NextVariablePtr(s, p) <= e
  BY <1>1, <1>2, <1>3 DEF Logged, IsLog
<1>4. ASSUME NEW p \in W, Live(s, p)
      PROVE  NextVariablePtr(s, p) = p + 1 + s[p].size
  BY <1>4 DEF Live, NextVariablePtr, VAR_ADDED, IN_TRANSITION
<1> QED
  BY <1>1, <1>2, <1>3, <1>4 DEF Logged, IsLog

(* What is in front of the end stays a log, whatever comes behind.          *)
LEMMA Prefix ==
  ASSUME NEW s, NEW W, NEW e, Logged(s, W, e), NEW t \in Store,
         \A i \in 1 .. e - 1 : t[i] = s[i]
  PROVE  /\ \A p \in W : /\ IsHeader(t, p) /\ t[p] = s[p]
                         /\ NextVariablePtr(t, p) = NextVariablePtr(s, p)
                         /\ Live(t, p) <=> Live(s, p)
                         /\ \A v : Live(s, p) => (Holds(s, p, v) <=> Holds(t, p, v))
<1>1. Size \in Nat /\ e \in Nat /\ e > 0 /\ e <= Size + 1
  BY Within
<1> SUFFICES ASSUME NEW p \in W
             PROVE  /\ IsHeader(t, p) /\ t[p] = s[p]
                    /\ NextVariablePtr(t, p) = NextVariablePtr(s, p)
                    /\ Live(t, p) <=> Live(s, p)
                    /\ \A v : Live(s, p) => (Holds(s, p, v) <=> Holds(t, p, v))
  OBVIOUS
<1>2. p \in Nat /\ p > 0 /\ p < e /\ t[p] = s[p]
  BY <1>1, Within
<1>3. IsHeader(t, p)
  BY <1>2 DEF IsHeader, Logged, IsLog
<1>4. NextVariablePtr(t, p) = NextVariablePtr(s, p)
  BY <1>2 DEF NextVariablePtr
<1>5. ASSUME Live(s, p), NEW i \in 1 .. s[p].size
      PROVE  t[p + i] = s[p + i]
  BY <1>1, <1>2, <1>5, Within
<1>6. ASSUME NEW v, Live(s, p)
      PROVE  Holds(s, p, v) <=> Holds(t, p, v)
  BY <1>2, <1>5, <1>6 DEF Holds
<1> QED
  BY <1>2, <1>3, <1>4, <1>6 DEF Live

(* A header that was not written whole.                                     *)
LEMMA Unwritten ==
  ASSUME NEW s, NEW W, NEW e, Logged(s, W, e), NEW t \in Store,
         \A i \in 1 .. e - 1 : t[i] = s[i], ~IsHeader(t, e)
  PROVE  Logged(t, W, e)
<1>1. \A p \in W : /\ IsHeader(t, p) /\ t[p] = s[p]
                   /\ NextVariablePtr(t, p) = NextVariablePtr(s, p)
                   /\ Live(t, p) <=> Live(s, p)
                   /\ \A v : Live(s, p) => (Holds(s, p, v) <=> Holds(t, p, v))
  BY Prefix
<1>2. IsLog(t, W, e)
  BY <1>1 DEF Logged, IsLog
<1> QED
  BY <1>1, <1>2 DEF Logged

(* A header written behind the others.                                      *)
LEMMA Appended ==
  ASSUME NEW s, NEW W, NEW e, Logged(s, W, e), NEW t \in Store,
         \A i \in 1 .. e - 1 : t[i] = s[i],
         IsHeader(t, e), NextVariablePtr(t, e) <= Size + 1,
         ~IsHeader(t, NextVariablePtr(t, e)),
         Live(t, e) => \E v \in Values : Holds(t, e, v)
  PROVE  Logged(t, W \cup {e}, NextVariablePtr(t, e))
<1> DEFINE f == NextVariablePtr(t, e)
<1>0. /\ \A p \in W : /\ IsHeader(t, p) /\ t[p] = s[p]
                      /\ NextVariablePtr(t, p) = NextVariablePtr(s, p)
                      /\ Live(t, p) <=> Live(s, p)
                      /\ \A v : Live(s, p) => (Holds(s, p, v) <=> Holds(t, p, v))
  BY Prefix
<1>1. e \in Nat /\ f \in Nat /\ f > e /\ Size \in Nat
  BY HeaderIs, Within
<1>2. f \in 1 .. Size + 1
  BY <1>1, Within
<1>3. \A p \in W : p \in Nat /\ p < e /\ NextVariablePtr(s, p) <= e /\ NextVariablePtr(s, p) \in Nat
  BY Within
<1> HIDE DEF f
<1>4. \A p \in W \cup {e} : /\ IsHeader(t, p) /\ p < f
                            /\ NextVariablePtr(t, p) \in (W \cup {e}) \cup {f}
  BY <1>0, <1>1, <1>3 DEF Logged, IsLog, f
<1>5. \A p, q \in W \cup {e} : p < q => NextVariablePtr(t, p) <= q
  BY <1>0, <1>1, <1>3 DEF Logged, IsLog
<1>6. 1 \in (W \cup {e}) \cup {f}
  BY DEF Logged, IsLog
<1>7. IsLog(t, W \cup {e}, f)
  BY <1>2, <1>4, <1>5, <1>6 DEF IsLog, f
<1>8. \A p \in W \cup {e} : Live(t, p) => \E v \in Values : Holds(t, p, v)
  BY <1>0 DEF Logged
<1> QED
  BY <1>7, <1>8 DEF Logged, f

(* Bits programmed in the state byte of a live variable.                    *)
LEMMA Marked ==
  ASSUME NEW s, NEW W, NEW e, Logged(s, W, e), NEW p \in W, Live(s, p),
         NEW bits \in SUBSET Bit, NEW t, t = ProgramState(s, p, bits)
  PROVE  /\ Logged(t, W, e)
         /\ t[p].state = s[p].state \cup bits /\ t[p].name = s[p].name
         /\ \A i \in Place : i # p => t[i] = s[i]
         /\ \A q \in W : \A v : Live(s, q) => (Holds(s, q, v) <=> Holds(t, q, v))
<1> DEFINE h == [s[p] EXCEPT !.state = @ \cup bits]
<1>1. p \in Place /\ s \in Store /\ IsHeader(s, p) /\ s[p] \in HeaderCell
  BY HeaderIs DEF Logged, IsLog
<1>2. h \in HeaderCell /\ h.state = s[p].state \cup bits /\ h.size = s[p].size /\ h.name = s[p].name
  BY <1>1 DEF HeaderCell
<1>3. t = [s EXCEPT ![p] = h]
  BY <1>1 DEF ProgramState
<1> HIDE DEF h
<1>4. t \in Store /\ t[p] = h /\ \A i \in Place : i # p => t[i] = s[i]
  BY <1>1, <1>2, <1>3, Headers DEF Store
<1>5. \A i \in 1 .. Size + 1 : IsHeader(t, i) <=> IsHeader(s, i)
  BY <1>1, <1>2, <1>4, Headers DEF IsHeader
<1>6. \A q \in W : q \in Nat /\ q \in Place /\ q \in 1 .. Size + 1
  BY Within, Headers DEF Place
<1>7. s[p].state # {} /\ h.state # {}
  BY <1>2 DEF Live, VAR_ADDED, IN_TRANSITION
<1>8. \A q \in W : NextVariablePtr(t, q) = NextVariablePtr(s, q) /\ t[q].size = s[q].size
  BY <1>2, <1>4, <1>6, <1>7 DEF NextVariablePtr
<1>9. IsLog(t, W, e)
  BY <1>5, <1>6, <1>8 DEF Logged, IsLog
<1>10. ASSUME NEW q \in W, Live(s, q), NEW i \in 1 .. s[q].size
       PROVE  t[q + i] = s[q + i]
  <2>1. q + i \in Place
    BY <1>10, Within, Headers DEF Place
  <2>2. q + i # p
    <3>1. q < p => q + 1 + s[q].size <= p
      BY <1>10, Within
    <3> QED
      BY <1>10, <3>1, Within
  <2> QED
    BY <1>4, <2>1, <2>2
<1>11. ASSUME NEW q \in W, NEW v, Live(s, q)
       PROVE  Holds(s, q, v) <=> Holds(t, q, v)
  BY <1>8, <1>10, <1>11 DEF Holds
<1>12. \A q \in W : Live(t, q) => Live(s, q)
  BY <1>4, <1>6 DEF Live
<1>13. Logged(t, W, e)
  BY <1>4, <1>9, <1>11, <1>12 DEF Logged
<1> QED
  BY <1>2, <1>4, <1>11, <1>13 DEF h

-----------------------------------------------------------------------------
(* The search                                                               *)

LEMMA LastPlace ==
  ASSUME NEW T, T \subseteq 0 .. Size, T # {}
  PROVE  Max(T) \in T /\ \A y \in T : y <= Max(T)
<1>0. Size \in Nat
  BY Headers
<1> DEFINE U == {Size - y : y \in T}
<1>1. U \subseteq Nat /\ U # {}
  <2>1. \A y \in T : y \in Nat /\ Size - y \in Nat
    BY <1>0
  <2>2. PICK y : y \in T
    OBVIOUS
  <2>3. Size - y \in U
    BY <2>2
  <2> QED
    BY <2>1, <2>3
<1>2. PICK x \in U : \A y \in U : x <= y
  BY <1>1, FirstPlace
<1>3. PICK z \in T : x = Size - z
  BY <1>2
<1>4. \A y \in T : y <= z
  BY <1>0, <1>2, <1>3
<1>5. \E m \in T : \A y \in T : m >= y
  BY <1>0, <1>3, <1>4
<1>6. Max(T) \in T /\ \A y \in T : Max(T) >= y
  BY <1>5, Zenon DEF Max
<1> QED
  BY <1>0, <1>6

LEMMA FirstOf ==
  ASSUME NEW T, T \subseteq 0 .. Size, T # {}
  PROVE  Min(T) \in T /\ \A y \in T : Min(T) <= y
<1>0. Size \in Nat
  BY Headers
<1>a. T \subseteq Nat
  BY <1>0
<1>1. PICK x \in T : \A y \in T : x <= y
  BY <1>a, FirstPlace
<1>2. \E m \in T : \A y \in T : m =< y
  BY <1>1
<1> QED
  BY <1>2, Zenon DEF Min

AddedCopies(s, n) == {p \in Copies(s, n) : s[p].state = VAR_ADDED}

(* FindVariableEx returns the first ADDED copy and the last one in transition
   before it, or the last one in transition.                                *)
LEMMA FindIs ==
  ASSUME NEW s, NEW W, NEW e, Logged(s, W, e), NEW n
  PROVE  LET f == FindVariable(s, n)
         IN  /\ f.curr \in Copies(s, n) \cup {0} /\ f.trans \in Copies(s, n) \cup {0}
             /\ f.curr = 0 <=> Copies(s, n) = {}
             /\ AddedCopies(s, n) # {} => f.curr \in AddedCopies(s, n)
             /\ f.trans # 0 => f.curr \in AddedCopies(s, n) /\ f.trans < f.curr
                               /\ s[f.trans].state = IN_TRANSITION
             /\ AddedCopies(s, n) = {} => \A p \in Copies(s, n) : p <= f.curr
             /\ Copies(s, n) \subseteq W
             /\ \A p \in Copies(s, n) : p \in 1 .. Size /\ Live(s, p) /\ s[p].name = n
<1> DEFINE C == Copies(s, n)
           A == AddedCopies(s, n)
           curr == IF A # {} THEN Min(A) ELSE Max(C \cup {0})
           trans == IF A = {} THEN 0 ELSE Max({p \in C : p < curr} \cup {0})
<1>1. FindVariable(s, n) = [curr |-> curr, trans |-> trans]
  BY DEF FindVariable, AddedCopies
<1>2. C \subseteq W /\ \A p \in C : p \in 1 .. Size /\ Live(s, p) /\ s[p].name = n
  BY WalkIs, Within DEF Copies, Live, Logged, Place
<1>3. A \subseteq C /\ \A p \in C : p \in A <=> s[p].state = VAR_ADDED
  BY DEF AddedCopies
<1>4. Size \in Nat
  BY Headers
<1> HIDE DEF A, C
<1>5. CASE A = {}
  <2>1. C \cup {0} \subseteq 0 .. Size
    BY <1>2, <1>4
  <2>2. curr \in C \cup {0} /\ \A y \in C \cup {0} : y <= curr
    BY <1>5, <2>1, LastPlace
  <2>3. trans = 0
    BY <1>5
  <2> HIDE DEF curr, trans
  <2>4. curr = 0 <=> C = {}
    <3>1. ASSUME C # {} PROVE curr # 0
      <4>1. PICK y : y \in C
        BY <3>1
      <4>2. y \in Nat /\ y > 0 /\ y <= curr
        BY <1>2, <1>4, <2>2, <4>1
      <4> QED
        BY <4>2
    <3> QED
      BY <2>2, <3>1
  <2> QED
    BY <1>1, <1>2, <1>5, <2>2, <2>3, <2>4 DEF A, C
<1>6. CASE A # {}
  <2>1. A \subseteq 0 .. Size
    BY <1>2, <1>3, <1>4
  <2>2. curr \in A /\ \A y \in A : curr <= y
    BY <1>6, <2>1, FirstOf
  <2> DEFINE T == {p \in C : p < curr} \cup {0}
  <2>3. T \subseteq 0 .. Size
    BY <1>2, <1>4
  <2>4. trans \in T
    BY <1>6, <2>3, LastPlace
  <2>5. curr \in 1 .. Size
    BY <1>2, <1>3, <2>2
  <2>6. trans # 0 => /\ trans \in C /\ trans < curr /\ trans \notin A
    <3>1. trans # 0 => trans \in C /\ trans < curr
      BY <2>4
    <3> HIDE DEF curr, trans
    <3> QED
      BY <1>2, <2>2, <2>5, <3>1
  <2>7. trans # 0 => s[trans].state = IN_TRANSITION
    BY <1>2, <1>3, <2>6 DEF Live
  <2>8. C # {} /\ curr # 0 /\ curr \in C
    BY <1>3, <2>2, <2>5
  <2> HIDE DEF curr, trans
  <2> QED
    BY <1>1, <1>2, <1>6, <2>2, <2>4, <2>6, <2>7, <2>8 DEF A, C, T
<1> QED
  BY <1>5, <1>6

(* What a search of one variable returns.                                   *)
LEMMA ValueIs ==
  ASSUME NEW s, NEW W, NEW e, Logged(s, W, e), NEW n
  PROVE  /\ Copies(s, n) = {} => Value(s, n) = None
         /\ Copies(s, n) # {} =>
              \E v \in Values : Holds(s, FindVariable(s, n).curr, v) /\ Value(s, n) = v
<1> DEFINE p == FindVariable(s, n).curr
<1>1. p \in Copies(s, n) \cup {0} /\ (p = 0 <=> Copies(s, n) = {})
      /\ \A q \in Copies(s, n) : q \in W /\ Live(s, q)
  BY FindIs
<1>2. Value(s, n) = IF p = 0 THEN None
                    ELSE IF \A i \in 1 .. s[p].size : s[p + i] = s[p + 1] THEN s[p + 1]
                    ELSE Torn
  BY DEF Value
<1> HIDE DEF p
<1>3. ASSUME Copies(s, n) # {}
      PROVE  \E v \in Values : Holds(s, p, v) /\ Value(s, n) = v
  <2>1. p # 0 /\ p \in W /\ Live(s, p)
    BY <1>1, <1>3
  <2>2. PICK v \in Values : Holds(s, p, v)
    BY <2>1 DEF Logged
  <2>3. s[p].size \in Nat /\ s[p].size > 0
    BY <2>1, Within
  <2>4. 1 \in 1 .. s[p].size
    BY <2>3
  <2>5. \A i \in 1 .. s[p].size : s[p + i] = v
    BY <2>2 DEF Holds
  <2>6. s[p + 1] = v
    BY <2>4, <2>5
  <2>7. Value(s, n) = v
    BY <1>2, <2>1, <2>5, <2>6
  <2> QED
    BY <2>2, <2>7
<1> QED
  BY <1>1, <1>2, <1>3 DEF p

(* A place holds one value.                                                 *)
LEMMA HoldsOne ==
  ASSUME NEW s, NEW W, NEW e, Logged(s, W, e), NEW p \in W, NEW v, NEW w,
         Holds(s, p, v), Holds(s, p, w)
  PROVE  v = w
<1>1. s[p].size \in Nat /\ s[p].size > 0
  BY Within
<1>2. 1 \in 1 .. s[p].size
  BY <1>1
<1> QED
  BY <1>2 DEF Holds

(* The value of a variable all of whose ADDED copies, or if there are none all
   of whose copies, hold v.                                                 *)
LEMMA ValueFrom ==
  ASSUME NEW s, NEW W, NEW e, Logged(s, W, e), NEW n, NEW v, Copies(s, n) # {},
         Holds(s, FindVariable(s, n).curr, v)
  PROVE  Value(s, n) = v
<1> DEFINE p == FindVariable(s, n).curr
<1>1. p \in W
  BY FindIs
<1>2. PICK w \in Values : Holds(s, p, w) /\ Value(s, n) = w
  BY ValueIs
<1> QED
  BY <1>1, <1>2, HoldsOne

-----------------------------------------------------------------------------
(* Garbage collection                                                       *)

(* c is the buffer b with a variable behind it.                             *)
Extends(b, c, n, v) ==
  /\ c \in Seq(Cell) /\ Len(c) = Len(b) + VarSize(v)
  /\ \A i \in 1 .. Len(b) : c[i] = b[i]
  /\ c[Len(b) + 1] = NewHeader(n, v, VAR_ADDED)
  /\ \A i \in 1 .. DataSize[v] : c[Len(b) + 1 + i] = v

LEMMA FillIs ==
  ASSUME NEW b \in Seq(Cell)
  PROVE  /\ Fill(b) \in Store /\ Len(b) \in Nat
         /\ \A i \in Place : i <= Len(b) => Fill(b)[i] = b[i]
         /\ \A i \in Place : i > Len(b) => Fill(b)[i] = Erased
<1>1. Len(b) \in Nat /\ \A i \in 1 .. Len(b) : b[i] \in Cell
  BY LenProperties, ElementOfSeq
<1>2. \A i \in Place : i \in Nat /\ i > 0
  BY Headers DEF Place
<1>3. \A i \in Place : i <= Len(b) => b[i] \in Cell
  BY <1>1, <1>2
<1>4. Erased \in Cell
  BY Headers
<1> QED
  BY <1>1, <1>2, <1>3, <1>4 DEF Fill, Store

LEMMA NewHeaderIs ==
  ASSUME NEW n \in Names, NEW v \in Values, NEW bits \in SUBSET Bit
  PROVE  LET h == NewHeader(n, v, bits)
         IN  /\ h \in HeaderCell /\ h \in Cell
             /\ h.name = n /\ h.size = DataSize[v] /\ h.state = bits
             /\ DataSize[v] \in Nat /\ DataSize[v] > 0
<1>1. DataSize[v] \in Nat /\ DataSize[v] > 0
  BY VariableAssumption
<1>2. NewHeader(n, v, bits) \in HeaderCell
  BY DEF NewHeader, HeaderCell
<1> QED
  BY <1>1, <1>2, Headers DEF NewHeader

LEMMA Filled ==
  ASSUME NEW b \in Seq(Cell), NEW W, Logged(Fill(b), W, Len(b) + 1),
         NEW c, NEW n \in Names, NEW v \in Values, Extends(b, c, n, v), Len(c) <= Size
  PROVE  /\ Logged(Fill(c), W \cup {Len(b) + 1}, Len(c) + 1)
         /\ Free(Fill(c), Len(c) + 1)
         /\ Fill(c)[Len(b) + 1] = NewHeader(n, v, VAR_ADDED)
         /\ Holds(Fill(c), Len(b) + 1, v)
         /\ \A p \in W : /\ Fill(c)[p] = Fill(b)[p]
                         /\ \A w : Live(Fill(b), p) =>
                                     (Holds(Fill(b), p, w) <=> Holds(Fill(c), p, w))
         /\ Len(b) + 1 \notin W
<1> DEFINE s == Fill(b)
           t == Fill(c)
           e == Len(b) + 1
           h == NewHeader(n, v, VAR_ADDED)
<1>1. c \in Seq(Cell)
  BY DEF Extends
<1>2. /\ s \in Store /\ Len(b) \in Nat
      /\ \A i \in Place : i <= Len(b) => s[i] = b[i]
  BY FillIs
<1>3. /\ t \in Store /\ Len(c) \in Nat
      /\ \A i \in Place : i <= Len(c) => t[i] = c[i]
      /\ \A i \in Place : i > Len(c) => t[i] = Erased
  BY <1>1, FillIs
<1>4. VAR_ADDED \in SUBSET Bit
  BY DEF VAR_ADDED, Bit
<1>5. /\ h \in HeaderCell /\ h.name = n /\ h.size = DataSize[v] /\ h.state = VAR_ADDED
      /\ DataSize[v] \in Nat /\ DataSize[v] > 0
  BY <1>4, NewHeaderIs
<1>6. Len(c) = Len(b) + 1 + DataSize[v] /\ Size \in Nat
  BY <1>2, <1>5, Headers DEF Extends, VarSize
<1> HIDE DEF s, t, h
<1>7. \A i \in 1 .. e - 1 : t[i] = s[i]
  <2> SUFFICES ASSUME NEW i \in 1 .. e - 1 PROVE t[i] = s[i]
    OBVIOUS
  <2>1. i \in 1 .. Len(b) /\ i \in Place /\ i <= Len(c)
    BY <1>2, <1>5, <1>6 DEF Place
  <2> QED
    BY <1>2, <1>3, <2>1 DEF Extends
<1>8. t[e] = h /\ e \in Place
  BY <1>2, <1>3, <1>5, <1>6 DEF Extends, Place, h
<1>9. \A i \in 1 .. DataSize[v] : t[e + i] = v
  <2> SUFFICES ASSUME NEW i \in 1 .. DataSize[v] PROVE t[e + i] = v
    OBVIOUS
  <2>1. e + i \in Place /\ e + i <= Len(c) /\ e + i = Len(b) + 1 + i
    BY <1>2, <1>5, <1>6 DEF Place
  <2> QED
    BY <1>3, <2>1 DEF Extends
<1>10. IsHeader(t, e)
  BY <1>5, <1>8, Headers DEF IsHeader
<1>11. Holds(t, e, v)
  BY <1>5, <1>8, <1>9 DEF Holds
<1>12. NextVariablePtr(t, e) = Len(c) + 1
  <2>1. h.state # {}
    BY <1>5 DEF VAR_ADDED
  <2> QED
    BY <1>2, <1>5, <1>6, <1>8, <2>1 DEF NextVariablePtr
<1>13. Free(t, Len(c) + 1)
  <2> SUFFICES ASSUME NEW i \in Len(c) + 1 .. Size PROVE t[i] = Erased
    BY DEF Free
  <2>1. i \in Place /\ i > Len(c)
    BY <1>3, <1>6 DEF Place
  <2> QED
    BY <1>3, <2>1
<1>14. ~IsHeader(t, Len(c) + 1)
  BY <1>3, <1>6 DEF IsHeader, Place
<1>15. Logged(s, W, e)
  BY DEF s
<1>16. Logged(t, W \cup {e}, NextVariablePtr(t, e))
  BY <1>3, <1>6, <1>7, <1>10, <1>11, <1>12, <1>14, <1>15, Appended
<1>17. \A p \in W : /\ t[p] = s[p]
                    /\ \A w : Live(s, p) => (Holds(s, p, w) <=> Holds(t, p, w))
  BY <1>3, <1>7, <1>15, Prefix
<1>18. e \notin W
  BY <1>15, Within
<1> QED
  BY <1>8, <1>11, <1>12, <1>13, <1>16, <1>17, <1>18 DEF s, t, h

(* A variable as Reclaim copies it.                                         *)
LEMMA CopiedIs ==
  ASSUME NEW s, NEW W, NEW e, Logged(s, W, e), NEW p \in W, Live(s, p),
         NEW v \in Values, Holds(s, p, v), NEW b \in Seq(Cell)
  PROVE  Extends(b, b \o Copied(s, p), s[p].name, v)
<1> DEFINE h == NewHeader(s[p].name, v, VAR_ADDED)
           d == SubSeq(s, p + 1, p + s[p].size)
           k == s[p].size
<1>1. /\ p \in Nat /\ p > 0 /\ s[p].name \in Names /\ k \in Nat /\ k > 0
      /\ p + k <= Size /\ Size \in Nat
  BY Within
<1>2. s[p] \in HeaderCell /\ s \in Store
  BY HeaderIs DEF Logged, IsLog
<1>3. VAR_ADDED \in SUBSET Bit
  BY DEF VAR_ADDED, Bit
<1>4. h \in HeaderCell /\ h \in Cell /\ k = DataSize[v] /\ VarSize(v) = 1 + k
  BY <1>1, <1>3, NewHeaderIs DEF Holds, VarSize
<1>5. [s[p] EXCEPT !.state = VAR_ADDED] = h
  BY <1>2, <1>4 DEF HeaderCell, NewHeader
<1>6. s \in Seq(Cell) /\ Len(s) = Size
  BY <1>1, <1>2 DEF Store, Place
<1>7. /\ d \in Seq(Cell) /\ Len(d) = k
      /\ \A i \in 1 .. k : d[i] = s[p + i]
  <2> DEFINE m == p + 1
             n == p + k
  <2>1. m \in Int /\ n \in Int /\ m \in 1 .. Len(s) /\ m <= n /\ n \in 1 .. Len(s)
        /\ n - m + 1 = k
    BY <1>1, <1>6
  <2>2. d = SubSeq(s, m, n)
    OBVIOUS
  <2> HIDE DEF m, n, d
  <2>3. /\ SubSeq(s, m, n) \in Seq(Cell) /\ Len(SubSeq(s, m, n)) = n - m + 1
        /\ \A i \in 1 .. n - m + 1 : SubSeq(s, m, n)[i] = s[m + i - 1]
    BY <1>6, <2>1, SubSeqProperties, ElementOfSeq
  <2>4. \A i \in 1 .. k : m + i - 1 = p + i
    BY <1>1 DEF m
  <2> QED
    BY <2>1, <2>2, <2>3, <2>4
<1>8. \A i \in 1 .. k : d[i] = v
  BY <1>7 DEF Holds
<1> HIDE DEF h, d, k
<1>9. <<h>> \in Seq(Cell) /\ Len(<<h>>) = 1 /\ <<h>>[1] = h
  BY <1>4
<1> DEFINE c == <<h>> \o d
<1>10. /\ c \in Seq(Cell) /\ Len(c) = 1 + k
       /\ \A i \in 1 .. 1 + k : c[i] = IF i <= 1 THEN <<h>>[i] ELSE d[i - 1]
  BY <1>7, <1>9, ConcatProperties
<1>11. c[1] = h /\ \A i \in 1 .. k : c[1 + i] = v
  <2>1. c[1] = h
    BY <1>1, <1>9, <1>10 DEF k
  <2>2. ASSUME NEW i \in 1 .. k PROVE c[1 + i] = v
    <3>1. 1 + i \in 1 .. 1 + k /\ ~(1 + i <= 1) /\ (1 + i) - 1 = i
      BY <1>1 DEF k
    <3> QED
      BY <1>8, <1>10, <3>1
  <2> QED
    BY <2>1, <2>2
<1>12. Copied(s, p) = c
  BY <1>5 DEF Copied, d, k
<1> HIDE DEF c
<1>13. Len(b) \in Nat
  BY LenProperties
<1>14. /\ b \o c \in Seq(Cell) /\ Len(b \o c) = Len(b) + (1 + k)
       /\ \A i \in 1 .. Len(b) + (1 + k) :
            (b \o c)[i] = IF i <= Len(b) THEN b[i] ELSE c[i - Len(b)]
  <2>1. /\ b \o c \in Seq(Cell) /\ Len(b \o c) = Len(b) + Len(c)
        /\ \A i \in 1 .. Len(b) + Len(c) :
             (b \o c)[i] = IF i <= Len(b) THEN b[i] ELSE c[i - Len(b)]
    BY <1>10, ConcatProperties
  <2> QED
    BY <1>10, <2>1
<1>15. \A i \in 1 .. Len(b) : (b \o c)[i] = b[i]
  BY <1>1, <1>13, <1>14 DEF k
<1>16. \A j \in 1 .. 1 + k : (b \o c)[Len(b) + j] = c[j]
  <2> SUFFICES ASSUME NEW j \in 1 .. 1 + k PROVE (b \o c)[Len(b) + j] = c[j]
    OBVIOUS
  <2>1. /\ Len(b) + j \in 1 .. Len(b) + (1 + k) /\ ~(Len(b) + j <= Len(b))
        /\ (Len(b) + j) - Len(b) = j
    BY <1>1, <1>13 DEF k
  <2> QED
    BY <1>14, <2>1
<1>17. (b \o c)[Len(b) + 1] = h
  <2>1. 1 \in 1 .. 1 + k
    BY <1>1 DEF k
  <2> QED
    BY <1>11, <1>16, <2>1
<1>18. ASSUME NEW i \in 1 .. k PROVE (b \o c)[Len(b) + 1 + i] = v
  <2>1. 1 + i \in 1 .. 1 + k /\ Len(b) + (1 + i) = Len(b) + 1 + i
    BY <1>1, <1>13 DEF k
  <2>2. (b \o c)[Len(b) + (1 + i)] = c[1 + i]
    BY <1>16, <2>1
  <2> QED
    BY <1>11, <2>1, <2>2
<1> QED
  BY <1>4, <1>12, <1>14, <1>15, <1>17, <1>18 DEF Extends, h

(* The cells of the variables at K.                                         *)
Cells(s, K) == {i \in Place : \E p \in K : p <= i /\ i <= p + s[p].size}

(* The buffer b has one ADDED copy of each of the variables at K.           *)
SameVariable(t, q, s, p) ==
  t[q].name = s[p].name /\ \E v \in Values : Holds(t, q, v) /\ Holds(s, p, v)
Gathered(s, K, b) ==
  /\ b \in Seq(Cell) /\ Len(b) = Cardinality(Cells(s, K))
  /\ Free(Fill(b), Len(b) + 1)
  /\ \E W : /\ Logged(Fill(b), W, Len(b) + 1)
            /\ \A q \in W : /\ Fill(b)[q].state = VAR_ADDED
                            /\ \E p \in K : SameVariable(Fill(b), q, s, p)
            /\ \A p \in K : \E q \in W : SameVariable(Fill(b), q, s, p)

(* There is room for what is there.                                         *)
LEMMA CellsFit ==
  ASSUME NEW s, NEW K
  PROVE  /\ IsFiniteSet(Cells(s, K)) /\ Cardinality(Cells(s, K)) \in Nat
         /\ Cardinality(Cells(s, K)) <= Size
<1>1. Size \in Nat
  BY Headers
<1>2. IsFiniteSet(Place) /\ Cardinality(Place) = Size
  <2>1. IsFiniteSet(1 .. Size) /\ Cardinality(1 .. Size) = IF 1 > Size THEN 0 ELSE Size - 1 + 1
    BY <1>1, FS_Interval
  <2> QED
    BY <1>1, <2>1 DEF Place
<1>3. Cells(s, K) \in SUBSET Place
  BY DEF Cells
<1>4. IsFiniteSet(Cells(s, K)) /\ Cardinality(Cells(s, K)) <= Size
  BY <1>2, <1>3, FS_Subset
<1> QED
  BY <1>4, FS_CardinalityType

LEMMA CellsAdd ==
  ASSUME NEW s, NEW W, NEW e, Logged(s, W, e), NEW K \in SUBSET W, NEW p \in W \ K,
         \A q \in K \cup {p} : Live(s, q)
  PROVE  Cardinality(Cells(s, K \cup {p})) = Cardinality(Cells(s, K)) + 1 + s[p].size
<1> DEFINE I == p .. p + s[p].size
<1>1. /\ Size \in Nat /\ p \in Nat /\ p > 0 /\ s[p].size \in Nat /\ p + s[p].size <= Size
  BY Within
<1>2. IsFiniteSet(I) /\ Cardinality(I) = 1 + s[p].size
  <2> DEFINE m == p + s[p].size
  <2>1. p \in Int /\ m \in Int /\ p <= m /\ m - p + 1 = 1 + s[p].size
    BY <1>1
  <2> HIDE DEF m
  <2>2. IsFiniteSet(p .. m) /\ Cardinality(p .. m) = m - p + 1
    BY <2>1, FS_Interval
  <2> QED
    BY <2>1, <2>2 DEF m
<1>3. Cells(s, K \cup {p}) = Cells(s, K) \cup I
  <2>1. \A i : i \in I <=> i \in Place /\ p <= i /\ i <= p + s[p].size
    BY <1>1 DEF Place
  <2> HIDE DEF I
  <2> QED
    BY <2>1 DEF Cells
<1>4. Cells(s, K) \cap I = {}
  <2> SUFFICES ASSUME NEW i \in I, NEW q \in K, q <= i, i <= q + s[q].size
               PROVE  FALSE
    BY DEF Cells
  <2>1. q \in W /\ q # p /\ q \in Nat /\ s[q].size \in Nat
    BY Within
  <2>2. /\ q < p => q + 1 + s[q].size <= p
        /\ p < q => p + 1 + s[p].size <= q
    BY <2>1, Within
  <2>3. i \in Nat /\ p <= i /\ i <= p + s[p].size
    BY <1>1
  <2> QED
    BY <1>1, <2>1, <2>2, <2>3
<1> HIDE DEF I
<1>5. Cardinality(Cells(s, K) \cup I)
        = Cardinality(Cells(s, K)) + Cardinality(I) - Cardinality(Cells(s, K) \cap I)
  BY <1>2, CellsFit, FS_Union
<1>6. Cardinality({}) = 0
  BY FS_EmptySet
<1>7. Cardinality(Cells(s, K)) \in Nat
  BY CellsFit
<1>8. Cardinality(Cells(s, K) \cap I) = 0
  BY <1>4, <1>6
<1>9. Cardinality(Cells(s, K) \cup I) = Cardinality(Cells(s, K)) + (1 + s[p].size)
  BY <1>1, <1>2, <1>5, <1>7, <1>8
<1> DEFINE k == s[p].size
           c == Cardinality(Cells(s, K))
<1>10. k \in Nat /\ c \in Nat
  BY <1>1, <1>7
<1>11. Cardinality(Cells(s, K \cup {p})) = c + (1 + k)
  BY <1>3, <1>9
<1> HIDE DEF k, c
<1>12. Cardinality(Cells(s, K \cup {p})) = c + 1 + k
  BY <1>10, <1>11
<1> QED
  BY <1>12 DEF k, c

(* One more variable in the buffer.                                         *)
LEMMA GatherOne ==
  ASSUME NEW s, NEW W, NEW e, Logged(s, W, e), NEW K \in SUBSET W, NEW p \in W \ K,
         \A q \in K \cup {p} : Live(s, q), NEW b, Gathered(s, K, b)
  PROVE  Gathered(s, K \cup {p}, b \o Copied(s, p))
<1>1. PICK v \in Values : Holds(s, p, v)
  BY DEF Logged
<1> DEFINE c == b \o Copied(s, p)
           n == s[p].name
           t == Fill(c)
           o == Len(b) + 1
<1>2. b \in Seq(Cell) /\ Len(b) = Cardinality(Cells(s, K))
  BY DEF Gathered
<1>3. Extends(b, c, n, v)
  BY <1>1, <1>2, CopiedIs
<1>4. n \in Names /\ s[p].size = DataSize[v] /\ s[p].size \in Nat
  BY <1>1, Within DEF Holds
<1> HIDE DEF c, n
<1>5. c \in Seq(Cell) /\ Len(c) = Cardinality(Cells(s, K \cup {p}))
  <2>1. Len(c) = Len(b) + (1 + s[p].size)
    BY <1>3, <1>4 DEF Extends, VarSize
  <2>2. Cardinality(Cells(s, K \cup {p})) = Cardinality(Cells(s, K)) + 1 + s[p].size
    BY CellsAdd
  <2>3. Cardinality(Cells(s, K)) \in Nat
    BY CellsFit
  <2> QED
    BY <1>2, <1>3, <1>4, <2>1, <2>2, <2>3 DEF Extends
<1>6. Len(c) <= Size
  BY <1>5, CellsFit
<1>7. PICK V : /\ Logged(Fill(b), V, Len(b) + 1)
               /\ \A q \in V : /\ Fill(b)[q].state = VAR_ADDED
                               /\ \E x \in K : SameVariable(Fill(b), q, s, x)
               /\ \A x \in K : \E q \in V : SameVariable(Fill(b), q, s, x)
  BY DEF Gathered
<1>8. /\ Logged(t, V \cup {o}, Len(c) + 1)
      /\ Free(t, Len(c) + 1)
      /\ t[o] = NewHeader(n, v, VAR_ADDED) /\ Holds(t, o, v)
      /\ \A q \in V : /\ t[q] = Fill(b)[q]
                      /\ \A w : Live(Fill(b), q) =>
                                  (Holds(Fill(b), q, w) <=> Holds(t, q, w))
  <2>1. Logged(Fill(b), V, Len(b) + 1)
    BY <1>7
  <2>2. b \in Seq(Cell)
    BY <1>2
  <2>3. /\ Logged(Fill(c), V \cup {Len(b) + 1}, Len(c) + 1)
        /\ Free(Fill(c), Len(c) + 1)
        /\ Fill(c)[Len(b) + 1] = NewHeader(n, v, VAR_ADDED)
        /\ Holds(Fill(c), Len(b) + 1, v)
        /\ \A q \in V : /\ Fill(c)[q] = Fill(b)[q]
                        /\ \A w : Live(Fill(b), q) =>
                                    (Holds(Fill(b), q, w) <=> Holds(Fill(c), q, w))
        /\ Len(b) + 1 \notin V
    BY ONLY <2>2, <1>3, <1>4, <1>6, <2>1, Filled
  <2> QED
    BY <2>3
<1> HIDE DEF t, o
<1>9. t[o].name = n /\ t[o].state = VAR_ADDED
  BY <1>8 DEF NewHeader
<1>10. SameVariable(t, o, s, p)
  BY <1>1, <1>8, <1>9 DEF SameVariable, n
<1>11. \A q \in V : Live(Fill(b), q) /\ t[q].state = VAR_ADDED
  BY <1>7, <1>8 DEF Live
<1>12. \A q \in V, x \in K : SameVariable(Fill(b), q, s, x) => SameVariable(t, q, s, x)
  BY <1>8, <1>11 DEF SameVariable
<1>13. /\ \A q \in V \cup {o} : /\ t[q].state = VAR_ADDED
                                /\ \E x \in K \cup {p} : SameVariable(t, q, s, x)
       /\ \A x \in K \cup {p} : \E q \in V \cup {o} : SameVariable(t, q, s, x)
  BY <1>7, <1>9, <1>10, <1>11, <1>12
<1> QED
  BY <1>5, <1>8, <1>13 DEF Gathered, t, c

(* The recursion of Gather has a solution.                                  *)
GatherStep(s, K, b, f) ==
  [p \in 0 .. Size |-> IF p = 0 THEN b
                       ELSE f[p - 1] \o (IF p \in K THEN Copied(s, p) ELSE <<>>)]
LEMMA GatherEquation ==
  ASSUME NEW s, NEW K, NEW b
  PROVE  \E g : g = GatherStep(s, K, b, g) /\ Gather(s, K, b) = g[Size]
<1> DEFINE More(p) == IF p \in K THEN Copied(s, p) ELSE <<>>
           Body(f, n) == [p \in 0 .. n |-> IF p = 0 THEN b ELSE f[p - 1] \o More(p)]
           Solved == {n \in Nat : \E f : f = Body(f, n)}
<1>1. 0 \in Solved
  <2>1. [p \in 0 .. 0 |-> b] = Body([p \in 0 .. 0 |-> b], 0)
    OBVIOUS
  <2> QED
    BY <2>1
<1>2. ASSUME NEW n \in Nat, n \in Solved PROVE n + 1 \in Solved
  <2>1. PICK f : f = Body(f, n)
    BY <1>2
  <2> DEFINE last == f[n] \o More(n + 1)
             g == [k \in 0 .. n + 1 |-> IF k <= n THEN f[k] ELSE last]
  <2> HIDE DEF More, last
  <2>2. \A k \in 0 .. n : g[k] = f[k]
    OBVIOUS
  <2>3. g[n + 1] = last
    OBVIOUS
  <2>4. \A k \in 0 .. n : f[k] = IF k = 0 THEN b ELSE f[k - 1] \o More(k)
    BY <2>1
  <2>5. g \in [0 .. n + 1 -> {g[k] : k \in 0 .. n + 1}]
    OBVIOUS
  <2> HIDE DEF g
  <2>6. \A k \in 0 .. n + 1 : g[k] = IF k = 0 THEN b ELSE g[k - 1] \o More(k)
    <3> SUFFICES ASSUME NEW k \in 0 .. n + 1
                 PROVE  g[k] = IF k = 0 THEN b ELSE g[k - 1] \o More(k)
      OBVIOUS
    <3>1. CASE k = 0
      BY <2>2, <2>4, <3>1
    <3>2. CASE k \in 1 .. n
      BY <2>2, <2>4, <3>2
    <3>3. CASE k = n + 1
      <4>1. k # 0 /\ k - 1 = n /\ n \in 0 .. n
        BY <3>3
      <4>2. g[k - 1] = f[n]
        BY <2>2, <4>1
      <4> QED
        BY <2>3, <3>3, <4>1, <4>2 DEF last
    <3> QED
      BY <3>1, <3>2, <3>3
  <2>7. g = Body(g, n + 1)
    BY <2>5, <2>6
  <2>8. \E h : h = Body(h, n + 1)
    BY <2>7, Zenon
  <2>9. n + 1 \in Nat
    OBVIOUS
  <2> HIDE DEF Body
  <2> QED
    BY <2>8, <2>9
<1> HIDE DEF Solved
<1>3. Nat \subseteq Solved
  BY <1>1, <1>2, Induction
<1>4. Size \in Nat
  BY Headers
<1>5. PICK f : f = Body(f, Size)
  BY <1>3, <1>4 DEF Solved
<1> DEFINE g == CHOOSE h : h = [p \in 0 .. Size |->
                                  IF p = 0 THEN b
                                  ELSE h[p - 1] \o (IF p \in K THEN Copied(s, p) ELSE <<>>)]
<1>6. g = GatherStep(s, K, b, g)
  BY <1>5, Zenon DEF GatherStep
<1>7. Gather(s, K, b) = g[Size]
  BY Zenon DEF Gather
<1> QED
  BY <1>6, <1>7

(* One loop of Reclaim.                                                     *)
LEMMA GatherAll ==
  ASSUME NEW s, NEW W, NEW e, Logged(s, W, e), NEW K \in SUBSET W, NEW M \in SUBSET W,
         K \cap M = {}, \A q \in K \cup M : Live(s, q), NEW b, Gathered(s, K, b)
  PROVE  Gathered(s, K \cup M, Gather(s, M, b))
<1>1. PICK g : g = GatherStep(s, M, b, g) /\ Gather(s, M, b) = g[Size]
  BY GatherEquation
<1>2. Size \in Nat
  BY Headers
<1>3. g[0] = b /\ \A p \in 1 .. Size :
                    g[p] = g[p - 1] \o (IF p \in M THEN Copied(s, p) ELSE <<>>)
  <2> DEFINE More(p) == IF p \in M THEN Copied(s, p) ELSE <<>>
  <2>1. g = [p \in 0 .. Size |-> IF p = 0 THEN b ELSE g[p - 1] \o More(p)]
    BY <1>1, Zenon DEF GatherStep
  <2> HIDE DEF More
  <2>2. g[0] = b
    BY <1>2, <2>1
  <2>3. \A p \in 1 .. Size : g[p] = g[p - 1] \o More(p)
    <3> SUFFICES ASSUME NEW p \in 1 .. Size PROVE g[p] = g[p - 1] \o More(p)
      OBVIOUS
    <3>1. p \in 0 .. Size /\ p # 0
      BY <1>2
    <3>2. g[p] = IF p = 0 THEN b ELSE g[p - 1] \o More(p)
      BY <2>1, <3>1, Zenon
    <3> QED
      BY <3>1, <3>2
  <2> QED
    BY <2>2, <2>3 DEF More
<1>4. \A p \in W : p \in Nat /\ p > 0 /\ p <= Size
  BY Within
<1> DEFINE Done(p) == K \cup {q \in M : q <= p}
           Reached == {p \in Nat : p <= Size => Gathered(s, Done(p), g[p])}
<1>5. 0 \in Reached
  <2>1. Done(0) = K
    BY <1>4
  <2> QED
    BY <1>3, <2>1
<1>6. ASSUME NEW p \in Nat, p \in Reached, p + 1 <= Size
      PROVE  Gathered(s, Done(p + 1), g[p + 1])
  <2>1. Gathered(s, Done(p), g[p])
    BY <1>2, <1>6
  <2>2. p + 1 \in 1 .. Size /\ (p + 1) - 1 = p
    BY <1>2, <1>6
  <2>3. g[p + 1] = g[p] \o (IF p + 1 \in M THEN Copied(s, p + 1) ELSE <<>>)
    BY <1>3, <2>2
  <2>4. CASE p + 1 \in M
    <3>1. Done(p + 1) = Done(p) \cup {p + 1} /\ p + 1 \notin Done(p)
      BY <1>4, <2>4
    <3>2. Done(p) \in SUBSET W /\ p + 1 \in W \ Done(p)
          /\ \A q \in Done(p) \cup {p + 1} : Live(s, q)
      BY <2>4, <3>1
    <3> HIDE DEF Done
    <3>3. Gathered(s, Done(p) \cup {p + 1}, g[p] \o Copied(s, p + 1))
      BY <2>1, <3>2, GatherOne
    <3> QED
      BY <2>3, <2>4, <3>1, <3>3
  <2>5. CASE p + 1 \notin M
    <3>1. Done(p + 1) = Done(p)
      BY <1>4, <2>5
    <3>2. g[p] \in Seq(Cell)
      BY <2>1 DEF Gathered
    <3>3. g[p] \o <<>> = g[p]
      BY <3>2, ConcatEmptySeq
    <3> HIDE DEF Done
    <3> QED
      BY <2>1, <2>3, <2>5, <3>1, <3>3
  <2> QED
    BY <2>4, <2>5
<1>7. Gathered(s, Done(Size), g[Size])
  <2>1. \A p \in Nat : p \in Reached => p + 1 \in Reached
    BY <1>6
  <2> HIDE DEF Reached
  <2>2. Nat \subseteq Reached
    BY <1>5, <2>1, Induction
  <2> QED
    BY <1>2, <2>2 DEF Reached
<1>8. Done(Size) = K \cup M
  BY <1>4
<1> HIDE DEF Done
<1> QED
  BY <1>1, <1>7, <1>8

LEMMA GatherNone ==
  ASSUME NEW s
  PROVE  Gathered(s, {}, <<>>)
<1> DEFINE t == Fill(<<>>)
           b == <<>>
<1>1. b \in Seq(Cell) /\ Len(b) = 0
  OBVIOUS
<1>2. Cells(s, {}) = {}
  BY DEF Cells
<1>3. Cardinality({}) = 0
  BY FS_EmptySet
<1> HIDE DEF b
<1>4. Fill(b) \in Store /\ \A i \in Place : Fill(b)[i] = Erased
  <2>1. \A i \in Place : i \in Nat /\ i > 0
    BY Headers DEF Place
  <2> QED
    BY <1>1, <2>1, FillIs
<1>5. IsLog(Fill(b), {}, 1)
  BY <1>4, Headers DEF IsLog, IsHeader, Place
<1>6. Logged(Fill(b), {}, Len(b) + 1) /\ Free(Fill(b), Len(b) + 1)
  BY <1>1, <1>4, <1>5, Headers DEF Logged, Free, Place
<1>7. Gathered(s, {}, b)
  BY <1>1, <1>2, <1>3, <1>6 DEF Gathered
<1> QED
  BY <1>7 DEF b

(* What Reclaim keeps of a store when the variable at u is updated.         *)
Kept(s, u) ==
  LET added == Added(s) \ {u.curr}
      trans == InTransition(s) \ {u.curr, u.trans}
  IN  added \cup Promoted(s, added, trans)

LEMMA BufferIs ==
  ASSUME NEW s, NEW W, NEW e, Logged(s, W, e), NEW u
  PROVE  /\ Gathered(s, Kept(s, u), ValidBuffer(s, u))
         /\ \A p \in Kept(s, u) : p \in W /\ Live(s, p) /\ p # u.curr
                                  /\ (p = u.trans => s[p].state = VAR_ADDED)
<1> DEFINE added == Added(s) \ {u.curr}
           trans == InTransition(s) \ {u.curr, u.trans}
           more == Promoted(s, added, trans)
<1>1. Walk(s) = W
  BY LoggedIs
<1>2. /\ \A p \in added : p \in W /\ s[p].state = VAR_ADDED /\ p # u.curr
      /\ \A p \in more : p \in W /\ s[p].state = IN_TRANSITION /\ p # u.curr /\ p # u.trans
  BY <1>1 DEF Added, InTransition, Promoted
<1>3. VAR_ADDED # IN_TRANSITION
  BY DEF VAR_ADDED, IN_TRANSITION
<1>4. Kept(s, u) = added \cup more
  BY DEF Kept
<1>5. ValidBuffer(s, u) = Gather(s, more, Gather(s, added, <<>>))
  BY DEF ValidBuffer
<1> HIDE DEF added, trans, more
<1>6. added \in SUBSET W /\ more \in SUBSET W /\ added \cap more = {}
      /\ \A q \in added \cup more : Live(s, q)
  BY <1>2, <1>3 DEF Live
<1>7. Gathered(s, {} \cup added, Gather(s, added, <<>>))
  <2>1. {} \in SUBSET W /\ {} \cap added = {} /\ \A q \in {} \cup added : Live(s, q)
    BY <1>6
  <2>2. Gathered(s, {}, <<>>)
    BY GatherNone
  <2> QED
    BY ONLY <1>6, <2>1, <2>2, Logged(s, W, e), GatherAll
<1>8. {} \cup added = added
  OBVIOUS
<1>9. Gathered(s, added, Gather(s, added, <<>>))
  BY <1>7, <1>8
<1>10. Gathered(s, added \cup more, Gather(s, more, Gather(s, added, <<>>)))
  BY ONLY <1>6, <1>9, Logged(s, W, e), GatherAll
<1> QED
  BY <1>2, <1>4, <1>5, <1>6, <1>10

-----------------------------------------------------------------------------
(* What changes the value of a variable                                     *)

LEMMA CopiesIs ==
  ASSUME NEW s, NEW W, NEW e, Logged(s, W, e), NEW n
  PROVE  \A p : p \in Copies(s, n) <=> p \in W /\ s[p].name = n /\ Live(s, p)
<1>1. Walk(s) = W
  BY LoggedIs
<1> QED
  BY <1>1 DEF Copies, Live

(* Two stores with the same copies of n.                                    *)
LEMMA SameCopies ==
  ASSUME NEW s, NEW W, NEW e, Logged(s, W, e), NEW t, NEW V, NEW f, Logged(t, V, f),
         NEW n, Copies(t, n) = Copies(s, n),
         \A p \in Copies(s, n) : /\ t[p].state = s[p].state
                                 /\ \A v : Holds(s, p, v) <=> Holds(t, p, v)
  PROVE  FindVariable(t, n) = FindVariable(s, n) /\ Value(t, n) = Value(s, n)
<1>1. {p \in Copies(t, n) : t[p].state = VAR_ADDED} = {p \in Copies(s, n) : s[p].state = VAR_ADDED}
  OBVIOUS
<1>2. FindVariable(t, n) = FindVariable(s, n)
  BY <1>1 DEF FindVariable
<1>3. CASE Copies(s, n) = {}
  <2>1. Value(s, n) = None
    BY <1>3, ValueIs
  <2>2. Value(t, n) = None
    BY <1>3, ValueIs
  <2> QED
    BY <1>2, <2>1, <2>2
<1>4. CASE Copies(s, n) # {}
  <2>1. PICK v \in Values : Holds(s, FindVariable(s, n).curr, v) /\ Value(s, n) = v
    BY <1>4, ValueIs
  <2>2. FindVariable(s, n).curr \in Copies(s, n)
    BY <1>4, FindIs
  <2>3. Holds(t, FindVariable(t, n).curr, v)
    BY <1>2, <2>1, <2>2
  <2>4. Value(t, n) = v
    BY <1>4, <2>3, ValueFrom
  <2> QED
    BY <1>2, <2>1, <2>4
<1> QED
  BY <1>3, <1>4

(* Nothing live was written behind a log.                                   *)
LEMMA NothingLive ==
  ASSUME NEW s, NEW W, NEW e, Logged(s, W, e), NEW t \in Store,
         \A i \in 1 .. e - 1 : t[i] = s[i],
         NEW V, NEW f, Logged(t, V, f), W \subseteq V, \A p \in V : p \in W \/ ~Live(t, p),
         NEW n
  PROVE  Copies(t, n) = Copies(s, n) /\ Value(t, n) = Value(s, n)
         /\ FindVariable(t, n) = FindVariable(s, n)
<1>1. \A p \in W : /\ t[p] = s[p] /\ (Live(t, p) <=> Live(s, p))
                   /\ \A v : Live(s, p) => (Holds(s, p, v) <=> Holds(t, p, v))
  BY Prefix
<1>2. \A p : p \in Copies(s, n) <=> p \in W /\ s[p].name = n /\ Live(s, p)
  BY CopiesIs
<1>3. \A p : p \in Copies(t, n) <=> p \in V /\ t[p].name = n /\ Live(t, p)
  BY CopiesIs
<1>4. Copies(t, n) = Copies(s, n)
  BY <1>1, <1>2, <1>3
<1>5. \A p \in Copies(s, n) : /\ t[p].state = s[p].state
                              /\ \A v : Holds(s, p, v) <=> Holds(t, p, v)
  BY <1>1, <1>2
<1> QED
  BY <1>4, <1>5, SameCopies

(* The bits of the state byte of a copy of m say nothing about n.           *)
LEMMA OtherMarked ==
  ASSUME NEW s, NEW W, NEW e, Logged(s, W, e), NEW p \in W, Live(s, p),
         NEW bits \in SUBSET Bit, NEW t, t = ProgramState(s, p, bits),
         NEW n, s[p].name # n
  PROVE  Copies(t, n) = Copies(s, n) /\ Value(t, n) = Value(s, n)
         /\ FindVariable(t, n) = FindVariable(s, n)
<1>1. /\ Logged(t, W, e) /\ t[p].name = s[p].name
      /\ \A i \in Place : i # p => t[i] = s[i]
      /\ \A q \in W : \A v : Live(s, q) => (Holds(s, q, v) <=> Holds(t, q, v))
  BY Marked
<1>2. \A q \in W : q # p => t[q] = s[q]
  BY <1>1, Within
<1>3. \A q : q \in Copies(s, n) <=> q \in W /\ s[q].name = n /\ Live(s, q)
  BY CopiesIs
<1>4. \A q : q \in Copies(t, n) <=> q \in W /\ t[q].name = n /\ Live(t, q)
  BY <1>1, CopiesIs
<1>5. Copies(t, n) = Copies(s, n)
  <2>1. p \notin Copies(t, n) /\ p \notin Copies(s, n)
    BY <1>1, <1>3, <1>4
  <2>2. \A q \in W : q # p => (q \in Copies(t, n) <=> q \in Copies(s, n))
    BY <1>2, <1>3, <1>4 DEF Live
  <2> QED
    BY <1>3, <1>4, <2>1, <2>2
<1>6. \A q \in Copies(s, n) : /\ t[q].state = s[q].state
                              /\ \A v : Holds(s, q, v) <=> Holds(t, q, v)
  BY <1>1, <1>2, <1>3
<1>7. FindVariable(t, n) = FindVariable(s, n) /\ Value(t, n) = Value(s, n)
  BY <1>1, <1>5, <1>6, SameCopies
<1> QED
  BY <1>5, <1>7

(* MarkInTransition: the copy that a search finds is found again, if the search
   reports every copy.                                                      *)
LEMMA MarkedFound ==
  ASSUME NEW s, NEW W, NEW e, Logged(s, W, e), NEW n, Unreported(s, n) = {},
         FindVariable(s, n).curr # 0,
         NEW t, t = ProgramState(s, FindVariable(s, n).curr, {"transition"})
  PROVE  Copies(t, n) = Copies(s, n) /\ Value(t, n) = Value(s, n)
<1> DEFINE f == FindVariable(s, n)
           p == f.curr
           C == Copies(s, n)
<1>1. /\ p \in C /\ C \subseteq W /\ f.trans \in C \cup {0}
      /\ f.trans # 0 => f.trans < p /\ s[f.trans].state = IN_TRANSITION
      /\ AddedCopies(s, n) # {} => p \in AddedCopies(s, n)
      /\ \A q \in C : q \in 1 .. Size /\ Live(s, q) /\ s[q].name = n
  BY FindIs
<1>2. C \subseteq {p, f.trans}
  BY DEF Unreported
<1>3. {"transition"} \in SUBSET Bit
  BY DEF Bit
<1>4. /\ Logged(t, W, e) /\ t[p].name = s[p].name
      /\ t[p].state = s[p].state \cup {"transition"}
      /\ \A i \in Place : i # p => t[i] = s[i]
      /\ \A q \in W : \A v : Live(s, q) => (Holds(s, q, v) <=> Holds(t, q, v))
  BY <1>1, <1>3, Marked
<1> HIDE DEF f, p, C
<1>5. t[p].state = IN_TRANSITION
  BY <1>1, <1>4 DEF Live, VAR_ADDED, IN_TRANSITION
<1>6. \A q \in W : q # p => t[q] = s[q]
  BY <1>4, Within
<1>7. \A q : q \in C <=> q \in W /\ s[q].name = n /\ Live(s, q)
  BY CopiesIs DEF C
<1>8. \A q : q \in Copies(t, n) <=> q \in W /\ t[q].name = n /\ Live(t, q)
  BY <1>4, CopiesIs
<1>9. Copies(t, n) = C
  <2>1. p \in Copies(t, n) /\ p \in C
    BY <1>1, <1>4, <1>5, <1>7, <1>8 DEF Live
  <2>2. \A q \in W : q # p => (q \in Copies(t, n) <=> q \in C)
    BY <1>6, <1>7, <1>8 DEF Live
  <2> QED
    BY <1>7, <1>8, <2>1, <2>2
<1>10. \A q \in C : t[q].state = IN_TRANSITION
  BY <1>1, <1>2, <1>5, <1>6, Headers
<1>11. VAR_ADDED # IN_TRANSITION
  BY DEF VAR_ADDED, IN_TRANSITION
<1>12. AddedCopies(t, n) = {}
  BY <1>9, <1>10, <1>11 DEF AddedCopies
<1>13. FindVariable(t, n).curr \in C /\ \A q \in C : q <= FindVariable(t, n).curr
  BY <1>1, <1>4, <1>9, <1>12, FindIs
<1>14. FindVariable(t, n).curr = p
  BY <1>1, <1>2, <1>13, Headers
<1>15. PICK v \in Values : Holds(s, p, v) /\ Value(s, n) = v
  BY <1>1, ValueIs DEF C, p, f
<1>16. Holds(t, p, v)
  BY <1>1, <1>4, <1>15
<1>17. Value(t, n) = v
  BY <1>1, <1>4, <1>9, <1>14, <1>16, ValueFrom
<1> QED
  BY <1>9, <1>15, <1>17 DEF p, f, C

(* What a search finds in a buffer.                                         *)
Reports(s, K, t) ==
  /\ \A n : (\A p \in K : s[p].name # n) => Copies(t, n) = {}
  /\ \A n, v : /\ \E p \in K : s[p].name = n
               /\ \A p \in K : s[p].name = n => Holds(s, p, v)
               => Value(t, n) = v

LEMMA Collected ==
  ASSUME NEW s, NEW W, NEW e, Logged(s, W, e), NEW K \in SUBSET W,
         \A q \in K : Live(s, q), NEW b, Gathered(s, K, b)
  PROVE  /\ Logged(Fill(b), Walk(Fill(b)), Len(b) + 1) /\ Free(Fill(b), Len(b) + 1)
         /\ Len(b) \in Nat /\ Len(b) <= Size /\ b \in Seq(Cell)
         /\ Reports(s, K, Fill(b))
<1> DEFINE t == Fill(b)
<1>1. b \in Seq(Cell) /\ Len(b) = Cardinality(Cells(s, K)) /\ Free(t, Len(b) + 1)
  BY DEF Gathered
<1>2. PICK V : /\ Logged(t, V, Len(b) + 1)
               /\ \A q \in V : /\ t[q].state = VAR_ADDED
                               /\ \E p \in K : SameVariable(t, q, s, p)
               /\ \A p \in K : \E q \in V : SameVariable(t, q, s, p)
  BY DEF Gathered
<1> HIDE DEF t
<1>3. Walk(t) = V
  BY <1>2, LoggedIs
<1>4. Len(b) \in Nat /\ Len(b) <= Size
  BY <1>1, CellsFit
<1>5. \A n, p : p \in Copies(t, n) <=> p \in V /\ t[p].name = n /\ Live(t, p)
  BY <1>2, CopiesIs
<1>6. ASSUME NEW n, \A p \in K : s[p].name # n
      PROVE  Copies(t, n) = {}
  BY <1>2, <1>5, <1>6 DEF SameVariable
<1>7. ASSUME NEW n, NEW v, NEW p \in K, s[p].name = n,
             \A q \in K : s[q].name = n => Holds(s, q, v)
      PROVE  Value(t, n) = v
  <2>1. Copies(t, n) # {}
    <3>1. PICK q \in V : SameVariable(t, q, s, p)
      BY <1>2
    <3>2. q \in Copies(t, n)
      BY <1>2, <1>5, <1>7, <3>1 DEF SameVariable, Live
    <3> QED
      BY <3>2
  <2> DEFINE q == FindVariable(t, n).curr
  <2>2. q \in Copies(t, n)
    BY <1>2, <2>1, FindIs
  <2>3. PICK x \in K : SameVariable(t, q, s, x)
    BY <1>2, <1>5, <2>2
  <2>4. s[x].name = n
    BY <1>5, <2>2, <2>3 DEF SameVariable
  <2> HIDE DEF q
  <2>5. PICK w \in Values : Holds(t, q, w) /\ Holds(s, x, w)
    BY <2>3 DEF SameVariable
  <2>6. Holds(s, x, v) /\ x \in W
    BY <1>7, <2>4
  <2>7. w = v
    BY <2>5, <2>6, HoldsOne
  <2> QED
    BY <1>2, <2>1, <2>5, <2>7, ValueFrom DEF q
<1>8. \A n, v : /\ \E p \in K : s[p].name = n
                /\ \A p \in K : s[p].name = n => Holds(s, p, v)
                => Value(t, n) = v
  BY <1>7
<1> QED
  BY <1>1, <1>2, <1>3, <1>4, <1>6, <1>8 DEF t, Reports

(* Reclaim: a variable that is not being updated keeps its value, if a search
   reports all its copies.                                                  *)
LEMMA ReclaimKeeps ==
  ASSUME NEW s, NEW W, NEW e, Logged(s, W, e), NEW u, NEW n, Unreported(s, n) = {},
         u.curr \notin Copies(s, n), u.trans \notin Copies(s, n)
  PROVE  Value(Fill(ValidBuffer(s, u)), n) = Value(s, n)
<1> DEFINE K == Kept(s, u)
           C == Copies(s, n)
           f == FindVariable(s, n)
           b == ValidBuffer(s, u)
           added == Added(s) \ {u.curr}
           trans == InTransition(s) \ {u.curr, u.trans}
<1>1. /\ Gathered(s, K, b)
      /\ \A p \in K : p \in W /\ Live(s, p)
  BY BufferIs
<1>2. K \in SUBSET W /\ \A p \in K : Live(s, p)
  BY <1>1
<1>3. /\ C \subseteq {f.curr, f.trans}
      /\ f.curr \in C \cup {0} /\ f.trans \in C \cup {0}
      /\ f.curr = 0 <=> C = {}
      /\ AddedCopies(s, n) # {} => f.curr \in AddedCopies(s, n)
      /\ f.trans # 0 => f.curr \in AddedCopies(s, n)
                        /\ s[f.trans].state = IN_TRANSITION
      /\ \A p \in C : p \in 1 .. Size
  BY FindIs DEF Unreported
<1>4. \A p : p \in C <=> p \in W /\ s[p].name = n /\ Live(s, p)
  BY CopiesIs
<1>5. Walk(s) = W /\ VAR_ADDED # IN_TRANSITION
  BY LoggedIs DEF VAR_ADDED, IN_TRANSITION
<1>6. K = added \cup Promoted(s, added, trans)
  BY DEF Kept
<1>7. /\ \A p : p \in added <=> p \in W /\ s[p].state = VAR_ADDED /\ p # u.curr
      /\ \A p : p \in trans <=> p \in W /\ s[p].state = IN_TRANSITION /\ p # u.curr /\ p # u.trans
  BY <1>5 DEF Added, InTransition
<1>8. \A p : p \in Promoted(s, added, trans) <=>
               /\ p \in trans /\ \A q \in added : ~SameName(s, p, q)
               /\ \A q \in trans : q < p => ~SameName(s, p, q)
  BY DEF Promoted
<1>9. \A p \in C : (p \in AddedCopies(s, n) <=> s[p].state = VAR_ADDED)
                   /\ (s[p].state # VAR_ADDED => s[p].state = IN_TRANSITION)
  BY <1>4 DEF AddedCopies, Live
<1>10. AddedCopies(s, n) \subseteq C
  BY DEF AddedCopies
<1> HIDE DEF K, C, f, b, added, trans
<1>11. \A p \in K : s[p].name = n => p \in C
  BY <1>1, <1>4
<1>12. Reports(s, K, Fill(b)) /\ Logged(Fill(b), Walk(Fill(b)), Len(b) + 1)
  BY ONLY Logged(s, W, e), <1>1, <1>2, Collected
<1>13. CASE C = {}
  <2>1. \A p \in K : s[p].name # n
    BY <1>11, <1>13
  <2>2. Copies(Fill(b), n) = {} /\ Logged(Fill(b), Walk(Fill(b)), Len(b) + 1)
    BY <1>12, <2>1 DEF Reports
  <2>3. Value(Fill(b), n) = None
    BY <2>2, ValueIs
  <2>4. Value(s, n) = None
    BY <1>13, ValueIs DEF C
  <2> QED
    BY <2>3, <2>4 DEF b
<1>14. CASE C # {}
  <2>1. f.curr \in C /\ s[f.curr].name = n /\ f.curr # u.curr /\ f.curr # u.trans
    BY <1>3, <1>4, <1>14 DEF C
  <2>2. f.curr \in K
    <3>1. CASE s[f.curr].state = VAR_ADDED
      BY <1>4, <1>6, <1>7, <2>1, <3>1
    <3>2. CASE s[f.curr].state # VAR_ADDED
      <4>1. AddedCopies(s, n) = {} /\ f.trans = 0 /\ s[f.curr].state = IN_TRANSITION
        BY <1>3, <1>9, <2>1, <3>2
      <4>2. C = {f.curr}
        BY <1>3, <2>1, <4>1, Headers
      <4>3. f.curr \in trans
        BY <1>4, <1>7, <2>1, <4>1
      <4>4. \A q \in added : ~SameName(s, f.curr, q)
        <5> SUFFICES ASSUME NEW q \in added, s[f.curr].name = s[q].name PROVE FALSE
          BY DEF SameName
        <5>1. q \in C
          BY <1>4, <1>7, <2>1 DEF Live
        <5> QED
          BY <1>7, <1>9, <4>1, <5>1
      <4>5. \A q \in trans : q < f.curr => ~SameName(s, f.curr, q)
        <5> SUFFICES ASSUME NEW q \in trans, q < f.curr, s[f.curr].name = s[q].name PROVE FALSE
          BY DEF SameName
        <5>1. q \in C
          BY <1>4, <1>7, <2>1 DEF Live
        <5>2. q = f.curr /\ q \in 1 .. Size
          BY <1>3, <4>2, <5>1
        <5> QED
          BY <5>2, Headers
      <4> QED
        BY <1>6, <1>8, <4>3, <4>4, <4>5
    <3> QED
      BY <3>1, <3>2
  <2>3. PICK v \in Values : Holds(s, f.curr, v) /\ Value(s, n) = v
    BY <1>14, ValueIs DEF C, f
  <2>4. ASSUME NEW p \in K, s[p].name = n
        PROVE  p = f.curr
    <3> SUFFICES ASSUME p = f.trans, f.trans # 0 PROVE FALSE
      BY <1>3, <1>11, <2>4, Headers
    <3>1. f.curr \in AddedCopies(s, n) /\ s[p].state = IN_TRANSITION
      BY <1>3
    <3>2. f.curr \in added
      BY <1>4, <1>7, <1>9, <2>1, <3>1
    <3>3. p \in Promoted(s, added, trans)
      BY <1>5, <1>6, <1>7, <3>1
    <3> QED
      BY <1>8, <2>1, <2>4, <3>2, <3>3 DEF SameName
  <2>5. \A p \in K : s[p].name = n => Holds(s, p, v)
    BY <2>3, <2>4
  <2>6. \E p \in K : s[p].name = n
    BY <2>1, <2>2
  <2>7. Value(Fill(b), n) = v
    BY <1>12, <2>5, <2>6 DEF Reports
  <2> QED
    BY <2>3, <2>7 DEF b
<1> QED
  BY <1>13, <1>14

(* Reclaim with the new variable behind the others.                         *)
LEMMA WholeIs ==
  ASSUME NEW s, NEW W, NEW e, Logged(s, W, e), NEW K \in SUBSET W,
         \A q \in K : Live(s, q), NEW b, Gathered(s, K, b),
         NEW c, NEW n \in Names, NEW v \in Values, Extends(b, c, n, v), Len(c) <= Size
  PROVE  /\ Logged(Fill(c), Walk(Fill(c)), Len(c) + 1) /\ Free(Fill(c), Len(c) + 1)
         /\ Len(b) + 1 \in Copies(Fill(c), n) /\ Fill(c)[Len(b) + 1].state = VAR_ADDED
         /\ Holds(Fill(c), Len(b) + 1, v)
         /\ \A m : m # n => Value(Fill(c), m) = Value(Fill(b), m)
         /\ (\A p \in K : s[p].name # n) => Value(Fill(c), n) = v
<1> DEFINE o == Len(b) + 1
           t == Fill(c)
<1>1. /\ Logged(Fill(b), Walk(Fill(b)), o) /\ b \in Seq(Cell)
      /\ Reports(s, K, Fill(b))
  BY ONLY Logged(s, W, e), K \in SUBSET W, \A q \in K : Live(s, q), Gathered(s, K, b),
          Collected
<1> DEFINE V == Walk(Fill(b))
<1>2. /\ Logged(t, V \cup {o}, Len(c) + 1)
      /\ Free(t, Len(c) + 1)
      /\ t[o] = NewHeader(n, v, VAR_ADDED) /\ Holds(t, o, v)
      /\ \A p \in V : /\ t[p] = Fill(b)[p]
                      /\ \A w : Live(Fill(b), p) =>
                                  (Holds(Fill(b), p, w) <=> Holds(t, p, w))
      /\ o \notin V
  <2>1. Logged(Fill(b), V, Len(b) + 1) /\ b \in Seq(Cell)
    BY <1>1
  <2> HIDE DEF V
  <2> QED
    <3>1. n \in Names /\ v \in Values
      OBVIOUS
    <3>2. /\ Logged(Fill(c), V \cup {Len(b) + 1}, Len(c) + 1)
          /\ Free(Fill(c), Len(c) + 1)
          /\ Fill(c)[Len(b) + 1] = NewHeader(n, v, VAR_ADDED)
          /\ Holds(Fill(c), Len(b) + 1, v)
          /\ \A p \in V : /\ Fill(c)[p] = Fill(b)[p]
                          /\ \A w : Live(Fill(b), p) =>
                                      (Holds(Fill(b), p, w) <=> Holds(Fill(c), p, w))
          /\ Len(b) + 1 \notin V
      BY ONLY <2>1, <3>1, Extends(b, c, n, v), Len(c) <= Size, Filled
    <3> QED
      BY <3>2
<1> DEFINE r == Fill(b)
<1>3. Walk(t) = V \cup {o} /\ Logged(t, Walk(t), Len(c) + 1)
  BY <1>2, LoggedIs
<1> HIDE DEF V, r, o, t
<1>4. t[o].name = n /\ t[o].state = VAR_ADDED
  BY <1>2 DEF NewHeader
<1>5. \A m, p : p \in Copies(t, m) <=> p \in V \cup {o} /\ t[p].name = m /\ Live(t, p)
  BY <1>2, CopiesIs
<1>6. \A m, p : p \in Copies(r, m) <=> p \in V /\ r[p].name = m /\ Live(r, p)
  BY <1>1, CopiesIs DEF V, r
<1>7. o \in Copies(t, n)
  BY <1>4, <1>5 DEF Live
<1>8. ASSUME NEW m, m # n PROVE Value(t, m) = Value(r, m)
  <2>1. Copies(t, m) = Copies(r, m)
    <3>1. o \notin Copies(t, m) /\ o \notin Copies(r, m)
      BY <1>2, <1>4, <1>5, <1>6, <1>8
    <3>2. \A p \in V : p \in Copies(t, m) <=> p \in Copies(r, m)
      BY <1>2, <1>5, <1>6 DEF Live, r
    <3>3. \A p : p \in Copies(t, m) => p \in V \cup {o}
      BY <1>5
    <3>4. \A p : p \in Copies(r, m) => p \in V
      BY <1>6
    <3> QED
      BY ONLY <3>1, <3>2, <3>3, <3>4
  <2>2. \A p \in Copies(r, m) : /\ t[p].state = r[p].state
                                /\ \A w : Holds(r, p, w) <=> Holds(t, p, w)
    BY <1>2, <1>6 DEF r
  <2>3. Logged(r, V, o)
    BY <1>1 DEF r, V
  <2> QED
    BY <1>2, <2>1, <2>2, <2>3, SameCopies
<1>9. ASSUME \A p \in K : s[p].name # n
      PROVE  Value(t, n) = v
  <2>1. Copies(r, n) = {}
    BY <1>1, <1>9 DEF r, Reports
  <2>2. \A p \in V : p \in Copies(t, n) => p \in Copies(r, n)
    BY <1>2, <1>5, <1>6 DEF Live, r
  <2>3. Copies(t, n) = {o}
    BY <1>5, <1>7, <2>1, <2>2
  <2>4. FindVariable(t, n).curr = o
    BY <1>2, <2>3, FindIs
  <2> QED
    BY <1>2, <2>3, <2>4, ValueFrom
<1> QED
  BY <1>2, <1>3, <1>4, <1>7, <1>8, <1>9 DEF o, r, t

-----------------------------------------------------------------------------
(* The invariant, as long as no error has left the store in a state from which
   the code does not recover before the next power failure.                 *)

(* A log with nothing behind it.                                            *)
Steady(s, e) == Good(s) /\ EndOfWalk(s) = e /\ Free(s, e)

(* A store with a new variable on its way, up to the step pc.               *)
Begun(s, e, n, v, pc) ==
  [i \in Place |->
     IF i = e THEN NewHeader(n, v, IF pc = "valid" THEN {} ELSE VAR_HEADER_VALID_ONLY)
     ELSE IF pc = "added" /\ i \in e + 1 .. e + DataSize[v] THEN v ELSE s[i]]

Writing == op # None /\ op.pc \in {"valid", "data", "added"}

StoreKept ==
  /\ phase \in {"off", "read"} => op = None /\ Good(flash)
  /\ phase = "read" => cache = flash /\ lastOffset = EndOfWalk(flash)
  /\ phase \in {"boot", "runtime"} => Steady(cache, lastOffset)
  /\ phase \in {"boot", "runtime"} /\ ~Writing => flash = cache
  /\ phase \in {"boot", "runtime"} /\ Writing =>
       /\ flash = Begun(cache, lastOffset, op.name, op.value, op.pc)
       /\ lastOffset + DataSize[op.value] <= Size

(* An old copy is marked, or was never there.                               *)
Superseded(p) ==
  p # 0 => p \in Copies(cache, op.name) /\ cache[p].state = IN_TRANSITION

(* The new copy is in place.                                                *)
NewStored ==
  /\ op.value \in Values
  /\ NewCopy \in Copies(cache, op.name) /\ cache[NewCopy].state = VAR_ADDED
  /\ Holds(cache, NewCopy, op.value)
  /\ op.curr # NewCopy /\ op.trans # NewCopy
  /\ Superseded(op.curr)

(* The variable is being deleted.                                           *)
Deleting ==
  /\ op.curr = FindVariable(cache, op.name).curr
  /\ op.pc = "deleteTrans" => op.trans = FindVariable(cache, op.name).trans

CallKept ==
  /\ op.pc \in {"mark", "write", "valid", "data", "added"} => op.value \in Values
  /\ op.pc = "mark" => /\ op.curr = FindVariable(cache, op.name).curr
                       /\ op.trans = FindVariable(cache, op.name).trans
                       /\ op.curr # 0
  /\ op.pc \in {"write", "valid", "data", "added"} =>
       /\ Superseded(op.curr) /\ Superseded(op.trans)
       /\ op.trans # 0 => op.curr # op.trans
  /\ op.pc \in {"deleteTrans", "deleteCurr"} =>
       /\ op.curr \in Copies(cache, op.name) /\ op.curr # op.trans
       /\ IF op.value = None THEN Deleting ELSE NewStored
       /\ op.pc = "deleteTrans" => op.trans # 0 /\ Superseded(op.trans)
       /\ op.pc = "deleteCurr" => op.trans \notin Copies(cache, op.name)
  /\ op.pc = "done" => Orphan(op.name) \/ Value(flash, op.name) = op.value

StoreInv == TypeOK /\ StoreKept /\ (op # None => CallKept)
IInv == ~fault => StoreInv

-----------------------------------------------------------------------------
(* The steps of a call, on a store                                          *)

LEMMA SteadyIs ==
  ASSUME NEW s, NEW e, Steady(s, e)
  PROVE  /\ s \in Store /\ Logged(s, Walk(s), e) /\ Free(s, e)
         /\ e \in Nat /\ e > 0 /\ e <= Size + 1 /\ Size \in Nat /\ ~IsHeader(s, e)
<1>1. Logged(s, Walk(s), e) /\ Free(s, e)
  BY DEF Steady, Good
<1>2. s \in Store /\ ~IsHeader(s, e)
  BY <1>1 DEF Logged, IsLog
<1> QED
  BY <1>1, <1>2, Within

LEMMA SteadyFrom ==
  ASSUME NEW s, NEW W, NEW e, Logged(s, W, e), Free(s, e)
  PROVE  Steady(s, e)
BY LoggedIs DEF Steady

(* A bit of the state byte of a copy of n is programmed.                    *)
LEMMA SteadyMarked ==
  ASSUME NEW s, NEW e, Steady(s, e), NEW n, NEW p \in Copies(s, n),
         NEW bits \in SUBSET Bit, NEW t, t = ProgramState(s, p, bits)
  PROVE  /\ Steady(t, e) /\ Logged(t, Walk(s), e)
         /\ t[p].state = s[p].state \cup bits /\ t[p].name = n
         /\ \A q \in Walk(s) : q # p => t[q] = s[q]
         /\ \A q \in Walk(s) : \A v : Live(s, q) => (Holds(s, q, v) <=> Holds(t, q, v))
         /\ \A m : m # n => /\ Copies(t, m) = Copies(s, m) /\ Value(t, m) = Value(s, m)
                            /\ FindVariable(t, m) = FindVariable(s, m)
<1> DEFINE W == Walk(s)
<1>1. Logged(s, W, e) /\ Free(s, e)
  BY SteadyIs
<1>2. p \in W /\ Live(s, p) /\ s[p].name = n
  BY <1>1, CopiesIs
<1> HIDE DEF W
<1>3. /\ Logged(t, W, e)
      /\ t[p].state = s[p].state \cup bits /\ t[p].name = s[p].name
      /\ \A i \in Place : i # p => t[i] = s[i]
      /\ \A q \in W : \A v : Live(s, q) => (Holds(s, q, v) <=> Holds(t, q, v))
  BY <1>1, <1>2, Marked
<1>4. Free(t, e)
  <2> SUFFICES ASSUME NEW i \in e .. Size PROVE t[i] = Erased
    BY DEF Free
  <2>1. i \in Place /\ i # p /\ s[i] = Erased
    BY <1>1, <1>2, Within DEF Place, Free
  <2> QED
    BY <1>3, <2>1
<1>5. \A q \in W : q \in Place
  BY <1>1, Within
<1>6. Steady(t, e)
  BY <1>3, <1>4, SteadyFrom
<1>7. ASSUME NEW m, m # n
      PROVE  /\ Copies(t, m) = Copies(s, m) /\ Value(t, m) = Value(s, m)
             /\ FindVariable(t, m) = FindVariable(s, m)
  BY <1>1, <1>2, <1>7, OtherMarked
<1> QED
  BY <1>2, <1>3, <1>5, <1>6, <1>7 DEF W

LEMMA InTransitionIs ==
  ASSUME NEW s, NEW e, Steady(s, e), NEW n, NEW p \in Copies(s, n),
         NEW t, t = ProgramState(s, p, {"transition"})
  PROVE  /\ Copies(t, n) = Copies(s, n) /\ t[p].state = IN_TRANSITION
         /\ \A q \in Copies(s, n) : q # p => t[q].state = s[q].state
         /\ \A q \in Copies(s, n) : \A v : Holds(s, q, v) <=> Holds(t, q, v)
<1>1. {"transition"} \in SUBSET Bit
  BY DEF Bit
<1>2. /\ Logged(t, Walk(s), e)
      /\ t[p].state = s[p].state \cup {"transition"} /\ t[p].name = n
      /\ \A q \in Walk(s) : q # p => t[q] = s[q]
      /\ \A q \in Walk(s) : \A v : Live(s, q) => (Holds(s, q, v) <=> Holds(t, q, v))
  BY <1>1, SteadyMarked
<1>3. \A q : q \in Copies(s, n) <=> q \in Walk(s) /\ s[q].name = n /\ Live(s, q)
  BY DEF Copies, Live
<1>4. \A q : q \in Copies(t, n) <=> q \in Walk(s) /\ t[q].name = n /\ Live(t, q)
  BY <1>2, CopiesIs
<1>5. t[p].state = IN_TRANSITION
  BY <1>2, <1>3 DEF Live, VAR_ADDED, IN_TRANSITION
<1>6. \A q : q \in Copies(t, n) <=> q \in Copies(s, n)
  <2>1. p \in Copies(t, n)
    BY <1>2, <1>3, <1>4, <1>5 DEF Live
  <2>2. \A q \in Walk(s) : q # p => (q \in Copies(t, n) <=> q \in Copies(s, n))
    BY <1>2, <1>3, <1>4 DEF Live
  <2> QED
    BY <1>3, <1>4, <2>1, <2>2
<1> QED
  BY <1>2, <1>3, <1>5, <1>6

LEMMA DeletedIs ==
  ASSUME NEW s, NEW e, Steady(s, e), NEW n, NEW p \in Copies(s, n),
         NEW t, t = ProgramState(s, p, {"deleted"})
  PROVE  /\ Copies(t, n) = Copies(s, n) \ {p}
         /\ \A q \in Copies(t, n) : t[q] = s[q]
         /\ \A q \in Copies(s, n) : \A v : Holds(s, q, v) <=> Holds(t, q, v)
<1>1. {"deleted"} \in SUBSET Bit
  BY DEF Bit
<1>2. /\ Logged(t, Walk(s), e)
      /\ t[p].state = s[p].state \cup {"deleted"} /\ t[p].name = n
      /\ \A q \in Walk(s) : q # p => t[q] = s[q]
      /\ \A q \in Walk(s) : \A v : Live(s, q) => (Holds(s, q, v) <=> Holds(t, q, v))
  BY <1>1, SteadyMarked
<1>3. \A q : q \in Copies(s, n) <=> q \in Walk(s) /\ s[q].name = n /\ Live(s, q)
  BY DEF Copies, Live
<1>4. \A q : q \in Copies(t, n) <=> q \in Walk(s) /\ t[q].name = n /\ Live(t, q)
  BY <1>2, CopiesIs
<1>5. ~Live(t, p)
  BY <1>2 DEF Live, VAR_ADDED, IN_TRANSITION
<1>6. \A q : q \in Copies(t, n) <=> q \in Copies(s, n) \ {p}
  <2>1. p \notin Copies(t, n)
    BY <1>4, <1>5
  <2>2. \A q \in Walk(s) : q # p => (q \in Copies(t, n) <=> q \in Copies(s, n))
    BY <1>2, <1>3, <1>4 DEF Live
  <2> QED
    BY <1>3, <1>4, <2>1, <2>2
<1> QED
  BY <1>2, <1>3, <1>6

(* The value of a variable with one ADDED copy, at o.                       *)
LEMMA NewFound ==
  ASSUME NEW s, NEW W, NEW e, Logged(s, W, e), NEW n, NEW o \in Copies(s, n),
         s[o].state = VAR_ADDED, NEW v, Holds(s, o, v),
         \A p \in Copies(s, n) : p # o => s[p].state = IN_TRANSITION
  PROVE  Value(s, n) = v /\ FindVariable(s, n).curr = o
<1>1. VAR_ADDED # IN_TRANSITION
  BY DEF VAR_ADDED, IN_TRANSITION
<1>2. AddedCopies(s, n) = {o}
  BY <1>1 DEF AddedCopies
<1>3. FindVariable(s, n).curr = o
  BY <1>2, FindIs
<1> QED
  BY <1>3, ValueFrom

(* A header that is not ADDED behind a log, with its data or without.       *)
LEMMA HeaderBehind ==
  ASSUME NEW s, NEW e, Steady(s, e), NEW n \in Names, NEW v \in Values,
         e + DataSize[v] <= Size, NEW t \in Store,
         \A i \in 1 .. e - 1 : t[i] = s[i],
         \/ t[e] = NewHeader(n, v, {}) /\ \A i \in e + 1 .. Size : t[i] = Erased
         \/ /\ t[e] = NewHeader(n, v, VAR_HEADER_VALID_ONLY)
            /\ \A i \in e + 1 + DataSize[v] .. Size : t[i] = Erased
  PROVE  /\ Good(t) /\ t[e] # Erased
         /\ \A m : /\ Copies(t, m) = Copies(s, m) /\ Value(t, m) = Value(s, m)
                   /\ FindVariable(t, m) = FindVariable(s, m)
<1> DEFINE W == Walk(s)
           f == NextVariablePtr(t, e)
<1>1. Logged(s, W, e) /\ e \in Nat /\ e > 0 /\ Size \in Nat
  BY SteadyIs
<1>2. {} \in SUBSET Bit /\ VAR_HEADER_VALID_ONLY \in SUBSET Bit /\ VAR_HEADER_VALID_ONLY # {}
  BY DEF VAR_HEADER_VALID_ONLY, Bit
<1>3. DataSize[v] \in Nat /\ DataSize[v] > 0
  BY VariableAssumption
<1>4. /\ t[e] \in HeaderCell /\ t[e].size = DataSize[v]
      /\ t[e].state \in {{}, VAR_HEADER_VALID_ONLY}
      /\ t[e].state = {} => \A i \in e + 1 .. Size : t[i] = Erased
      /\ t[e].state # {} => \A i \in e + 1 + DataSize[v] .. Size : t[i] = Erased
  <2>1. CASE t[e] = NewHeader(n, v, {}) /\ \A i \in e + 1 .. Size : t[i] = Erased
    BY <1>2, <2>1, NewHeaderIs
  <2>2. CASE /\ t[e] = NewHeader(n, v, VAR_HEADER_VALID_ONLY)
             /\ \A i \in e + 1 + DataSize[v] .. Size : t[i] = Erased
    BY <1>2, <2>2, NewHeaderIs
  <2> QED
    BY <2>1, <2>2
<1>5. e \in Place
  BY <1>1, <1>3 DEF Place
<1>6. IsHeader(t, e) /\ t[e] # Erased
  BY <1>4, <1>5, Headers DEF IsHeader
<1>7. f \in Nat /\ f > e /\ f <= Size + 1 /\ \A i \in f .. Size : t[i] = Erased
  BY <1>1, <1>3, <1>4 DEF NextVariablePtr
<1>8. ~IsHeader(t, f)
  BY <1>7 DEF IsHeader, Place
<1>9. ~Live(t, e)
  BY <1>4 DEF Live, VAR_ADDED, IN_TRANSITION, VAR_HEADER_VALID_ONLY
<1> HIDE DEF W
<1>10. Logged(t, W \cup {e}, f)
  BY <1>1, <1>6, <1>7, <1>8, <1>9, Appended
<1>11. Good(t)
  BY <1>10, LoggedIs
<1>12. ASSUME NEW m
       PROVE  /\ Copies(t, m) = Copies(s, m) /\ Value(t, m) = Value(s, m)
              /\ FindVariable(t, m) = FindVariable(s, m)
  <2> HIDE DEF f
  <2> QED
    BY <1>1, <1>9, <1>10, NothingLive
<1> QED
  BY <1>6, <1>11, <1>12

LEMMA BegunIs ==
  ASSUME NEW s, NEW e, Steady(s, e), NEW n \in Names, NEW v \in Values,
         e + DataSize[v] <= Size, NEW pc \in {"valid", "data", "added"},
         NEW t, t = Begun(s, e, n, v, pc)
  PROVE  /\ t \in Store /\ Good(t) /\ t[e] # Erased
         /\ \A m : /\ Copies(t, m) = Copies(s, m) /\ Value(t, m) = Value(s, m)
                   /\ FindVariable(t, m) = FindVariable(s, m)
         /\ \A i \in 1 .. e - 1 : t[i] = s[i]
         /\ t[e] = NewHeader(n, v, IF pc = "valid" THEN {} ELSE VAR_HEADER_VALID_ONLY)
         /\ \A i \in e + 1 .. Size :
              t[i] = IF pc = "added" /\ i <= e + DataSize[v] THEN v ELSE Erased
<1>1. /\ s \in Store /\ e \in Nat /\ e > 0 /\ Size \in Nat
      /\ \A i \in e .. Size : s[i] = Erased
  BY SteadyIs DEF Free
<1>2. DataSize[v] \in Nat /\ DataSize[v] > 0
  BY VariableAssumption
<1> DEFINE h == NewHeader(n, v, IF pc = "valid" THEN {} ELSE VAR_HEADER_VALID_ONLY)
<1>3. h \in Cell
  <2>1. {} \in SUBSET Bit /\ VAR_HEADER_VALID_ONLY \in SUBSET Bit
    BY DEF VAR_HEADER_VALID_ONLY, Bit
  <2>2. NewHeader(n, v, {}) \in Cell /\ NewHeader(n, v, VAR_HEADER_VALID_ONLY) \in Cell
    BY <2>1, NewHeaderIs
  <2> QED
    BY <2>2
<1>4. t = [i \in Place |-> IF i = e THEN h
                           ELSE IF pc = "added" /\ i \in e + 1 .. e + DataSize[v] THEN v ELSE s[i]]
  BY DEF Begun
<1> HIDE DEF h
<1>5. t \in Store
  BY <1>1, <1>3, <1>4, Headers DEF Store
<1>6. \A i \in 1 .. e - 1 : t[i] = s[i]
  BY <1>1, <1>2, <1>4 DEF Place
<1>7. t[e] = h
  BY <1>1, <1>2, <1>4 DEF Place
<1>8. \A i \in e + 1 .. Size : t[i] = IF pc = "added" /\ i <= e + DataSize[v] THEN v ELSE Erased
  BY <1>1, <1>2, <1>4 DEF Place
<1>9. \/ t[e] = NewHeader(n, v, {}) /\ \A i \in e + 1 .. Size : t[i] = Erased
      \/ /\ t[e] = NewHeader(n, v, VAR_HEADER_VALID_ONLY)
         /\ \A i \in e + 1 + DataSize[v] .. Size : t[i] = Erased
  <2>1. CASE pc = "valid"
    <3>1. t[e] = NewHeader(n, v, {})
      BY <1>7, <2>1 DEF h
    <3>2. \A i \in e + 1 .. Size : t[i] = Erased
      BY <1>8, <2>1
    <3> QED
      BY <3>1, <3>2
  <2>2. CASE pc # "valid"
    <3>1. t[e] = NewHeader(n, v, VAR_HEADER_VALID_ONLY)
      BY <1>7, <2>2 DEF h
    <3>2. \A i \in e + 1 + DataSize[v] .. Size : t[i] = Erased
      BY <1>1, <1>2, <1>8
    <3> QED
      BY <3>1, <3>2
  <2> QED
    BY <2>1, <2>2
<1>10. /\ Good(t) /\ t[e] # Erased
       /\ \A m : /\ Copies(t, m) = Copies(s, m) /\ Value(t, m) = Value(s, m)
                 /\ FindVariable(t, m) = FindVariable(s, m)
  BY <1>5, <1>6, <1>9, HeaderBehind
<1> QED
  BY <1>5, <1>6, <1>7, <1>8, <1>10 DEF h

(* Programming what is erased.                                              *)
LEMMA ProgramErased ==
  ASSUME NEW s \in Store, NEW first \in Nat, NEW size \in Nat, NEW c,
         first > 0, first + size - 1 <= Size, \A i \in first .. first + size - 1 : s[i] = Erased,
         NEW t, t = ProgramRange(s, first, size, c)
  PROVE  /\ t = [i \in Place |-> IF i \in first .. first + size - 1 THEN c ELSE s[i]]
         /\ c \in Cell => t \in Store
<1>1. Program(Erased, c) = c
  <2>1. ASSUME c \in Header, NEW b \in SUBSET Bit, Erased = [c EXCEPT !.state = b]
        PROVE  FALSE
    <3>1. [c EXCEPT !.state = b] \in Header
      BY <2>1 DEF Header
    <3> QED
      BY <2>1, <3>1, CellAssumption
  <2>2. ~(c \in Header /\ Erased \in {[c EXCEPT !.state = b] : b \in SUBSET Bit})
    BY <2>1
  <2> QED
    BY <2>2 DEF Program
<1>2. \A i \in Place : i \in first .. first + size - 1 => Program(s[i], c) = c
  BY <1>1
<1>3. t = [i \in Place |-> IF i \in first .. first + size - 1 THEN c ELSE s[i]]
  BY <1>2 DEF ProgramRange
<1> QED
  BY <1>3 DEF Store

(* The store with the new variable, ADDED.                                  *)
Stored(s, e, n, v) ==
  [i \in Place |-> IF i = e THEN NewHeader(n, v, VAR_ADDED)
                   ELSE IF i \in e + 1 .. e + DataSize[v] THEN v ELSE s[i]]

LEMMA BitsAdded ==
  ASSUME NEW s \in Store, NEW p \in Place, NEW n \in Names, NEW v \in Values,
         NEW b \in SUBSET Bit, NEW c \in SUBSET Bit, s[p] = NewHeader(n, v, b),
         NEW t, t = ProgramState(s, p, c)
  PROVE  t = [i \in Place |-> IF i = p THEN NewHeader(n, v, b \cup c) ELSE s[i]]
<1> DEFINE h == s[p]
           g == [s[p] EXCEPT !.state = @ \cup c]
<1>1. h \in HeaderCell /\ h.name = n /\ h.size = DataSize[v] /\ h.state = b
  BY NewHeaderIs
<1>2. g \in HeaderCell /\ g.name = n /\ g.size = DataSize[v] /\ g.state = b \cup c
  BY <1>1 DEF HeaderCell
<1>3. IsHeader(s, p)
  BY <1>1, Headers DEF IsHeader
<1>4. t = [s EXCEPT ![p] = g]
  BY <1>3 DEF ProgramState
<1> HIDE DEF g
<1>5. g = [name |-> n, size |-> DataSize[v], state |-> b \cup c]
  BY <1>2 DEF HeaderCell
<1>6. g = NewHeader(n, v, b \cup c)
  BY <1>5 DEF NewHeader
<1> QED
  BY <1>4, <1>6 DEF Store

(* The four steps that write a new variable.                                *)
LEMMA FourSteps ==
  ASSUME NEW s, NEW e, Steady(s, e), NEW n \in Names, NEW v \in Values,
         e + DataSize[v] <= Size
  PROVE  /\ ProgramRange(s, e, 1, NewHeader(n, v, {})) = Begun(s, e, n, v, "valid")
         /\ ProgramState(Begun(s, e, n, v, "valid"), e, VAR_HEADER_VALID_ONLY)
              = Begun(s, e, n, v, "data")
         /\ ProgramRange(Begun(s, e, n, v, "data"), e + 1, DataSize[v], v)
              = Begun(s, e, n, v, "added")
         /\ ProgramState(Begun(s, e, n, v, "added"), e, VAR_ADDED) = Stored(s, e, n, v)
<1>1. /\ s \in Store /\ e \in Nat /\ e > 0 /\ Size \in Nat
      /\ \A i \in e .. Size : s[i] = Erased
  BY SteadyIs DEF Free
<1>2. DataSize[v] \in Nat /\ DataSize[v] > 0
  BY VariableAssumption
<1>3. e \in Place
  BY <1>1, <1>2 DEF Place
<1> DEFINE H(b) == NewHeader(n, v, b)
           B(pc) == Begun(s, e, n, v, pc)
<1>4. \A b \in SUBSET Bit : H(b) \in HeaderCell /\ H(b).state = b
  BY NewHeaderIs
<1>5. {} \in SUBSET Bit /\ VAR_HEADER_VALID_ONLY \in SUBSET Bit /\ VAR_ADDED \in SUBSET Bit
  BY DEF VAR_HEADER_VALID_ONLY, VAR_ADDED, Bit
<1>6. ASSUME NEW r \in Store, NEW b \in SUBSET Bit, NEW c \in SUBSET Bit, r[e] = H(b)
      PROVE  ProgramState(r, e, c) = [i \in Place |-> IF i = e THEN H(b \cup c) ELSE r[i]]
  BY <1>3, <1>6, BitsAdded
<1>7. /\ {} \cup VAR_HEADER_VALID_ONLY = VAR_HEADER_VALID_ONLY
      /\ VAR_HEADER_VALID_ONLY \cup VAR_ADDED = VAR_ADDED
  BY DEF VAR_HEADER_VALID_ONLY, VAR_ADDED
<1>8. /\ B("valid") = [i \in Place |-> IF i = e THEN H({}) ELSE s[i]]
      /\ B("data") = [i \in Place |-> IF i = e THEN H(VAR_HEADER_VALID_ONLY) ELSE s[i]]
      /\ B("added") = [i \in Place |-> IF i = e THEN H(VAR_HEADER_VALID_ONLY)
                                       ELSE IF i \in e + 1 .. e + DataSize[v] THEN v ELSE s[i]]
  BY DEF Begun
<1>9. Stored(s, e, n, v) = [i \in Place |-> IF i = e THEN H(VAR_ADDED)
                                            ELSE IF i \in e + 1 .. e + DataSize[v] THEN v ELSE s[i]]
  BY DEF Stored
<1>10. \A pc \in {"valid", "data", "added"} : B(pc) \in Store
  BY BegunIs
<1> HIDE DEF H, B
<1>11. ProgramRange(s, e, 1, H({})) = B("valid")
  <2> DEFINE z == 1
  <2>1. z \in Nat /\ \A i : i \in e .. e + z - 1 <=> i = e
    BY <1>1
  <2>2. e + z - 1 <= Size /\ \A i \in e .. e + z - 1 : s[i] = Erased
    BY <1>1, <1>2, <2>1
  <2> HIDE DEF z
  <2>3. ProgramRange(s, e, z, H({})) = [i \in Place |-> IF i \in e .. e + z - 1 THEN H({}) ELSE s[i]]
    BY <1>1, <2>1, <2>2, ProgramErased
  <2> QED
    BY <1>8, <2>1, <2>3 DEF z
<1>12. ProgramState(B("valid"), e, VAR_HEADER_VALID_ONLY) = B("data")
  <2>1. B("valid")[e] = H({})
    BY <1>3, <1>8
  <2>2. B("valid") \in Store
    BY <1>10
  <2>3. ProgramState(B("valid"), e, VAR_HEADER_VALID_ONLY)
          = [i \in Place |-> IF i = e THEN H({} \cup VAR_HEADER_VALID_ONLY) ELSE B("valid")[i]]
    BY <1>5, <1>6, <2>1, <2>2
  <2>4. ProgramState(B("valid"), e, VAR_HEADER_VALID_ONLY)
          = [i \in Place |-> IF i = e THEN H(VAR_HEADER_VALID_ONLY) ELSE B("valid")[i]]
    BY <1>7, <2>3
  <2> QED
    BY <1>3, <1>8, <2>4
<1>13. ProgramRange(B("data"), e + 1, DataSize[v], v) = B("added")
  <2>1. \A i \in e + 1 .. Size : B("data")[i] = Erased
    BY <1>1, <1>8 DEF Place
  <2> DEFINE f == e + 1
             z == DataSize[v]
  <2>2. /\ f \in Nat /\ f > 0 /\ z \in Nat /\ f + z - 1 <= Size
        /\ \A i \in f .. f + z - 1 : B("data")[i] = Erased
        /\ \A i : i \in f .. f + z - 1 <=> i \in e + 1 .. e + DataSize[v]
    BY <1>1, <1>2, <2>1
  <2>3. B("data") \in Store
    BY <1>10
  <2> HIDE DEF f, z
  <2>4. ProgramRange(B("data"), f, z, v)
          = [i \in Place |-> IF i \in f .. f + z - 1 THEN v ELSE B("data")[i]]
    BY <2>2, <2>3, ProgramErased
  <2>5. \A i \in Place : (IF i \in f .. f + z - 1 THEN v ELSE B("data")[i])
                           = IF i = e THEN H(VAR_HEADER_VALID_ONLY)
                             ELSE IF i \in e + 1 .. e + DataSize[v] THEN v ELSE s[i]
    BY <1>1, <1>8, <2>2
  <2> QED
    BY <1>8, <2>4, <2>5 DEF f, z
<1>14. ProgramState(B("added"), e, VAR_ADDED) = Stored(s, e, n, v)
  <2>1. B("added")[e] = H(VAR_HEADER_VALID_ONLY)
    BY <1>3, <1>8
  <2>2. B("added") \in Store
    BY <1>10
  <2>3. ProgramState(B("added"), e, VAR_ADDED)
          = [i \in Place |-> IF i = e THEN H(VAR_HEADER_VALID_ONLY \cup VAR_ADDED) ELSE B("added")[i]]
    BY <1>5, <1>6, <2>1, <2>2
  <2>4. ProgramState(B("added"), e, VAR_ADDED)
          = [i \in Place |-> IF i = e THEN H(VAR_ADDED) ELSE B("added")[i]]
    BY <1>7, <2>3
  <2> QED
    BY <1>3, <1>8, <1>9, <2>4
<1> QED
  BY <1>11, <1>12, <1>13, <1>14 DEF H, B

LEMMA StoredIs ==
  ASSUME NEW s, NEW e, Steady(s, e), NEW n \in Names, NEW v \in Values,
         e + DataSize[v] <= Size, NEW t, t = Stored(s, e, n, v)
  PROVE  /\ Steady(t, e + VarSize(v)) /\ t \in Store
         /\ Copies(t, n) = Copies(s, n) \cup {e} /\ e \notin Copies(s, n)
         /\ t[e].state = VAR_ADDED /\ Holds(t, e, v)
         /\ \A p \in Copies(s, n) : t[p] = s[p]
         /\ \A m : m # n => /\ Copies(t, m) = Copies(s, m) /\ Value(t, m) = Value(s, m)
                            /\ FindVariable(t, m) = FindVariable(s, m)
                            /\ \A p \in Copies(s, m) : \A w : Holds(s, p, w) <=> Holds(t, p, w)
<1> DEFINE W == Walk(s)
           f == e + VarSize(v)
           h == NewHeader(n, v, VAR_ADDED)
<1>1. /\ s \in Store /\ Logged(s, W, e) /\ e \in Nat /\ e > 0 /\ Size \in Nat
      /\ \A i \in e .. Size : s[i] = Erased
  BY SteadyIs DEF Free
<1>2. DataSize[v] \in Nat /\ DataSize[v] > 0 /\ f = e + 1 + DataSize[v]
  BY <1>1, VariableAssumption DEF VarSize
<1>3. VAR_ADDED \in SUBSET Bit /\ VAR_ADDED # {}
  BY DEF VAR_ADDED, Bit
<1>4. h \in HeaderCell /\ h \in Cell /\ h.name = n /\ h.size = DataSize[v] /\ h.state = VAR_ADDED
  BY <1>3, NewHeaderIs
<1>5. t = [i \in Place |-> IF i = e THEN h
                           ELSE IF i \in e + 1 .. e + DataSize[v] THEN v ELSE s[i]]
  BY DEF Stored
<1> HIDE DEF W, h, f
<1>6. t \in Store
  BY <1>1, <1>4, <1>5, Headers DEF Store
<1>7. \A i \in 1 .. e - 1 : t[i] = s[i]
  BY <1>1, <1>2, <1>5 DEF Place
<1>8. t[e] = h /\ e \in Place /\ \A i \in 1 .. DataSize[v] : t[e + i] = v
  BY <1>1, <1>2, <1>5 DEF Place
<1>9. \A i \in f .. Size : t[i] = Erased
  BY <1>1, <1>2, <1>5 DEF Place
<1>10. IsHeader(t, e) /\ Holds(t, e, v) /\ Live(t, e)
  BY <1>4, <1>8, Headers DEF IsHeader, Holds, Live
<1>11. NextVariablePtr(t, e) = f
  BY <1>1, <1>2, <1>3, <1>4, <1>8 DEF NextVariablePtr
<1>12. ~IsHeader(t, f) /\ f <= Size + 1
  BY <1>1, <1>2, <1>9 DEF IsHeader, Place
<1>13. Logged(t, W \cup {e}, f)
  BY <1>1, <1>6, <1>7, <1>10, <1>11, <1>12, Appended
<1>14. Steady(t, f)
  BY <1>9, <1>13, SteadyFrom DEF Free
<1>15. \A p \in W : /\ t[p] = s[p] /\ (Live(t, p) <=> Live(s, p))
                    /\ \A w : Live(s, p) => (Holds(s, p, w) <=> Holds(t, p, w))
  BY <1>1, <1>6, <1>7, Prefix
<1>16. \A m, p : p \in Copies(s, m) <=> p \in W /\ s[p].name = m /\ Live(s, p)
  BY <1>1, CopiesIs
<1>17. \A m, p : p \in Copies(t, m) <=> p \in W \cup {e} /\ t[p].name = m /\ Live(t, p)
  BY <1>13, CopiesIs
<1>18. e \notin W
  BY <1>1, Within
<1>19. \A p : p \in Copies(t, n) <=> p \in Copies(s, n) \cup {e}
  BY <1>4, <1>8, <1>10, <1>15, <1>16, <1>17
<1>20. ASSUME NEW m, m # n
       PROVE  /\ Copies(t, m) = Copies(s, m) /\ Value(t, m) = Value(s, m)
              /\ FindVariable(t, m) = FindVariable(s, m)
              /\ \A p \in Copies(s, m) : \A w : Holds(s, p, w) <=> Holds(t, p, w)
  <2>1. \A p : p \in Copies(t, m) <=> p \in Copies(s, m)
    BY <1>4, <1>8, <1>15, <1>16, <1>17, <1>20
  <2>2. Copies(t, m) = Copies(s, m)
    BY <2>1
  <2>3. \A p \in Copies(s, m) : /\ t[p].state = s[p].state
                                /\ \A w : Holds(s, p, w) <=> Holds(t, p, w)
    BY <1>15, <1>16
  <2> QED
    BY <1>1, <1>13, <2>2, <2>3, SameCopies
<1> QED
  BY <1>4, <1>6, <1>8, <1>10, <1>14, <1>15, <1>16, <1>18, <1>19, <1>20 DEF f

(* A write of the header, or of the data, that was stopped on the way.      *)
LEMMA TornIs ==
  ASSUME NEW s, NEW e, Steady(s, e), NEW n \in Names, NEW v \in Values,
         e + DataSize[v] <= Size,
         NEW t, \/ t = ProgramRange(s, e, 1, Torn)
                \/ t = ProgramRange(Begun(s, e, n, v, "data"), e + 1, DataSize[v], Torn)
  PROVE  /\ t \in Store /\ Good(t) /\ t[e] # Erased
         /\ \A m : /\ Copies(t, m) = Copies(s, m) /\ Value(t, m) = Value(s, m)
                   /\ FindVariable(t, m) = FindVariable(s, m)
<1>1. /\ s \in Store /\ e \in Nat /\ e > 0 /\ Size \in Nat /\ Logged(s, Walk(s), e)
      /\ \A i \in e .. Size : s[i] = Erased
  BY SteadyIs DEF Free
<1>2. DataSize[v] \in Nat /\ DataSize[v] > 0 /\ Torn \in Cell /\ Torn # Erased
  BY VariableAssumption, Headers
<1>3. CASE t = ProgramRange(s, e, 1, Torn)
  <2> DEFINE z == 1
             V == Walk(s)
  <2>1. z \in Nat /\ (\A i : i \in e .. e + z - 1 <=> i = e) /\ t = ProgramRange(s, e, z, Torn)
    BY <1>1, <1>3
  <2>2. e + z - 1 <= Size /\ \A i \in e .. e + z - 1 : s[i] = Erased
    BY <1>1, <1>2, <2>1
  <2> HIDE DEF z
  <2>3. /\ t = [i \in Place |-> IF i \in e .. e + z - 1 THEN Torn ELSE s[i]]
        /\ t \in Store
    BY <1>1, <1>2, <2>1, <2>2, ProgramErased
  <2>4. t[e] = Torn /\ \A i \in 1 .. e - 1 : t[i] = s[i]
    <3>1. e \in Place /\ \A i \in 1 .. e - 1 : i \in Place /\ i # e
      BY <1>1, <1>2 DEF Place
    <3>2. \A i \in Place : t[i] = IF i = e THEN Torn ELSE s[i]
      BY <2>1, <2>3
    <3> QED
      BY <3>1, <3>2
  <2>5. ~IsHeader(t, e)
    BY <2>4 DEF IsHeader
  <2>6. Logged(t, V, e) /\ Logged(s, V, e)
    BY <1>1, <2>3, <2>4, <2>5, Unwritten
  <2> HIDE DEF V
  <2>7. \A m : /\ Copies(t, m) = Copies(s, m) /\ Value(t, m) = Value(s, m)
               /\ FindVariable(t, m) = FindVariable(s, m)
    <3> SUFFICES ASSUME NEW m
                 PROVE  /\ Copies(t, m) = Copies(s, m) /\ Value(t, m) = Value(s, m)
                        /\ FindVariable(t, m) = FindVariable(s, m)
      OBVIOUS
    <3>1. /\ t \in Store /\ (\A i \in 1 .. e - 1 : t[i] = s[i])
          /\ V \subseteq V /\ \A p \in V : p \in V \/ ~Live(t, p)
      BY <2>3, <2>4
    <3> QED
      BY ONLY <3>1, <2>6, NothingLive
  <2> QED
    BY <1>2, <2>3, <2>4, <2>6, <2>7, LoggedIs
<1>4. CASE t = ProgramRange(Begun(s, e, n, v, "data"), e + 1, DataSize[v], Torn)
  <2> DEFINE r == Begun(s, e, n, v, "data")
             f == e + 1
             z == DataSize[v]
             pc == "data"
  <2>1. /\ r \in Store /\ \A i \in 1 .. e - 1 : r[i] = s[i]
        /\ r[e] = NewHeader(n, v, VAR_HEADER_VALID_ONLY)
        /\ \A i \in e + 1 .. Size : r[i] = Erased
    <3>1. pc \in {"valid", "data", "added"} /\ pc # "valid" /\ pc # "added"
      OBVIOUS
    <3>2. r = Begun(s, e, n, v, pc)
      OBVIOUS
    <3> HIDE DEF pc, r
    <3> QED
      BY <3>1, <3>2, BegunIs
  <2>2. /\ f \in Nat /\ f > 0 /\ z \in Nat /\ f + z - 1 <= Size
        /\ \A i \in f .. f + z - 1 : r[i] = Erased
    BY <1>1, <1>2, <2>1
  <2>3. t = ProgramRange(r, f, z, Torn)
    BY <1>4
  <2> HIDE DEF r, f, z
  <2>4. t = [i \in Place |-> IF i \in f .. f + z - 1 THEN Torn ELSE r[i]] /\ t \in Store
    BY <1>2, <2>1, <2>2, <2>3, ProgramErased
  <2>5. /\ \A i \in 1 .. e - 1 : t[i] = s[i]
        /\ t[e] = NewHeader(n, v, VAR_HEADER_VALID_ONLY)
        /\ \A i \in e + 1 + DataSize[v] .. Size : t[i] = Erased
    BY <1>1, <1>2, <2>1, <2>4 DEF f, z, Place
  <2> QED
    BY <2>4, <2>5, HeaderBehind
<1> QED
  BY <1>3, <1>4

(* Reclaim without a new variable.                                          *)
LEMMA ReclaimIs ==
  ASSUME NEW s, NEW W, NEW e, Logged(s, W, e), NEW u, NEW b, b = ValidBuffer(s, u)
  PROVE  /\ Steady(Fill(b), Len(b) + 1) /\ Fill(b) \in Store
         /\ Len(b) \in Nat /\ Len(b) <= Size /\ b \in Seq(Cell)
         /\ \A n : /\ Unreported(s, n) = {} /\ u.curr \notin Copies(s, n)
                   /\ u.trans \notin Copies(s, n)
                   => Value(Fill(b), n) = Value(s, n)
<1> DEFINE K == Kept(s, u)
<1>1. /\ Gathered(s, K, b)
      /\ \A p \in K : p \in W /\ Live(s, p)
  BY BufferIs
<1>2. K \in SUBSET W /\ \A p \in K : Live(s, p)
  BY <1>1
<1> HIDE DEF K
<1>3. /\ Logged(Fill(b), Walk(Fill(b)), Len(b) + 1) /\ Free(Fill(b), Len(b) + 1)
      /\ Len(b) \in Nat /\ Len(b) <= Size /\ b \in Seq(Cell)
  BY ONLY Logged(s, W, e), <1>1, <1>2, Collected
<1>4. Steady(Fill(b), Len(b) + 1)
  BY <1>3, SteadyFrom
<1>5. Fill(b) \in Store
  BY <1>3, FillIs
<1>6. \A n : /\ Unreported(s, n) = {} /\ u.curr \notin Copies(s, n)
             /\ u.trans \notin Copies(s, n)
             => Value(Fill(b), n) = Value(s, n)
  BY ReclaimKeeps
<1> QED
  BY <1>3, <1>4, <1>5, <1>6

(* Variables other than n keep their values from s to t, if a search reports
   all their copies.                                                        *)
Spared(s, t, u, n) ==
  \A m : /\ Unreported(s, m) = {} /\ u.curr \notin Copies(s, m)
         /\ u.trans \notin Copies(s, m) /\ m # n
         => Value(t, m) = Value(s, m)

(* Reclaim with the new variable.                                           *)
Whole(b, n, v) ==
  b \o <<NewHeader(n, v, VAR_ADDED)>> \o [i \in 1 .. DataSize[v] |-> v]

LEMMA ReclaimWith ==
  ASSUME NEW s, NEW W, NEW e, Logged(s, W, e), NEW u, NEW b, b = ValidBuffer(s, u),
         NEW n \in Names, NEW v \in Values,
         NEW c, c = Whole(b, n, v)
  PROVE  /\ Len(c) = Len(b) + VarSize(v) /\ Len(c) \in Nat
         /\ Len(c) <= Size =>
              /\ Steady(Fill(c), Len(c) + 1) /\ Fill(c) \in Store
              /\ Len(b) + 1 \in Copies(Fill(c), n)
              /\ Fill(c)[Len(b) + 1].state = VAR_ADDED
              /\ Holds(Fill(c), Len(b) + 1, v)
              /\ Spared(s, Fill(c), u, n)
              /\ /\ Copies(s, n) \subseteq {u.curr, u.trans}
                 /\ u.trans \in Copies(s, n) => s[u.trans].state # VAR_ADDED
                 => Value(Fill(c), n) = v
<1> DEFINE K == Kept(s, u)
           h == NewHeader(n, v, VAR_ADDED)
           d == [i \in 1 .. DataSize[v] |-> v]
<1>1. /\ Gathered(s, K, b)
      /\ \A p \in K : p \in W /\ Live(s, p) /\ p # u.curr
                      /\ (p = u.trans => s[p].state = VAR_ADDED)
  BY BufferIs
<1>2. K \in SUBSET W /\ \A p \in K : Live(s, p)
  BY <1>1
<1>3. Len(b) \in Nat /\ b \in Seq(Cell)
  BY ReclaimIs
<1>4. DataSize[v] \in Nat /\ DataSize[v] > 0
  BY VariableAssumption
<1>5. VAR_ADDED \in SUBSET Bit
  BY DEF VAR_ADDED, Bit
<1>6. h \in Cell /\ v \in Cell
  BY <1>5, NewHeaderIs, Headers
<1> HIDE DEF K, h
<1>7. <<h>> \in Seq(Cell) /\ Len(<<h>>) = 1 /\ <<h>>[1] = h
  BY <1>6
<1>8. d \in Seq(Cell) /\ Len(d) = DataSize[v] /\ \A i \in 1 .. DataSize[v] : d[i] = v
  <2> DEFINE z == DataSize[v]
  <2>1. z \in Nat /\ d = [i \in 1 .. z |-> v]
    BY <1>4
  <2> HIDE DEF z, d
  <2>2. d \in Seq(Cell) /\ Len(d) = z /\ \A i \in 1 .. z : d[i] = v
    BY <1>6, <2>1
  <2> QED
    BY <2>2 DEF z
<1> HIDE DEF d
<1> DEFINE x == b \o <<h>>
<1>9. /\ x \in Seq(Cell) /\ Len(x) = Len(b) + 1 /\ x[Len(b) + 1] = h
      /\ \A i \in 1 .. Len(b) : x[i] = b[i]
  BY <1>3, <1>7
<1>10. c = x \o d
  BY DEF Whole, h, d
<1> HIDE DEF x
<1>11. /\ c \in Seq(Cell) /\ Len(c) = Len(x) + Len(d)
       /\ \A i \in 1 .. Len(x) : c[i] = x[i]
       /\ \A i \in 1 .. Len(d) : c[Len(x) + i] = d[i]
  <2>1. Len(x) \in Nat /\ Len(d) \in Nat
    BY <1>3, <1>4, <1>8, <1>9
  <2>2. /\ c \in Seq(Cell) /\ Len(c) = Len(x) + Len(d)
        /\ \A i \in 1 .. Len(x) + Len(d) : c[i] = IF i <= Len(x) THEN x[i] ELSE d[i - Len(x)]
    <3>1. x \in Seq(Cell) /\ d \in Seq(Cell)
      BY <1>8, <1>9
    <3>2. /\ x \o d \in Seq(Cell) /\ Len(x \o d) = Len(x) + Len(d)
          /\ \A i \in 1 .. Len(x) + Len(d) :
               (x \o d)[i] = IF i <= Len(x) THEN x[i] ELSE d[i - Len(x)]
      BY ONLY <3>1, ConcatProperties
    <3> QED
      BY <1>10, <3>2
  <2>3. ASSUME NEW i \in 1 .. Len(x) PROVE c[i] = x[i]
    <3>1. i \in 1 .. Len(x) + Len(d) /\ i <= Len(x)
      BY <2>1
    <3> QED
      BY <2>2, <3>1
  <2>4. ASSUME NEW i \in 1 .. Len(d) PROVE c[Len(x) + i] = d[i]
    <3>1. /\ Len(x) + i \in 1 .. Len(x) + Len(d) /\ ~(Len(x) + i <= Len(x))
          /\ (Len(x) + i) - Len(x) = i
      BY <2>1
    <3> QED
      BY <2>2, <3>1
  <2> QED
    BY <2>2, <2>3, <2>4
<1>12. Extends(b, c, n, v)
  <2>1. Len(c) = Len(b) + VarSize(v)
    <3>1. Len(c) = Len(x) + Len(d) /\ Len(x) = Len(b) + 1 /\ Len(d) = DataSize[v]
      BY <1>8, <1>9, <1>11
    <3> QED
      BY ONLY <1>3, <1>4, <3>1 DEF VarSize
  <2>2. \A i \in 1 .. Len(b) : c[i] = b[i]
    BY <1>3, <1>9, <1>11
  <2>3. c[Len(b) + 1] = h
    BY <1>3, <1>9, <1>11
  <2>4. \A i \in 1 .. DataSize[v] : c[Len(b) + 1 + i] = v
    BY <1>8, <1>9, <1>11
  <2> QED
    BY <1>11, <2>1, <2>2, <2>3, <2>4 DEF Extends, h
<1>13. Len(c) = Len(b) + VarSize(v) /\ Len(c) \in Nat
  BY <1>3, <1>4, <1>12 DEF Extends, VarSize
<1>14. ASSUME Len(c) <= Size
       PROVE  /\ Steady(Fill(c), Len(c) + 1) /\ Fill(c) \in Store
              /\ Len(b) + 1 \in Copies(Fill(c), n)
              /\ Fill(c)[Len(b) + 1].state = VAR_ADDED
              /\ Holds(Fill(c), Len(b) + 1, v)
              /\ \A m : m # n => Value(Fill(c), m) = Value(Fill(b), m)
              /\ (\A p \in K : s[p].name # n) => Value(Fill(c), n) = v
  <2>1. n \in Names /\ v \in Values
    OBVIOUS
  <2>2. /\ Logged(Fill(c), Walk(Fill(c)), Len(c) + 1) /\ Free(Fill(c), Len(c) + 1)
        /\ Len(b) + 1 \in Copies(Fill(c), n) /\ Fill(c)[Len(b) + 1].state = VAR_ADDED
        /\ Holds(Fill(c), Len(b) + 1, v)
        /\ \A m : m # n => Value(Fill(c), m) = Value(Fill(b), m)
        /\ (\A p \in K : s[p].name # n) => Value(Fill(c), n) = v
    BY ONLY Logged(s, W, e), <1>1, <1>2, <1>12, <1>14, <2>1, WholeIs
  <2>3. Steady(Fill(c), Len(c) + 1)
    BY <2>2, SteadyFrom
  <2>4. Fill(c) \in Store
    BY <1>11, FillIs
  <2> QED
    BY <2>2, <2>3, <2>4
<1>15. \A m : /\ Unreported(s, m) = {} /\ u.curr \notin Copies(s, m)
              /\ u.trans \notin Copies(s, m)
              => Value(Fill(b), m) = Value(s, m)
  BY ReclaimKeeps
<1>16. ASSUME Copies(s, n) \subseteq {u.curr, u.trans},
              u.trans \in Copies(s, n) => s[u.trans].state # VAR_ADDED
       PROVE  \A p \in K : s[p].name # n
  <2>1. \A p : p \in Copies(s, n) <=> p \in W /\ s[p].name = n /\ Live(s, p)
    BY CopiesIs
  <2> QED
    BY <1>1, <1>16, <2>1
<1> QED
  BY <1>13, <1>14, <1>15, <1>16 DEF Spared

-----------------------------------------------------------------------------
(* Every step keeps the invariant                                           *)

(* What a step may do to the values in flash.                               *)
Change ==
  \A n \in Names : Value(flash', n) # Value(flash, n) /\ ~Orphan(n) =>
                     op # None /\ op.name = n /\ Value(flash', n) = op.value

Pc == {"mark", "write", "valid", "data", "added", "deleteTrans", "deleteCurr", "done"}

LEMMA InCall ==
  ASSUME StoreInv, op # None
  PROVE  /\ op \in Op /\ op.name \in Names /\ op.value \in Values \cup {None}
         /\ op.curr \in 0 .. Size /\ op.trans \in 0 .. Size /\ op.pc \in Pc
         /\ phase \in {"boot", "runtime"} /\ Steady(cache, lastOffset) /\ CallKept
         /\ flash \in Store /\ cache \in Store /\ lastOffset \in 1 .. Size + 1
         /\ op.pc \notin {"valid", "data", "added"} => flash = cache
         /\ op.pc \in {"valid", "data", "added"} =>
              /\ flash = Begun(cache, lastOffset, op.name, op.value, op.pc)
              /\ lastOffset + DataSize[op.value] <= Size
<1>1. op \in Op /\ CallKept /\ TypeOK /\ StoreKept
  BY DEF StoreInv, TypeOK
<1>2. phase \in {"boot", "runtime"}
  BY <1>1 DEF TypeOK, StoreKept
<1> QED
  BY <1>1, <1>2 DEF TypeOK, StoreKept, Writing, Op, Pc

LEMMA OutOfCall ==
  ASSUME StoreInv, op = None, phase \in {"boot", "runtime"}
  PROVE  flash = cache /\ Steady(cache, lastOffset) /\ flash \in Store
         /\ lastOffset \in 1 .. Size + 1
BY DEF StoreInv, StoreKept, Writing, TypeOK

LEMMA NextPc ==
  ASSUME op \in Op, NEW pc \in Pc, op' = [op EXCEPT !.pc = pc]
  PROVE  /\ op' \in Op /\ op' # None /\ op'.pc = pc
         /\ op'.name = op.name /\ op'.value = op.value
         /\ op'.curr = op.curr /\ op'.trans = op.trans
<1>1. op' \in Op
  BY DEF Op, Pc
<1> QED
  BY <1>1, CellAssumption DEF Op

(* The search in a steady store.                                            *)
LEMMA Search ==
  ASSUME NEW s, NEW e, Steady(s, e), NEW n, NEW f, f = FindVariable(s, n)
  PROVE  /\ f.curr \in 0 .. Size /\ f.trans \in 0 .. Size
         /\ f.curr # 0 => f.curr \in Copies(s, n)
         /\ f.curr = 0 => f.trans = 0 /\ Copies(s, n) = {} /\ Value(s, n) = None
         /\ f.trans # 0 => /\ f.trans \in Copies(s, n) /\ f.trans < f.curr
                           /\ f.curr \in AddedCopies(s, n)
                           /\ s[f.trans].state = IN_TRANSITION
         /\ \A p \in Copies(s, n) : p \in 1 .. Size
         /\ AddedCopies(s, n) # {} => f.curr \in AddedCopies(s, n)
         /\ AddedCopies(s, n) = {} => \A p \in Copies(s, n) : p <= f.curr
<1>1. Logged(s, Walk(s), e)
  BY SteadyIs
<1>2. /\ f.curr \in Copies(s, n) \cup {0} /\ f.trans \in Copies(s, n) \cup {0}
      /\ f.curr = 0 <=> Copies(s, n) = {}
      /\ AddedCopies(s, n) # {} => f.curr \in AddedCopies(s, n)
      /\ f.trans # 0 => f.curr \in AddedCopies(s, n) /\ f.trans < f.curr
                        /\ s[f.trans].state = IN_TRANSITION
      /\ AddedCopies(s, n) = {} => \A p \in Copies(s, n) : p <= f.curr
      /\ \A p \in Copies(s, n) : p \in 1 .. Size
  BY <1>1, FindIs
<1>3. Copies(s, n) = {} => Value(s, n) = None
  BY <1>1, ValueIs
<1>4. AddedCopies(s, n) \subseteq Copies(s, n)
  BY DEF AddedCopies
<1> QED
  BY <1>2, <1>3, <1>4, Headers

LEMMA SetVariableStep ==
  ASSUME StoreInv, NEW n \in Names, NEW v \in Values \cup {None}, SetVariable(n, v)
  PROVE  StoreInv' /\ Change
<1> DEFINE f == FindVariable(cache, n)
           pc == CASE v = None                                -> RemoveOld(f)
                   [] v # None /\ v = Value(cache, n)         -> "done"
                   [] v # None /\ v # Value(cache, n) /\ f.curr # 0 -> "mark"
                   [] v # None /\ f.curr = 0                  -> "write"
<1>1. /\ phase \in {"boot", "runtime"} /\ op = None /\ calls < MaxCalls
      /\ v = None => f.curr # 0
      /\ op' = [name |-> n, value |-> v, curr |-> f.curr, trans |-> f.trans, pc |-> pc]
      /\ calls' = calls + 1
      /\ flash' = flash /\ cache' = cache /\ lastOffset' = lastOffset /\ phase' = phase
      /\ reclaimed' = reclaimed /\ fault' = fault /\ failures' = failures
  BY DEF SetVariable
<1>2. flash = cache /\ Steady(cache, lastOffset)
  BY <1>1, OutOfCall
<1>3. /\ f.curr \in 0 .. Size /\ f.trans \in 0 .. Size
      /\ f.curr # 0 => f.curr \in Copies(cache, n)
      /\ f.curr = 0 => f.trans = 0 /\ Copies(cache, n) = {} /\ Value(cache, n) = None
      /\ f.trans # 0 => /\ f.trans \in Copies(cache, n) /\ f.trans < f.curr
                        /\ cache[f.trans].state = IN_TRANSITION
      /\ \A p \in Copies(cache, n) : p \in 1 .. Size
  BY <1>2, Search
<1> HIDE DEF f
<1>4. /\ v = None /\ f.trans # 0 => pc = "deleteTrans"
      /\ v = None /\ f.trans = 0 => pc = "deleteCurr"
      /\ v # None /\ v = Value(cache, n) => pc = "done"
      /\ v # None /\ v # Value(cache, n) /\ f.curr # 0 => pc = "mark"
      /\ v # None /\ v # Value(cache, n) /\ f.curr = 0 => pc = "write"
  BY <1>1, <1>3 DEF RemoveOld
<1> HIDE DEF pc
<1>5. pc \in Pc /\ pc \notin {"valid", "data", "added"}
  BY <1>4 DEF Pc
<1>6. /\ op' \in Op /\ op' # None /\ op'.name = n /\ op'.value = v
      /\ op'.curr = f.curr /\ op'.trans = f.trans /\ op'.pc = pc
  BY <1>1, <1>3, <1>5, CellAssumption DEF Op, Pc
<1>7. TypeOK'
  <2>1. calls' \in 0 .. MaxCalls
    BY <1>1, VariableAssumption DEF StoreInv, TypeOK
  <2> QED
    BY <1>1, <1>6, <2>1 DEF StoreInv, TypeOK
<1>8. StoreKept'
  BY <1>1, <1>2, <1>5, <1>6 DEF StoreKept, Writing
<1>9. CallKept'
  <2>1. CASE v = None /\ f.trans # 0
    <3>1. pc = "deleteTrans"
      BY <1>4, <2>1
    <3>2. /\ op'.curr \in Copies(cache', op'.name) /\ op'.curr # op'.trans
          /\ op'.trans \in Copies(cache', op'.name) /\ cache'[op'.trans].state = IN_TRANSITION
          /\ op'.curr = FindVariable(cache', op'.name).curr
          /\ op'.trans = FindVariable(cache', op'.name).trans
      BY <1>1, <1>3, <1>6, <2>1 DEF f
    <3> QED
      BY <1>6, <2>1, <3>1, <3>2 DEF CallKept, Deleting, Superseded
  <2>2. CASE v = None /\ f.trans = 0
    <3>1. pc = "deleteCurr"
      BY <1>4, <2>2
    <3>2. /\ op'.curr \in Copies(cache', op'.name) /\ op'.curr # op'.trans
          /\ op'.trans \notin Copies(cache', op'.name)
          /\ op'.curr = FindVariable(cache', op'.name).curr
      BY <1>1, <1>3, <1>6, <2>2 DEF f
    <3> QED
      BY <1>6, <2>2, <3>1, <3>2 DEF CallKept, Deleting
  <2>3. CASE v # None /\ v = Value(cache, n)
    <3>1. pc = "done" /\ Value(flash', op'.name) = op'.value
      BY <1>1, <1>2, <1>4, <1>6, <2>3
    <3> QED
      BY <1>6, <3>1 DEF CallKept
  <2>4. CASE v # None /\ v # Value(cache, n) /\ f.curr # 0
    <3>1. pc = "mark" /\ op'.value \in Values
      BY <1>4, <1>6, <2>4
    <3>2. /\ op'.curr = FindVariable(cache', op'.name).curr
          /\ op'.trans = FindVariable(cache', op'.name).trans
          /\ op'.curr # 0
      BY <1>1, <1>6, <2>4 DEF f
    <3> QED
      BY <1>6, <3>1, <3>2 DEF CallKept
  <2>5. CASE v # None /\ v # Value(cache, n) /\ f.curr = 0
    <3>1. pc = "write" /\ op'.value \in Values /\ op'.curr = 0 /\ op'.trans = 0
      BY <1>3, <1>4, <1>6, <2>5
    <3> QED
      BY <1>6, <3>1 DEF CallKept, Superseded
  <2> QED
    BY <2>1, <2>2, <2>3, <2>4, <2>5
<1>10. Change
  BY <1>1 DEF Change
<1> QED
  BY <1>7, <1>8, <1>9, <1>10 DEF StoreInv

(* A state byte programmed in flash and in the copy in memory.              *)
LEMMA UpdateStateStep ==
  ASSUME StoreInv, op # None, op.pc \notin {"valid", "data", "added"},
         NEW p \in Copies(cache, op.name), NEW bit \in Bit, UpdateState(p, bit),
         NEW pc \in Pc, pc \notin {"valid", "data", "added"}, Continue(pc)
  PROVE  /\ TypeOK' /\ StoreKept'
         /\ flash' = cache' /\ cache' = ProgramState(cache, p, {bit})
         /\ Steady(cache, lastOffset) /\ Steady(cache', lastOffset) /\ lastOffset' = lastOffset
         /\ op' \in Op /\ op' # None /\ op'.pc = pc
         /\ op'.name = op.name /\ op'.value = op.value
         /\ op'.curr = op.curr /\ op'.trans = op.trans
         /\ \A m : m # op.name => Value(flash', m) = Value(flash, m)
<1>1. /\ op \in Op /\ phase \in {"boot", "runtime"} /\ Steady(cache, lastOffset)
      /\ flash = cache
  BY InCall
<1>2. /\ flash' = ProgramState(flash, p, {bit}) /\ cache' = ProgramState(cache, p, {bit})
      /\ lastOffset' = lastOffset /\ phase' = phase /\ reclaimed' = reclaimed
      /\ fault' = fault /\ calls' = calls /\ failures' = failures
  BY DEF UpdateState
<1>3. /\ op' \in Op /\ op' # None /\ op'.pc = pc
      /\ op'.name = op.name /\ op'.value = op.value
      /\ op'.curr = op.curr /\ op'.trans = op.trans
  BY <1>1, NextPc DEF Continue
<1>4. /\ Steady(cache', lastOffset)
      /\ \A m : m # op.name => Value(cache', m) = Value(cache, m)
  <2>1. {bit} \in SUBSET Bit
    OBVIOUS
  <2> QED
    BY <1>1, <1>2, <2>1, SteadyMarked
<1>5. cache' \in Store /\ flash' = cache'
  BY <1>1, <1>2, <1>4, SteadyIs
<1>6. TypeOK'
  BY <1>2, <1>3, <1>5 DEF StoreInv, TypeOK
<1>7. StoreKept'
  BY <1>1, <1>2, <1>3, <1>4, <1>5 DEF StoreKept, Writing
<1> QED
  BY <1>1, <1>2, <1>3, <1>4, <1>5, <1>6, <1>7

LEMMA MarkStep ==
  ASSUME StoreInv, MarkInTransition
  PROVE  StoreInv' /\ Change
<1> DEFINE n == op.name
           p == op.curr
           f == FindVariable(cache, n)
<1>1. op # None /\ op.pc = "mark" /\ UpdateState(p, "transition") /\ Continue("write")
  BY DEF MarkInTransition, At
<1>2. /\ Steady(cache, lastOffset) /\ CallKept /\ flash = cache
  BY <1>1, InCall
<1>3. p = f.curr /\ op.trans = f.trans /\ p # 0 /\ op.value \in Values
  BY <1>1, <1>2 DEF CallKept
<1>4. /\ p \in Copies(cache, n)
      /\ f.trans # 0 => /\ f.trans \in Copies(cache, n) /\ f.trans < f.curr
                        /\ cache[f.trans].state = IN_TRANSITION
      /\ \A q \in Copies(cache, n) : q \in 1 .. Size
  BY <1>2, <1>3, Search
<1>5. /\ "transition" \in Bit /\ "write" \in Pc /\ "write" \notin {"valid", "data", "added"}
      /\ op.pc \notin {"valid", "data", "added"}
  BY <1>1 DEF Bit, Pc
<1>6. /\ TypeOK' /\ StoreKept'
      /\ flash' = cache' /\ cache' = ProgramState(cache, p, {"transition"})
      /\ op' # None /\ op'.pc = "write"
      /\ op'.name = n /\ op'.value = op.value /\ op'.curr = p /\ op'.trans = op.trans
      /\ \A m : m # n => Value(flash', m) = Value(flash, m)
  BY <1>1, <1>4, <1>5, UpdateStateStep
<1>7. /\ Copies(cache', n) = Copies(cache, n) /\ cache'[p].state = IN_TRANSITION
      /\ \A q \in Copies(cache, n) : q # p => cache'[q].state = cache[q].state
  BY <1>2, <1>4, <1>6, InTransitionIs
<1>8. op.trans # 0 => /\ op.trans # p /\ op.trans \in Copies(cache', n)
                      /\ cache'[op.trans].state = IN_TRANSITION
  BY <1>3, <1>4, <1>7, Headers
<1>9. CallKept'
  BY <1>3, <1>4, <1>6, <1>7, <1>8 DEF CallKept, Superseded
<1>10. ASSUME ~Orphan(n) PROVE Value(flash', n) = Value(flash, n)
  <2>1. NewCopy = 0
    BY <1>1 DEF NewCopy
  <2>2. Copies(cache, n) \subseteq {p, op.trans, 0}
    BY <1>1, <1>2, <1>10, <2>1 DEF Orphan
  <2>3. 0 \notin Copies(cache, n)
    BY <1>4, Headers
  <2>4. Unreported(cache, n) = {}
    BY <1>3, <2>2, <2>3 DEF Unreported
  <2>5. Logged(cache, Walk(cache), lastOffset)
    BY <1>2, SteadyIs
  <2>6. Value(cache', n) = Value(cache, n)
    BY <1>3, <1>6, <2>4, <2>5, MarkedFound
  <2> QED
    BY <1>2, <1>6, <2>6
<1>11. Change
  BY <1>6, <1>10 DEF Change
<1> QED
  BY <1>6, <1>9, <1>11 DEF StoreInv

(* The first ADDED copy is found whatever happens to the others.            *)
LEMMA SameFirst ==
  ASSUME NEW s, NEW t, NEW n, AddedCopies(s, n) # {}, AddedCopies(t, n) = AddedCopies(s, n)
  PROVE  FindVariable(t, n).curr = FindVariable(s, n).curr
BY DEF FindVariable, AddedCopies

LEMMA DeleteTransitionStep ==
  ASSUME StoreInv, DeleteTransition
  PROVE  StoreInv' /\ Change
<1> DEFINE n == op.name
           p == op.trans
           f == FindVariable(cache, n)
<1>1. op # None /\ op.pc = "deleteTrans" /\ UpdateState(p, "deleted") /\ Continue("deleteCurr")
  BY DEF DeleteTransition, At
<1>2. /\ Steady(cache, lastOffset) /\ CallKept /\ flash = cache
  BY <1>1, InCall
<1>3. /\ op.curr \in Copies(cache, n) /\ op.curr # p /\ p # 0
      /\ p \in Copies(cache, n) /\ cache[p].state = IN_TRANSITION
      /\ IF op.value = None THEN Deleting ELSE NewStored
  BY <1>1, <1>2 DEF CallKept, Superseded
<1>4. /\ "deleted" \in Bit /\ "deleteCurr" \in Pc
      /\ "deleteCurr" \notin {"valid", "data", "added"}
      /\ op.pc \notin {"valid", "data", "added"}
  BY <1>1 DEF Bit, Pc
<1>5. /\ TypeOK' /\ StoreKept'
      /\ flash' = cache' /\ cache' = ProgramState(cache, p, {"deleted"})
      /\ Steady(cache', lastOffset) /\ lastOffset' = lastOffset
      /\ op' # None /\ op'.pc = "deleteCurr"
      /\ op'.name = n /\ op'.value = op.value /\ op'.curr = op.curr /\ op'.trans = p
      /\ \A m : m # n => Value(flash', m) = Value(flash, m)
  BY <1>1, <1>3, <1>4, UpdateStateStep
<1>6. /\ Copies(cache', n) = Copies(cache, n) \ {p}
      /\ \A q \in Copies(cache', n) : cache'[q] = cache[q]
      /\ \A q \in Copies(cache, n) : \A v : Holds(cache, q, v) <=> Holds(cache', q, v)
  BY <1>2, <1>3, <1>5, DeletedIs
<1>7. VAR_ADDED # IN_TRANSITION
  BY DEF VAR_ADDED, IN_TRANSITION
<1>8. AddedCopies(cache', n) = AddedCopies(cache, n)
  BY <1>3, <1>6, <1>7 DEF AddedCopies
<1>9. ASSUME op.value = None
      PROVE  /\ Deleting' /\ Value(cache', n) = Value(cache, n)
  <2>1. op.curr = f.curr /\ p = f.trans
    BY <1>1, <1>3, <1>9 DEF Deleting
  <2>2. f.curr \in AddedCopies(cache, n)
    BY <1>2, <1>3, <2>1, Search
  <2>3. FindVariable(cache', n).curr = f.curr
    BY <1>8, <2>2, SameFirst
  <2>4. Deleting'
    BY <1>5, <2>1, <2>3 DEF Deleting
  <2>5. /\ Logged(cache, Walk(cache), lastOffset)
        /\ Logged(cache', Walk(cache'), lastOffset)
    BY <1>2, <1>5, SteadyIs
  <2>6. PICK v \in Values : Holds(cache, f.curr, v) /\ Value(cache, n) = v
    BY <1>3, <2>5, ValueIs
  <2>7. Holds(cache', f.curr, v) /\ Copies(cache', n) # {}
    BY <1>3, <1>6, <2>1, <2>6
  <2>8. Value(cache', n) = v
    BY <2>3, <2>5, <2>7, ValueFrom
  <2> QED
    BY <2>4, <2>6, <2>8
<1>10. ASSUME op.value # None
       PROVE  /\ NewStored' /\ (~Orphan(n) => Value(cache', n) = Value(cache, n))
  <2> DEFINE o == NewCopy
  <2>1. /\ op.value \in Values /\ o \in Copies(cache, n) /\ cache[o].state = VAR_ADDED
        /\ Holds(cache, o, op.value) /\ op.curr # o /\ p # o
        /\ op.curr # 0 => cache[op.curr].state = IN_TRANSITION
    BY <1>3, <1>10 DEF NewStored, Superseded
  <2>2. NewCopy' = o
    BY <1>1, <1>5 DEF NewCopy
  <2> HIDE DEF o
  <2>3. /\ o \in Copies(cache', n) /\ cache'[o].state = VAR_ADDED /\ Holds(cache', o, op.value)
        /\ op.curr \in Copies(cache', n) /\ cache'[op.curr] = cache[op.curr]
    BY <1>3, <1>6, <2>1
  <2>4. NewStored'
    BY <1>5, <2>1, <2>2, <2>3 DEF NewStored, Superseded
  <2>5. /\ Logged(cache, Walk(cache), lastOffset)
        /\ Logged(cache', Walk(cache'), lastOffset)
    BY <1>2, <1>5, SteadyIs
  <2>6. ASSUME ~Orphan(n) PROVE Value(cache', n) = Value(cache, n)
    <3>1. Copies(cache, n) \subseteq {op.curr, p, o}
      BY <1>1, <1>2, <2>6 DEF Orphan, o
    <3>2. op.curr # 0
      BY <1>2, <1>3, Search, Headers
    <3>3. \A q \in Copies(cache, n) : q # o => cache[q].state = IN_TRANSITION
      BY <1>3, <2>1, <3>1, <3>2
    <3>4. \A q \in Copies(cache', n) : q # o => cache'[q].state = IN_TRANSITION
      BY <1>6, <3>3
    <3>5. Value(cache, n) = op.value
      BY <2>1, <2>5, <3>3, NewFound
    <3>6. Value(cache', n) = op.value
      BY <2>3, <2>5, <3>4, NewFound
    <3> QED
      BY <3>5, <3>6
  <2> QED
    BY <2>4, <2>6
<1>11. CallKept'
  <2>1. /\ op'.curr \in Copies(cache', op'.name) /\ op'.curr # op'.trans
        /\ op'.trans \notin Copies(cache', op'.name)
    BY <1>3, <1>5, <1>6
  <2>2. IF op'.value = None THEN Deleting' ELSE NewStored'
    BY <1>5, <1>9, <1>10
  <2> QED
    BY <1>5, <2>1, <2>2 DEF CallKept
<1>12. Change
  BY <1>2, <1>5, <1>9, <1>10 DEF Change
<1> QED
  BY <1>5, <1>11, <1>12 DEF StoreInv

LEMMA DeleteCurrentStep ==
  ASSUME StoreInv, DeleteCurrent
  PROVE  StoreInv' /\ Change
<1> DEFINE n == op.name
           p == op.curr
<1>1. op # None /\ op.pc = "deleteCurr" /\ UpdateState(p, "deleted") /\ Continue("done")
  BY DEF DeleteCurrent, At
<1>2. /\ Steady(cache, lastOffset) /\ CallKept /\ flash = cache
  BY <1>1, InCall
<1>3. /\ p \in Copies(cache, n) /\ op.trans \notin Copies(cache, n)
      /\ op.value # None => NewStored
  BY <1>1, <1>2 DEF CallKept
<1>4. /\ "deleted" \in Bit /\ "done" \in Pc
      /\ "done" \notin {"valid", "data", "added"}
      /\ op.pc \notin {"valid", "data", "added"}
  BY <1>1 DEF Bit, Pc
<1>5. /\ TypeOK' /\ StoreKept'
      /\ flash' = cache' /\ cache' = ProgramState(cache, p, {"deleted"})
      /\ Steady(cache', lastOffset) /\ lastOffset' = lastOffset
      /\ op' # None /\ op'.pc = "done"
      /\ op'.name = n /\ op'.value = op.value /\ op'.curr = p /\ op'.trans = op.trans
      /\ \A m : m # n => Value(flash', m) = Value(flash, m)
  BY <1>1, <1>3, <1>4, UpdateStateStep
<1>6. /\ Copies(cache', n) = Copies(cache, n) \ {p}
      /\ \A q \in Copies(cache', n) : cache'[q] = cache[q]
      /\ \A q \in Copies(cache, n) : \A v : Holds(cache, q, v) <=> Holds(cache', q, v)
  BY <1>2, <1>3, <1>5, DeletedIs
<1>7. 0 \notin Copies(cache, n)
  BY <1>2, Search, Headers
<1>8. NewCopy' = NewCopy
  BY <1>1, <1>5 DEF NewCopy
<1>9. Logged(cache', Walk(cache'), lastOffset)
  BY <1>5, SteadyIs
<1>10. ASSUME Copies(cache', n) \subseteq {p, op.trans, NewCopy}
       PROVE  Value(cache', n) = op.value
  <2>1. CASE op.value = None
    <3>1. NewCopy = 0
      BY <2>1 DEF NewCopy
    <3>2. Copies(cache', n) = {}
      BY <1>3, <1>6, <1>7, <1>10, <3>1
    <3> QED
      BY <1>9, <2>1, <3>2, ValueIs
  <2>2. CASE op.value # None
    <3> DEFINE o == NewCopy
    <3>1. /\ o \in Copies(cache, n) /\ cache[o].state = VAR_ADDED
          /\ Holds(cache, o, op.value) /\ p # o
      BY <1>3, <2>2 DEF NewStored
    <3>2. Copies(cache', n) \subseteq {o}
      BY <1>3, <1>6, <1>10
    <3> HIDE DEF o
    <3>3. /\ o \in Copies(cache', n) /\ cache'[o].state = VAR_ADDED
          /\ Holds(cache', o, op.value)
      BY <1>6, <3>1
    <3>4. \A q \in Copies(cache', n) : q # o => cache'[q].state = IN_TRANSITION
      BY <3>2
    <3> QED
      BY <1>9, <3>3, <3>4, NewFound
  <2> QED
    BY <2>1, <2>2
<1>11. ~Orphan(n) => Copies(cache', n) \subseteq {p, op.trans, NewCopy}
  BY <1>1, <1>2, <1>6 DEF Orphan
<1>12. Orphan(op.name)' \/ Value(flash', op'.name) = op'.value
  <2>1. CASE Copies(cache', n) \subseteq {p, op.trans, NewCopy}
    BY <1>5, <1>10, <2>1
  <2>2. CASE ~(Copies(cache', n) \subseteq {p, op.trans, NewCopy})
    BY <1>5, <1>8, <2>2 DEF Orphan
  <2> QED
    BY <2>1, <2>2
<1>13. CallKept'
  BY <1>5, <1>12 DEF CallKept
<1>14. Change
  BY <1>1, <1>5, <1>10, <1>11 DEF Change
<1> QED
  BY <1>5, <1>13, <1>14 DEF StoreInv

(* There is room for what fits.                                             *)
LEMMA Room ==
  ASSUME StoreInv, op # None, op.value \in Values, Fits
  PROVE  lastOffset + DataSize[op.value] <= Size
<1>1. lastOffset \in 1 .. Size + 1 /\ Size \in Nat /\ RuntimeSpace \in 0 .. Size
  BY InCall, VariableAssumption
<1>2. DataSize[op.value] \in Nat
  BY VariableAssumption
<1> QED
  BY <1>1, <1>2 DEF Fits, VarSize, CommonVariableTotalSize

(* One of the first three steps that write a new variable.                  *)
LEMMA WritingStep ==
  ASSUME StoreInv, op # None, op.pc \in {"write", "valid", "data"},
         lastOffset + DataSize[op.value] <= Size,
         NEW pc \in {"valid", "data", "added"}, Continue(pc),
         flash' = Begun(cache, lastOffset, op.name, op.value, pc),
         UNCHANGED <<cache, lastOffset, phase, reclaimed, fault, calls, failures>>
  PROVE  StoreInv' /\ Change
<1> DEFINE v == op.value
           e == lastOffset
<1>1. /\ op \in Op /\ op.name \in Names /\ phase \in {"boot", "runtime"}
      /\ Steady(cache, e) /\ CallKept
      /\ op.pc = "write" => flash = cache
      /\ op.pc # "write" => flash = Begun(cache, e, op.name, v, op.pc)
  BY InCall
<1>2. /\ v \in Values /\ Superseded(op.curr) /\ Superseded(op.trans)
      /\ op.trans # 0 => op.curr # op.trans
  BY <1>1 DEF CallKept
<1>3. /\ op' \in Op /\ op' # None /\ op'.pc = pc
      /\ op'.name = op.name /\ op'.value = v
      /\ op'.curr = op.curr /\ op'.trans = op.trans
  <2>1. pc \in Pc
    BY DEF Pc
  <2> QED
    BY <1>1, <2>1, NextPc DEF Continue
<1>4. flash' \in Store /\ \A m : Value(flash', m) = Value(cache, m)
  BY <1>1, <1>2, BegunIs
<1>5. \A m : Value(flash, m) = Value(cache, m)
  <2>1. CASE op.pc = "write"
    BY <1>1, <2>1
  <2>2. CASE op.pc \in {"valid", "data"}
    <3>1. op.pc \in {"valid", "data", "added"} /\ flash = Begun(cache, e, op.name, v, op.pc)
      BY <1>1, <2>2
    <3> QED
      BY <1>1, <1>2, <3>1, BegunIs
  <2> QED
    BY <2>1, <2>2
<1>6. TypeOK'
  BY <1>3, <1>4 DEF StoreInv, TypeOK
<1>7. StoreKept'
  BY <1>1, <1>3 DEF StoreKept, Writing
<1>8. CallKept'
  BY <1>2, <1>3 DEF CallKept, Superseded
<1>9. Change
  BY <1>4, <1>5 DEF Change
<1> QED
  BY <1>6, <1>7, <1>8, <1>9 DEF StoreInv

LEMMA FirstStepsStep ==
  ASSUME StoreInv, WriteHeader \/ SetHeaderValid \/ WriteData
  PROVE  StoreInv' /\ Change
<1>1. op # None /\ op.pc \in {"write", "valid", "data"}
  BY DEF WriteHeader, SetHeaderValid, WriteData, At
<1>2. /\ op.name \in Names /\ Steady(cache, lastOffset) /\ op.value \in Values
      /\ op.pc = "write" => flash = cache
      /\ op.pc # "write" => /\ flash = Begun(cache, lastOffset, op.name, op.value, op.pc)
                            /\ lastOffset + DataSize[op.value] <= Size
  BY <1>1, InCall DEF CallKept
<1>3. lastOffset + DataSize[op.value] <= Size
  BY <1>1, <1>2, Room DEF WriteHeader, SetHeaderValid, WriteData, At
<1> DEFINE B(pc) == Begun(cache, lastOffset, op.name, op.value, pc)
<1>4. /\ ProgramRange(cache, lastOffset, 1, NewHeader(op.name, op.value, {})) = B("valid")
      /\ ProgramState(B("valid"), lastOffset, VAR_HEADER_VALID_ONLY) = B("data")
      /\ ProgramRange(B("data"), lastOffset + 1, DataSize[op.value], op.value) = B("added")
  BY <1>2, <1>3, FourSteps
<1> HIDE DEF B
<1>5. CASE WriteHeader
  <2>1. /\ flash' = B("valid") /\ Continue("valid")
        /\ UNCHANGED <<cache, lastOffset, phase, reclaimed, fault, calls, failures>>
    BY <1>2, <1>4, <1>5 DEF WriteHeader, At
  <2> QED
    BY <1>1, <1>3, <2>1, WritingStep DEF B
<1>6. CASE SetHeaderValid
  <2>1. flash = B("valid")
    BY <1>2, <1>6 DEF SetHeaderValid, At, B
  <2>2. /\ flash' = B("data") /\ Continue("data")
        /\ UNCHANGED <<cache, lastOffset, phase, reclaimed, fault, calls, failures>>
    BY <1>4, <1>6, <2>1 DEF SetHeaderValid
  <2> QED
    BY <1>1, <1>3, <2>2, WritingStep DEF B
<1>7. CASE WriteData
  <2>1. flash = B("data")
    BY <1>2, <1>7 DEF WriteData, At, B
  <2>2. /\ flash' = B("added") /\ Continue("added")
        /\ UNCHANGED <<cache, lastOffset, phase, reclaimed, fault, calls, failures>>
    BY <1>4, <1>7, <2>1 DEF WriteData
  <2> QED
    BY <1>1, <1>3, <2>2, WritingStep DEF B
<1> QED
  BY <1>5, <1>6, <1>7

LEMMA SetAddedStep ==
  ASSUME StoreInv, SetAdded
  PROVE  StoreInv' /\ Change
<1> DEFINE n == op.name
           v == op.value
           e == lastOffset
           pc == RemoveOld(op)
<1>1. /\ op # None /\ op.pc = "added"
      /\ flash' = ProgramState(flash, e, VAR_ADDED) /\ cache' = Stored(cache, e, n, v)
      /\ lastOffset' = e + VarSize(v) /\ Continue(pc)
      /\ phase' = phase /\ reclaimed' = reclaimed /\ fault' = fault
      /\ calls' = calls /\ failures' = failures
  BY DEF SetAdded, At, Stored
<1>2. /\ op \in Op /\ n \in Names /\ v \in Values /\ phase \in {"boot", "runtime"}
      /\ op.curr \in 0 .. Size /\ op.trans \in 0 .. Size
      /\ Steady(cache, e) /\ flash = Begun(cache, e, n, v, "added") /\ e + DataSize[v] <= Size
      /\ Superseded(op.curr) /\ Superseded(op.trans)
      /\ op.trans # 0 => op.curr # op.trans
  BY <1>1, InCall DEF CallKept
<1>3. flash' = cache'
  BY <1>1, <1>2, FourSteps
<1>4. /\ Steady(cache', e + VarSize(v)) /\ cache' \in Store
      /\ Copies(cache', n) = Copies(cache, n) \cup {e} /\ e \notin Copies(cache, n)
      /\ cache'[e].state = VAR_ADDED /\ Holds(cache', e, v)
      /\ \A p \in Copies(cache, n) : cache'[p] = cache[p]
      /\ \A m : m # n => Value(cache', m) = Value(cache, m)
  BY <1>1, <1>2, StoredIs
<1>5. \A m : Copies(flash, m) = Copies(cache, m) /\ Value(flash, m) = Value(cache, m)
  <2> DEFINE x == "added"
  <2>1. x \in {"valid", "data", "added"} /\ flash = Begun(cache, e, n, v, x)
    BY <1>2
  <2> HIDE DEF x
  <2> QED
    BY <1>2, <2>1, BegunIs
<1>6. /\ op.curr # 0 /\ op.trans # 0 => pc = "deleteTrans"
      /\ op.curr # 0 /\ op.trans = 0 => pc = "deleteCurr"
      /\ op.curr = 0 => pc = "done"
  BY DEF RemoveOld
<1> HIDE DEF pc
<1>7. pc \in {"deleteTrans", "deleteCurr", "done"} /\ pc \in Pc
  BY <1>6 DEF Pc
<1>8. /\ op' \in Op /\ op' # None /\ op'.pc = pc /\ op'.name = n /\ op'.value = v
      /\ op'.curr = op.curr /\ op'.trans = op.trans
  BY <1>1, <1>2, <1>7, NextPc DEF Continue
<1>9. e \in Nat /\ e > 0 /\ Size \in Nat /\ DataSize[v] \in Nat /\ DataSize[v] > 0 /\ None \notin Values
  BY <1>2, SteadyIs, VariableAssumption, Headers
<1>10. lastOffset' \in 1 .. Size + 1
  BY <1>1, <1>2, <1>9 DEF VarSize
<1>11. TypeOK'
  BY <1>1, <1>3, <1>4, <1>8, <1>10 DEF StoreInv, TypeOK
<1>12. StoreKept'
  BY <1>1, <1>2, <1>3, <1>4, <1>7, <1>8 DEF StoreKept, Writing
<1>13. NewCopy' = e
  <2>1. NewCopy' = lastOffset' - VarSize(v)
    BY <1>2, <1>7, <1>8, <1>9 DEF NewCopy
  <2> QED
    BY <1>1, <1>9, <2>1 DEF VarSize
<1>14. Logged(cache', Walk(cache'), lastOffset')
  BY <1>1, <1>4, SteadyIs
<1>15. 0 \notin Copies(cache', n)
  BY <1>4, Search, Headers
<1>16. /\ op.curr # 0 => /\ op.curr \in Copies(cache', n) /\ op.curr # e
                         /\ cache'[op.curr].state = IN_TRANSITION
       /\ op.trans # 0 => /\ op.trans \in Copies(cache', n) /\ op.trans # e
                          /\ cache'[op.trans].state = IN_TRANSITION
  BY <1>2, <1>4 DEF Superseded
<1>17. e \in Copies(cache', n) /\ e # 0
  BY <1>4, <1>9
<1>18. ASSUME Copies(cache', n) \subseteq {op.curr, op.trans, e}
       PROVE  Value(cache', n) = v
  <2>1. \A p \in Copies(cache', n) : p # e => cache'[p].state = IN_TRANSITION
    BY <1>15, <1>16, <1>18
  <2> QED
    BY <1>4, <1>14, <1>17, <2>1, NewFound
<1>19. CallKept'
  <2>1. CASE op.curr # 0
    <3>1. NewStored'
      BY <1>2, <1>4, <1>8, <1>13, <1>16, <1>17, <2>1 DEF NewStored, Superseded
    <3>2. /\ op'.curr \in Copies(cache', op'.name) /\ op'.curr # op'.trans
          /\ op'.trans # 0 => Superseded(op.trans)'
      BY <1>2, <1>8, <1>16, <2>1 DEF Superseded
    <3>3. op'.value # None /\ (op.trans = 0 => op'.trans \notin Copies(cache', op'.name))
      BY <1>2, <1>8, <1>9, <1>15
    <3> QED
      BY <1>6, <1>8, <2>1, <3>1, <3>2, <3>3 DEF CallKept
  <2>2. CASE op.curr = 0
    <3>1. pc = "done"
      BY <1>6, <2>2
    <3>2. Orphan(op.name)' \/ Value(flash', op'.name) = op'.value
      <4>1. CASE Copies(cache', n) \subseteq {op.curr, op.trans, e}
        BY <1>3, <1>8, <1>18, <4>1
      <4>2. CASE ~(Copies(cache', n) \subseteq {op.curr, op.trans, e})
        BY <1>3, <1>8, <1>13, <4>2 DEF Orphan
      <4> QED
        BY <4>1, <4>2
    <3> QED
      BY <1>8, <3>1, <3>2 DEF CallKept
  <2> QED
    BY <2>1, <2>2
<1>20. ASSUME ~Orphan(n) PROVE Value(cache', n) = v
  <2>1. NewCopy = 0
    BY <1>1 DEF NewCopy
  <2>2. Copies(cache, n) \subseteq {op.curr, op.trans, 0}
    BY <1>1, <1>5, <1>20, <2>1 DEF Orphan
  <2> QED
    BY <1>4, <1>15, <1>18, <2>2
<1>21. Change
  BY <1>1, <1>3, <1>4, <1>5, <1>20 DEF Change
<1> QED
  BY <1>11, <1>12, <1>19, <1>21 DEF StoreInv

(* A write that was stopped on the way changes no value.                    *)
LEMMA InterruptedIs ==
  ASSUME StoreInv, op # None, flash' \in Interrupted
  PROVE  /\ flash' \in Store /\ Good(flash')
         /\ \A m : Value(flash', m) = Value(flash, m)
         /\ \/ flash' = flash /\ op.pc \notin {"valid", "data", "added"}
            \/ lastOffset \in lastOffset .. Size /\ flash'[lastOffset] # Erased
<1> DEFINE n == op.name
           v == op.value
           e == lastOffset
<1>1. /\ n \in Names /\ Steady(cache, e) /\ CallKept /\ flash \in Store /\ op.pc \in Pc
      /\ op.pc \notin {"valid", "data", "added"} => flash = cache
      /\ op.pc \in {"valid", "data", "added"} =>
           /\ flash = Begun(cache, e, n, v, op.pc)
           /\ e + DataSize[v] <= Size
  BY InCall
<1>2. Good(cache) /\ e \in Nat /\ Size \in Nat
  BY <1>1, SteadyIs DEF Steady
<1>3. v \in Values => DataSize[v] \in Nat /\ DataSize[v] > 0
  BY VariableAssumption
<1>4. CASE op.pc = "write" /\ flash' # flash
  <2>1. Fits /\ flash' = ProgramRange(cache, e, 1, Torn) /\ v \in Values /\ flash = cache
    BY <1>1, <1>4 DEF Interrupted, At, CallKept
  <2>2. e + DataSize[v] <= Size
    BY <2>1, Room
  <2>3. /\ flash' \in Store /\ Good(flash') /\ flash'[e] # Erased
        /\ \A m : Value(flash', m) = Value(cache, m)
    BY <1>1, <2>1, <2>2, TornIs
  <2>4. e \in e .. Size
    BY <1>2, <1>3, <2>1, <2>2
  <2> QED
    BY <2>1, <2>3, <2>4
<1>5. CASE op.pc \in {"valid", "data", "added"}
  <2>1. v \in Values
    BY <1>1, <1>5 DEF CallKept
  <2>2. /\ flash = Begun(cache, e, n, v, op.pc) /\ e + DataSize[v] <= Size
    BY <1>1, <1>5
  <2>3. /\ Good(flash) /\ flash[e] # Erased /\ \A m : Value(flash, m) = Value(cache, m)
    BY <1>1, <1>5, <2>1, <2>2, BegunIs
  <2>4. e \in e .. Size
    BY <1>2, <1>3, <2>1, <2>2
  <2>5. CASE flash' = flash
    BY <1>1, <2>3, <2>4, <2>5
  <2>6. CASE flash' # flash
    <3>1. flash' = ProgramRange(Begun(cache, e, n, v, "data"), e + 1, DataSize[v], Torn)
      BY <1>5, <2>2, <2>6 DEF Interrupted, At
    <3>2. /\ flash' \in Store /\ Good(flash') /\ flash'[e] # Erased
          /\ \A m : Value(flash', m) = Value(cache, m)
      BY <1>1, <2>1, <2>2, <3>1, TornIs
    <3> QED
      BY <2>3, <2>4, <3>2
  <2> QED
    BY <2>5, <2>6
<1>6. CASE op.pc \notin {"valid", "data", "added"} /\ flash' = flash
  BY <1>1, <1>2, <1>6
<1>7. flash' = flash \/ op.pc \in {"write", "data"}
  BY DEF Interrupted, At
<1> QED
  BY <1>4, <1>5, <1>6, <1>7

(* Steps that end a call and leave the store alone, and the step to runtime. *)
LEMMA QuietStep ==
  ASSUME StoreInv, OutOfResourcesAtRuntime \/ Return \/ ExitBootServices
  PROVE  StoreInv' /\ Change
<1>1. /\ flash' = flash /\ cache' = cache /\ lastOffset' = lastOffset /\ op' = None
      /\ reclaimed' = reclaimed /\ fault' = fault /\ calls' = calls /\ failures' = failures
      /\ phase' \in {"boot", "runtime"}
      /\ flash = cache /\ Steady(cache, lastOffset)
  <2>1. CASE OutOfResourcesAtRuntime \/ Return
    <3>1. op # None /\ op.pc \notin {"valid", "data", "added"}
      BY <2>1 DEF OutOfResourcesAtRuntime, Return, At
    <3>2. phase \in {"boot", "runtime"} /\ flash = cache /\ Steady(cache, lastOffset)
      BY <3>1, InCall
    <3> QED
      BY <2>1, <3>2 DEF OutOfResourcesAtRuntime, Return
  <2>2. CASE ExitBootServices
    <3>1. phase \in {"boot", "runtime"} /\ op = None
      BY <2>2 DEF ExitBootServices
    <3>2. flash = cache /\ Steady(cache, lastOffset)
      BY <3>1, OutOfCall
    <3> QED
      BY <2>2, <3>1, <3>2 DEF ExitBootServices
  <2> QED
    BY <2>1, <2>2
<1>2. TypeOK'
  BY <1>1 DEF StoreInv, TypeOK
<1>3. StoreKept'
  BY <1>1 DEF StoreKept, Writing
<1> QED
  BY <1>1, <1>2, <1>3 DEF StoreInv, Change

LEMMA FvbErrorStep ==
  ASSUME StoreInv, FvbError, ~fault'
  PROVE  StoreInv' /\ Change /\ ~fault
<1>1. /\ failures < MaxFailures /\ op # None /\ flash' \in Interrupted /\ op' = None
      /\ cache' = cache /\ lastOffset' = lastOffset /\ phase' = phase
      /\ reclaimed' = reclaimed /\ calls' = calls /\ failures' = failures + 1
  BY DEF FvbError
<1>2. ~fault /\ ~(\E i \in lastOffset .. Size : flash'[i] # Erased)
  BY DEF FvbError
<1>3. phase \in {"boot", "runtime"} /\ Steady(cache, lastOffset)
      /\ (op.pc \notin {"valid", "data", "added"} => flash = cache)
  BY <1>1, InCall
<1>4. flash' = flash /\ op.pc \notin {"valid", "data", "added"}
  BY <1>1, <1>2, InterruptedIs
<1>5. TypeOK'
  <2>1. failures' \in 0 .. MaxFailures
    BY <1>1, VariableAssumption DEF StoreInv, TypeOK
  <2>2. fault' \in BOOLEAN
    BY DEF FvbError, StoreInv, TypeOK
  <2> QED
    BY <1>1, <1>4, <2>1, <2>2 DEF StoreInv, TypeOK
<1>6. StoreKept'
  BY <1>1, <1>3, <1>4 DEF StoreKept, Writing
<1> QED
  BY <1>1, <1>2, <1>4, <1>5, <1>6 DEF StoreInv, Change

LEMMA PowerFailureStep ==
  ASSUME StoreInv, PowerFailure
  PROVE  StoreInv' /\ Change
<1>1. /\ phase # "off" /\ failures < MaxFailures /\ flash' \in Interrupted
      /\ cache' = Blank /\ lastOffset' = 1 /\ reclaimed' = FALSE /\ phase' = "off"
      /\ op' = None /\ failures' = failures + 1 /\ fault' = fault /\ calls' = calls
  BY DEF PowerFailure
<1>2. flash' \in Store /\ Good(flash') /\ \A m : Value(flash', m) = Value(flash, m)
  <2>1. CASE op # None
    BY <1>1, <2>1, InterruptedIs
  <2>2. CASE op = None
    <3>1. flash' = flash
      BY <1>1, <2>2 DEF Interrupted, At
    <3>2. Good(flash) /\ flash \in Store
      BY <1>1, <2>2 DEF StoreInv, StoreKept, TypeOK, Writing, Steady
    <3> QED
      BY <3>1, <3>2
  <2> QED
    BY <2>1, <2>2
<1>3. Blank \in Store /\ 1 \in 1 .. Size + 1
  BY Headers DEF Blank, Store
<1>4. TypeOK'
  <2>1. failures' \in 0 .. MaxFailures
    BY <1>1, VariableAssumption DEF StoreInv, TypeOK
  <2> QED
    BY <1>1, <1>2, <1>3, <2>1 DEF StoreInv, TypeOK
<1>5. StoreKept'
  BY <1>1, <1>2 DEF StoreKept
<1> QED
  BY <1>1, <1>2, <1>4, <1>5 DEF StoreInv, Change

LEMMA GoodIs ==
  ASSUME NEW s, Good(s)
  PROVE  /\ Logged(s, Walk(s), EndOfWalk(s)) /\ s \in Store /\ EndOfWalk(s) \in 1 .. Size + 1
BY DEF Good, Logged, IsLog

LEMMA BootStep ==
  ASSUME StoreInv, Boot
  PROVE  StoreInv' /\ Change
<1>1. /\ phase = "off" /\ cache' = flash /\ lastOffset' = EndOfWalk(flash) /\ phase' = "read"
      /\ flash' = flash /\ reclaimed' = reclaimed /\ op' = op /\ fault' = fault
      /\ calls' = calls /\ failures' = failures
  BY DEF Boot
<1>2. op = None /\ Good(flash)
  BY <1>1 DEF StoreInv, StoreKept
<1>3. lastOffset' \in 1 .. Size + 1 /\ flash \in Store
  BY <1>1, <1>2, GoodIs
<1>4. TypeOK'
  BY <1>1, <1>3 DEF StoreInv, TypeOK
<1>5. StoreKept'
  BY <1>1, <1>2 DEF StoreKept
<1> QED
  BY <1>1, <1>2, <1>4, <1>5 DEF StoreInv, Change

(* Reclaim while no call is in progress, done or failed.                    *)
LEMMA ReclaimAlone ==
  ASSUME StoreInv, op = None, Good(flash), NEW b, b = ValidBuffer(flash, NoUpdate),
         (ReclaimDone(b) /\ failures' = failures) \/ ReclaimFailed(b)
  PROVE  /\ Good(flash') /\ flash' \in Store /\ cache' = flash'
         /\ lastOffset' = EndOfWalk(flash') /\ lastOffset' \in 1 .. Size + 1
         /\ flash' # flash => Free(flash', lastOffset')
         /\ failures' \in 0 .. MaxFailures
         /\ Change
<1>1. /\ Logged(flash, Walk(flash), EndOfWalk(flash)) /\ flash \in Store
  BY GoodIs
<1>2. /\ Steady(Fill(b), Len(b) + 1) /\ Fill(b) \in Store
      /\ \A n : /\ Unreported(flash, n) = {} /\ NoUpdate.curr \notin Copies(flash, n)
                /\ NoUpdate.trans \notin Copies(flash, n)
                => Value(Fill(b), n) = Value(flash, n)
  BY <1>1, ReclaimIs
<1>3. NoUpdate.curr = 0 /\ NoUpdate.trans = 0
  BY DEF NoUpdate
<1>4. \A n : 0 \notin Copies(flash, n)
  BY <1>1, FindIs, Headers
<1>5. Good(Fill(b)) /\ EndOfWalk(Fill(b)) = Len(b) + 1 /\ Free(Fill(b), Len(b) + 1)
  BY <1>2 DEF Steady
<1>6. /\ flash' \in {flash, Fill(b)} /\ cache' = flash' /\ lastOffset' = EndOfWalk(flash')
      /\ failures' \in 0 .. MaxFailures
  <2>1. CASE ReclaimDone(b) /\ failures' = failures
    BY <1>5, <2>1 DEF ReclaimDone, StoreInv, TypeOK
  <2>2. CASE ReclaimFailed(b)
    <3>1. failures' \in 0 .. MaxFailures
      BY <2>2, VariableAssumption DEF ReclaimFailed, StoreInv, TypeOK
    <3> QED
      BY <2>2, <3>1 DEF ReclaimFailed
  <2> QED
    BY <2>1, <2>2
<1>7. Good(flash')
  BY <1>5, <1>6
<1>8. flash' \in Store /\ lastOffset' \in 1 .. Size + 1
  BY <1>6, <1>7, GoodIs
<1>9. ASSUME NEW n, ~Orphan(n) PROVE Value(flash', n) = Value(flash, n)
  <2>1. Unreported(flash, n) = {}
    BY <1>9 DEF Orphan
  <2> QED
    BY <1>2, <1>3, <1>4, <1>6, <2>1
<1>10. Change
  BY <1>9 DEF Change
<1> QED
  BY <1>5, <1>6, <1>7, <1>8, <1>10

LEMMA WriteServiceStep ==
  ASSUME StoreInv, WriteServiceInitialize, ~fault'
  PROVE  StoreInv' /\ Change /\ ~fault
<1> DEFINE b == ValidBuffer(flash, NoUpdate)
<1>1. /\ phase = "read" /\ phase' = "boot" /\ reclaimed' = reclaimed /\ op' = op
      /\ calls' = calls
  BY DEF WriteServiceInitialize
<1>2. op = None /\ Good(flash) /\ cache = flash /\ lastOffset = EndOfWalk(flash)
  BY <1>1 DEF StoreInv, StoreKept
<1>3. /\ FreeAreaIsFree /\ flash' = flash /\ cache' = cache /\ lastOffset' = lastOffset
         /\ fault' = fault /\ failures' = failures
      \/ /\ ReclaimDone(b) /\ fault' = fault /\ failures' = failures
      \/ /\ ReclaimFailed(b)
         /\ fault' = (fault \/ \E i \in lastOffset' .. Size : flash'[i] # Erased)
  BY DEF WriteServiceInitialize
<1>4. flash \in Store /\ lastOffset \in 1 .. Size + 1 /\ fault \in BOOLEAN
      /\ failures \in 0 .. MaxFailures
  BY DEF StoreInv, TypeOK
<1>5. /\ ~fault /\ Good(flash') /\ flash' \in Store /\ cache' = flash'
      /\ lastOffset' = EndOfWalk(flash') /\ lastOffset' \in 1 .. Size + 1
      /\ Free(flash', lastOffset') /\ failures' \in 0 .. MaxFailures /\ Change
      /\ fault' \in BOOLEAN
  <2>1. CASE /\ FreeAreaIsFree /\ flash' = flash /\ cache' = cache /\ lastOffset' = lastOffset
             /\ fault' = fault /\ failures' = failures
    BY <1>2, <1>4, <2>1 DEF FreeAreaIsFree, Free, Change
  <2>2. CASE ReclaimDone(b) /\ fault' = fault /\ failures' = failures
    <3>1. Free(flash', lastOffset')
      <4>1. Steady(Fill(b), Len(b) + 1)
        BY <1>2, GoodIs, ReclaimIs
      <4> QED
        BY <2>2, <4>1 DEF ReclaimDone, Steady
    <3>2. /\ Good(flash') /\ flash' \in Store /\ cache' = flash'
          /\ lastOffset' = EndOfWalk(flash') /\ lastOffset' \in 1 .. Size + 1
          /\ failures' \in 0 .. MaxFailures /\ Change
      BY <1>2, <2>2, ReclaimAlone
    <3> QED
      BY <1>4, <2>2, <3>1, <3>2
  <2>3. CASE /\ ReclaimFailed(b)
             /\ fault' = (fault \/ \E i \in lastOffset' .. Size : flash'[i] # Erased)
    <3>1. /\ Good(flash') /\ flash' \in Store /\ cache' = flash'
          /\ lastOffset' = EndOfWalk(flash') /\ lastOffset' \in 1 .. Size + 1
          /\ failures' \in 0 .. MaxFailures /\ Change
      BY <1>2, <2>3, ReclaimAlone
    <3>2. ~fault /\ Free(flash', lastOffset') /\ fault' \in BOOLEAN
      BY <2>3 DEF Free
    <3> QED
      BY <3>1, <3>2
  <2> QED
    BY <1>3, <2>1, <2>2, <2>3
<1>6. TypeOK'
  BY <1>1, <1>2, <1>5 DEF StoreInv, TypeOK
<1>7. Steady(cache', lastOffset')
  BY <1>5 DEF Steady
<1>8. StoreKept'
  BY <1>1, <1>2, <1>5, <1>7 DEF StoreKept, Writing
<1> QED
  BY <1>1, <1>2, <1>5, <1>6, <1>8 DEF StoreInv

LEMMA ReclaimForOSStep ==
  ASSUME StoreInv, ReclaimForOS
  PROVE  StoreInv' /\ Change
<1> DEFINE b == ValidBuffer(flash, NoUpdate)
<1>1. /\ phase = "boot" /\ op = None /\ reclaimed' = TRUE /\ phase' = phase /\ op' = op
      /\ fault' = fault /\ calls' = calls
      /\ \/ /\ flash' = flash /\ cache' = cache /\ lastOffset' = lastOffset
            /\ failures' = failures
         \/ ReclaimDone(b) /\ failures' = failures
         \/ ReclaimFailed(b)
  BY DEF ReclaimForOS
<1>2. flash = cache /\ Steady(cache, lastOffset) /\ flash \in Store
  BY <1>1, OutOfCall
<1>3. Good(flash) /\ lastOffset = EndOfWalk(flash) /\ Free(flash, lastOffset)
  BY <1>2 DEF Steady
<1>4. /\ Good(flash') /\ flash' \in Store /\ cache' = flash'
      /\ lastOffset' = EndOfWalk(flash') /\ lastOffset' \in 1 .. Size + 1
      /\ Free(flash', lastOffset') /\ failures' \in 0 .. MaxFailures /\ Change
  <2>1. CASE /\ flash' = flash /\ cache' = cache /\ lastOffset' = lastOffset
             /\ failures' = failures
    BY <1>2, <1>3, <2>1 DEF Change, StoreInv, TypeOK
  <2>2. CASE (ReclaimDone(b) /\ failures' = failures) \/ ReclaimFailed(b)
    <3>1. /\ Good(flash') /\ flash' \in Store /\ cache' = flash'
          /\ lastOffset' = EndOfWalk(flash') /\ lastOffset' \in 1 .. Size + 1
          /\ flash' # flash => Free(flash', lastOffset')
          /\ failures' \in 0 .. MaxFailures /\ Change
      BY <1>1, <1>3, <2>2, ReclaimAlone
    <3> QED
      BY <1>3, <3>1
  <2> QED
    BY <1>1, <2>1, <2>2
<1>5. TypeOK'
  BY <1>1, <1>4 DEF StoreInv, TypeOK
<1>6. Steady(cache', lastOffset')
  BY <1>4 DEF Steady
<1>7. StoreKept'
  BY <1>1, <1>4, <1>6 DEF StoreKept, Writing
<1> QED
  BY <1>1, <1>4, <1>5, <1>7 DEF StoreInv

LEMMA ReclaimForVariableStep ==
  ASSUME StoreInv, ReclaimForVariable
  PROVE  StoreInv' /\ Change
<1> DEFINE n == op.name
           v == op.value
           b == ValidBuffer(flash, op)
           c == b \o <<NewHeader(n, v, VAR_ADDED)>> \o [i \in 1 .. DataSize[v] |-> v]
           o == Len(b) + 1
           new == [op EXCEPT !.curr = IF @ = 0 THEN 0 ELSE Len(b) + 1, !.trans = 0, !.pc = "done"]
<1>1. /\ op # None /\ op.pc = "write" /\ phase = "boot"
      /\ \/ /\ cache' = flash /\ op' = None /\ flash' = flash /\ lastOffset' = lastOffset
            /\ failures' = failures
         \/ /\ Len(c) <= Size /\ ReclaimDone(c) /\ op' = new /\ failures' = failures
         \/ /\ Len(c) <= Size /\ ReclaimFailed(c) /\ op' = None
      /\ phase' = phase /\ reclaimed' = reclaimed /\ fault' = fault /\ calls' = calls
  BY DEF ReclaimForVariable, At
<1>2. /\ op \in Op /\ n \in Names /\ v \in Values /\ op.curr \in 0 .. Size
      /\ Steady(cache, lastOffset) /\ flash = cache /\ flash \in Store
      /\ lastOffset \in 1 .. Size + 1
      /\ Superseded(op.curr) /\ Superseded(op.trans)
  BY <1>1, InCall DEF CallKept
<1>3. Logged(flash, Walk(flash), lastOffset) /\ Good(flash) /\ EndOfWalk(flash) = lastOffset
  BY <1>2, SteadyIs DEF Steady
<1>4. Len(b) \in Nat /\ Len(b) <= Size
  BY <1>3, ReclaimIs
<1>5. /\ Len(c) = Len(b) + VarSize(v) /\ Len(c) \in Nat
      /\ Len(c) <= Size =>
           /\ Steady(Fill(c), Len(c) + 1) /\ Fill(c) \in Store
           /\ o \in Copies(Fill(c), n)
           /\ Fill(c)[o].state = VAR_ADDED
           /\ Holds(Fill(c), o, v)
           /\ Spared(flash, Fill(c), op, n)
           /\ /\ Copies(flash, n) \subseteq {op.curr, op.trans}
              /\ op.trans \in Copies(flash, n) => flash[op.trans].state # VAR_ADDED
              => Value(Fill(c), n) = v
  <2>1. b = ValidBuffer(flash, op) /\ n \in Names /\ v \in Values
    BY <1>2
  <2>2. c = Whole(b, n, v)
    BY DEF Whole
  <2> HIDE DEF b, c, n, v
  <2> QED
    BY ONLY <1>3, <2>1, <2>2, ReclaimWith
<1>6. DataSize[v] \in Nat /\ DataSize[v] > 0 /\ Size \in Nat /\ VarSize(v) = 1 + DataSize[v]
      /\ None \notin Values
  BY <1>2, VariableAssumption, Headers DEF VarSize
<1> HIDE DEF b, c
<1>7. VAR_ADDED # IN_TRANSITION
  BY DEF VAR_ADDED, IN_TRANSITION
<1>8. \A m : 0 \notin Copies(flash, m)
  BY <1>3, FindIs, Headers
<1>9. \A m, p : p \in Copies(flash, m) => flash[p].name = m
  BY DEF Copies
<1>10. ASSUME Len(c) <= Size, NEW m, ~Orphan(m)
       PROVE  Value(Fill(c), m) = IF m = n THEN v ELSE Value(flash, m)
  <2>1. NewCopy = 0
    BY <1>1 DEF NewCopy
  <2>2. CASE m = n
    <3>1. Copies(flash, n) \subseteq {op.curr, op.trans}
      BY <1>1, <1>8, <1>10, <2>1, <2>2 DEF Orphan
    <3>2. op.trans \in Copies(flash, n) => flash[op.trans].state # VAR_ADDED
      BY <1>2, <1>7, <1>8 DEF Superseded
    <3> QED
      BY <1>5, <1>10, <2>2, <3>1, <3>2
  <2>3. CASE m # n
    <3>1. Unreported(flash, m) = {}
      BY <1>10, <2>3 DEF Orphan
    <3>2. op.curr \notin Copies(flash, m) /\ op.trans \notin Copies(flash, m)
      BY <1>2, <1>8, <1>9, <2>3 DEF Superseded
    <3> QED
      BY <1>5, <1>10, <2>3, <3>1, <3>2 DEF Spared
  <2> QED
    BY <2>2, <2>3
<1>11. CASE cache' = flash /\ op' = None /\ flash' = flash /\ lastOffset' = lastOffset
            /\ failures' = failures
  <2>1. TypeOK'
    BY <1>1, <1>2, <1>11 DEF StoreInv, TypeOK
  <2>2. StoreKept'
    BY <1>1, <1>2, <1>11 DEF StoreKept, Writing
  <2> QED
    BY <1>11, <2>1, <2>2 DEF StoreInv, Change
<1>12. CASE Len(c) <= Size /\ ReclaimDone(c) /\ op' = new /\ failures' = failures
  <2>1. flash' = Fill(c) /\ cache' = flash' /\ lastOffset' = Len(c) + 1
    BY <1>12 DEF ReclaimDone
  <2>2. /\ Steady(flash', lastOffset') /\ flash' \in Store /\ lastOffset' \in 1 .. Size + 1
    <3>1. Steady(flash', lastOffset')
      BY <1>5, <1>12, <2>1
    <3> QED
      BY <3>1, SteadyIs
  <2>3. o \in 0 .. Size
    BY <1>4, <1>5, <1>6, <1>12
  <2>4. /\ op' \in Op /\ op' # None /\ op'.name = n /\ op'.value = v /\ op'.pc = "done"
        /\ op'.curr \in {0, o} /\ op'.trans = 0
    <3> DEFINE k == IF op.curr = 0 THEN 0 ELSE Len(b) + 1
    <3>1. op' = [op EXCEPT !.curr = k, !.trans = 0, !.pc = "done"]
      BY <1>2, <1>12 DEF Op
    <3>2. k \in 0 .. Size /\ 0 \in 0 .. Size /\ k \in {0, o}
      BY <1>6, <2>3
    <3> HIDE DEF k
    <3>3. op' \in Op
      BY <1>2, <3>1, <3>2 DEF Op
    <3>4. /\ op'.name = n /\ op'.value = v /\ op'.pc = "done" /\ op'.curr = k /\ op'.trans = 0
      BY <1>2, <3>1 DEF Op
    <3> QED
      BY <3>2, <3>3, <3>4, CellAssumption
  <2>5. TypeOK'
    BY <1>1, <1>12, <2>1, <2>2, <2>4 DEF StoreInv, TypeOK
  <2>6. StoreKept'
    BY <1>1, <2>1, <2>2, <2>4 DEF StoreKept, Writing
  <2>7. NewCopy' = o
    <3>1. NewCopy' = lastOffset' - VarSize(v)
      BY <1>2, <1>6, <2>4 DEF NewCopy
    <3> QED
      BY <1>4, <1>5, <1>6, <2>1, <3>1
  <2>8. Logged(flash', Walk(flash'), lastOffset')
    BY <2>2, SteadyIs
  <2>9. Orphan(op.name)' \/ Value(flash', op'.name) = op'.value
    <3>1. CASE Copies(flash', n) \subseteq {op'.curr, op'.trans, o}
      <4>1. 0 \notin Copies(flash', n)
        BY <2>8, FindIs, Headers
      <4>2. Copies(flash', n) \subseteq {o}
        BY <2>4, <3>1, <4>1
      <4>3. \A p \in Copies(flash', n) : p # o => flash'[p].state = IN_TRANSITION
        BY <4>2
      <4>4. o \in Copies(flash', n) /\ flash'[o].state = VAR_ADDED /\ Holds(flash', o, v)
        BY <1>5, <1>12, <2>1
      <4> HIDE DEF o
      <4>5. Value(flash', n) = v
        BY <2>8, <4>3, <4>4, NewFound
      <4> QED
        BY <2>4, <4>5
    <3>2. CASE ~(Copies(flash', n) \subseteq {op'.curr, op'.trans, o})
      BY <2>4, <2>7, <3>2 DEF Orphan
    <3> QED
      BY <3>1, <3>2
  <2>10. CallKept'
    BY <2>4, <2>9 DEF CallKept
  <2>11. Change
    BY <1>1, <1>10, <1>12, <2>1 DEF Change
  <2> QED
    BY <2>5, <2>6, <2>10, <2>11 DEF StoreInv
<1>13. CASE Len(c) <= Size /\ ReclaimFailed(c) /\ op' = None
  <2>1. /\ flash' \in {flash, Fill(c)} /\ cache' = flash' /\ lastOffset' = EndOfWalk(flash')
        /\ failures' = failures + 1 /\ failures < MaxFailures
    BY <1>13 DEF ReclaimFailed
  <2>2. Steady(flash', lastOffset')
    <3>1. CASE flash' = flash
      BY <1>2, <1>3, <2>1, <3>1
    <3>2. CASE flash' = Fill(c)
      <4>1. Steady(flash', Len(c) + 1)
        BY <1>5, <1>13, <3>2
      <4> QED
        BY <2>1, <4>1 DEF Steady
    <3> QED
      BY <2>1, <3>1, <3>2
  <2>3. flash' \in Store /\ lastOffset' \in 1 .. Size + 1
    BY <2>2, SteadyIs
  <2>4. failures' \in 0 .. MaxFailures
    BY <2>1, VariableAssumption DEF StoreInv, TypeOK
  <2>5. TypeOK'
    BY <1>1, <1>13, <2>1, <2>3, <2>4 DEF StoreInv, TypeOK
  <2>6. StoreKept'
    BY <1>1, <1>13, <2>1, <2>2 DEF StoreKept, Writing
  <2>7. Change
    BY <1>1, <1>10, <1>13, <2>1 DEF Change
  <2> QED
    BY <1>13, <2>5, <2>6, <2>7 DEF StoreInv
<1> QED
  BY <1>1, <1>11, <1>12, <1>13

-----------------------------------------------------------------------------
(* The theorems about the store                                             *)

LEMMA BlankIs ==
  Blank \in Store /\ Good(Blank)
<1>1. Blank \in Store /\ \A i \in Place : Blank[i] = Erased
  BY Headers DEF Blank, Store
<1>2. IsLog(Blank, {}, 1)
  BY <1>1, Headers DEF IsLog, IsHeader
<1>3. Logged(Blank, {}, 1)
  BY <1>1, <1>2 DEF Logged
<1> QED
  BY <1>1, <1>3, LoggedIs

LEMMA InitKept ==
  ASSUME Init PROVE StoreInv
<1>1. Blank \in Store /\ Good(Blank) /\ 1 \in 1 .. Size + 1 /\ 0 \in 0 .. MaxCalls
      /\ 0 \in 0 .. MaxFailures
  BY BlankIs, Headers, VariableAssumption
<1> QED
  BY <1>1 DEF Init, StoreInv, TypeOK, StoreKept, Writing

LEMMA FaultStays ==
  ASSUME Next, ~fault' PROVE ~fault
<1>1. CASE UpdateStep
  BY <1>1 DEF UpdateStep, SetVariable, MarkInTransition, UpdateState, WriteHeader, SetHeaderValid,
     WriteData, SetAdded, DeleteTransition, DeleteCurrent, OutOfResourcesAtRuntime, FvbError,
     ExitBootServices
<1>2. CASE SyncStep
  BY <1>2 DEF SyncStep, ReclaimForVariable, Return, WriteServiceInitialize, ReclaimForOS
<1>3. CASE Boot \/ PowerFailure
  BY <1>3 DEF Boot, PowerFailure
<1> QED
  BY <1>1, <1>2, <1>3 DEF Next

LEMMA StepKept ==
  ASSUME StoreInv, Next, ~fault' PROVE StoreInv' /\ Change
<1>1. CASE UpdateStep
  BY <1>1, SetVariableStep, MarkStep, FirstStepsStep, SetAddedStep, DeleteTransitionStep,
     DeleteCurrentStep, QuietStep, FvbErrorStep DEF UpdateStep
<1>2. CASE SyncStep
  BY <1>2, ReclaimForVariableStep, QuietStep, WriteServiceStep, ReclaimForOSStep DEF SyncStep
<1>3. CASE Boot \/ PowerFailure
  BY <1>3, BootStep, PowerFailureStep
<1> QED
  BY <1>1, <1>2, <1>3 DEF Next

LEMMA StutterKept ==
  ASSUME StoreInv, UNCHANGED vars PROVE StoreInv'
BY DEF vars, StoreInv, TypeOK, StoreKept, Writing, CallKept, Superseded, NewStored, Deleting,
       NewCopy, Orphan

LEMMA Invariance == Spec => []IInv
<1>1. Init => IInv
  BY InitKept DEF IInv
<1>2. IInv /\ [Next]_vars => IInv'
  <2> SUFFICES ASSUME IInv, [Next]_vars, ~fault' PROVE StoreInv'
    BY DEF IInv
  <2>1. CASE Next
    BY <2>1, FaultStays, StepKept DEF IInv
  <2>2. CASE UNCHANGED vars
    <3>1. StoreInv
      BY <2>2 DEF IInv, vars
    <3> QED
      BY <2>2, <3>1, StutterKept
  <2> QED
    BY <2>1, <2>2
<1> QED
  BY <1>1, <1>2, PTL DEF Spec

(* The flash, the copy in memory, the end of the log and the call in progress
   keep their types until an error leaves the free area spoilt.             *)
THEOREM StoreTyped == Spec => [](~fault => TypeOK)
<1>1. IInv => (~fault => TypeOK)
  BY DEF IInv, StoreInv
<1> QED
  BY <1>1, Invariance, PTL

(* Between calls the copy in memory is what is in flash, its walk ends where
   the next variable goes, and nothing is written from there on.            *)
THEOREM StoreInSync == Spec => []InSyncWithoutFault
<1>1. IInv => InSyncWithoutFault
  <2> SUFFICES ASSUME StoreInv, phase \in {"boot", "runtime"}, op = None
               PROVE  /\ cache = flash /\ lastOffset = EndOfWalk(cache)
                      /\ \A i \in lastOffset .. Size : flash[i] = Erased
    BY DEF IInv, InSyncWithoutFault, InSync
  <2> QED
    BY OutOfCall DEF Steady, Free
<1> QED
  BY <1>1, Invariance, PTL

(* A call of SetVariable that returns success has stored the value in flash, or
   removed the variable.                                                    *)
THEOREM SetVariableDone == Spec => []SetDone
<1>1. IInv => SetDone
  BY DEF IInv, StoreInv, SetDone, At, CallKept
<1> QED
  BY <1>1, Invariance, PTL

(* Power failures, interrupted writes, garbage collection and initialisation
   leave every variable with the value it had, or, the one that is being set,
   with the new one.                                                        *)
THEOREM OnlySetVariableChanges == Spec => OnlySetChanges
<1> DEFINE A == \A n \in Names :
                  Value(flash', n) # Value(flash, n) /\ ~Orphan(n) /\ ~fault' =>
                    op # None /\ op.name = n /\ Value(flash', n) = op.value
<1>1. IInv /\ [Next]_vars => [A]_vars
  <2> SUFFICES ASSUME IInv, Next, ~fault' PROVE Change
    BY DEF Change
  <2> QED
    BY FaultStays, StepKept DEF IInv
<1> QED
  BY <1>1, Invariance, PTL DEF Spec, OnlySetChanges

-----------------------------------------------------------------------------
(* The runtime cache                                                        *)

(* The runtime cache s gives for n what the store t gives, unless it has a copy
   of n that no search reports.  The store may have lost an old copy that was
   being deleted, or have marked the one a search finds.                    *)
Agree(s, t, n) ==
  Unreported(s, n) = {} =>
    /\ Copies(t, n) \subseteq Copies(s, n)
    /\ FindVariable(t, n).curr = FindVariable(s, n).curr
    /\ \A p \in Copies(t, n), v \in Values : Holds(s, p, v) <=> Holds(t, p, v)

(* The call in progress has not changed the value of n.                     *)
Unchanged(n) ==
  \/ op = None \/ op.name # n
  \/ op.pc \in {"mark", "write", "valid", "data", "added"}
  \/ op.value = None /\ op.pc \in {"deleteTrans", "deleteCurr"}

CacheKept ==
  /\ phase \in {"off", "read"} => rt = None
  /\ rt = None => reader = None
  /\ rt # None => Good(rt)
  /\ rt # None /\ ~pending => \A n \in Names : Unchanged(n) => Agree(rt, cache, n)

(* What a read has copied of the variable at p.                             *)
CopiedFrom(p) ==
  IF p = 0 THEN reader.pc = "return" /\ reader.got = <<>>
  ELSE /\ reader.ptr = p /\ reader.size = rt[p].size
       /\ Len(reader.got) <= reader.size
       /\ \A i \in 1 .. Len(reader.got) : reader.got[i] = rt[p + i]
       /\ reader.pc = "copy" => Len(reader.got) < reader.size
       /\ reader.pc = "return" => Len(reader.got) = reader.size

ReadKept ==
  /\ op = None => Value(cache, reader.name) \in reader.seen
  /\ reader.pc # "return" => ~reader.missed
  /\ reader.pc \in {"sync", "check"} => reader.got = <<>>
  /\ reader.pc \in {"copy", "return"} /\ ~reader.missed =>
       /\ Unreported(rt, reader.name) = {} => Value(rt, reader.name) \in reader.seen
       /\ CopiedFrom(FindVariable(rt, reader.name).curr)

CacheInv == StoreInv /\ CacheTypeOK /\ CacheKept /\ (reader # None => ReadKept)
CInv == ~fault => CacheInv

LEMMA AgreeSelf ==
  ASSUME NEW s, NEW n PROVE Agree(s, s, n)
BY DEF Agree

(* The same copies, and the same one found.                                 *)
LEMMA AgreeSame ==
  ASSUME NEW s, NEW t, NEW u, NEW n, Agree(s, t, n), Copies(u, n) = Copies(t, n),
         FindVariable(u, n).curr = FindVariable(t, n).curr,
         \A p \in Copies(t, n) : \A v : Holds(t, p, v) <=> Holds(u, p, v)
  PROVE  Agree(s, u, n)
BY DEF Agree

LEMMA AgreeValue ==
  ASSUME NEW s, NEW t, NEW n, Good(s), Good(t), Agree(s, t, n), Unreported(s, n) = {}
  PROVE  Value(s, n) = Value(t, n)
<1> DEFINE c == FindVariable(t, n).curr
<1>1. Logged(s, Walk(s), EndOfWalk(s)) /\ Logged(t, Walk(t), EndOfWalk(t))
  BY DEF Good
<1>2. /\ Copies(t, n) \subseteq Copies(s, n) /\ c = FindVariable(s, n).curr
      /\ \A p \in Copies(t, n), v \in Values : Holds(s, p, v) <=> Holds(t, p, v)
  BY DEF Agree
<1>3. /\ c \in Copies(t, n) \cup {0} /\ (c = 0 <=> Copies(t, n) = {})
      /\ (c = 0 <=> Copies(s, n) = {})
  BY <1>1, <1>2, FindIs
<1>4. CASE c = 0
  BY <1>1, <1>3, <1>4, ValueIs
<1>5. CASE c # 0
  <2>1. PICK v \in Values : Holds(t, c, v) /\ Value(t, n) = v
    BY <1>1, <1>3, <1>5, ValueIs
  <2>2. Holds(s, c, v) /\ Copies(s, n) # {}
    BY <1>2, <1>3, <1>5, <2>1
  <2>3. Value(s, n) = v
    BY <1>1, <1>2, <2>2, ValueFrom
  <2> QED
    BY <2>1, <2>3
<1> QED
  BY <1>4, <1>5

(* The copy in transition of a store all of whose copies are reported, and the
   other one, which comes before the one that is found.                     *)
LEMMA AgreeMarked ==
  ASSUME NEW s, Good(s), NEW t, NEW e, Steady(t, e), NEW n, Agree(s, t, n),
         NEW c, c = FindVariable(t, n).curr, c # 0,
         NEW u, u = ProgramState(t, c, {"transition"})
  PROVE  Agree(s, u, n)
<1> SUFFICES ASSUME Unreported(s, n) = {} PROVE Agree(s, u, n)
  BY DEF Agree
<1>1. c \in Copies(t, n) /\ \A p \in Copies(t, n) : p \in 1 .. Size
  BY Search
<1>2. /\ Copies(u, n) = Copies(t, n) /\ u[c].state = IN_TRANSITION
      /\ \A q \in Copies(t, n) : q # c => u[q].state = t[q].state
      /\ \A q \in Copies(t, n) : \A v : Holds(t, q, v) <=> Holds(u, q, v)
  BY <1>1, InTransitionIs
<1>3. Copies(t, n) \subseteq Copies(s, n) /\ c = FindVariable(s, n).curr
  BY DEF Agree
<1> DEFINE r == FindVariable(s, n).trans
<1>4. Copies(s, n) \subseteq {c, r} /\ (r # 0 => r < c)
  <2>1. Logged(s, Walk(s), EndOfWalk(s))
    BY DEF Good
  <2>2. r # 0 => r < c
    BY <1>3, <2>1, FindIs
  <2> QED
    BY <1>3, <2>2 DEF Unreported
<1>5. \A p \in Copies(t, n) : p <= c
  BY <1>1, <1>3, <1>4, Headers
<1>6. ASSUME NEW p \in AddedCopies(t, n) PROVE p = c
  <2>1. p \in Copies(t, n) /\ t[p].state = VAR_ADDED
    BY DEF AddedCopies
  <2>2. c <= p
    <3>1. AddedCopies(t, n) # {} /\ AddedCopies(t, n) \subseteq 0 .. Size
      BY <1>1, <1>6, Headers DEF AddedCopies
    <3>2. c = Min(AddedCopies(t, n))
      BY <3>1 DEF FindVariable, AddedCopies
    <3> QED
      BY <1>6, <3>1, <3>2, FirstOf
  <2> QED
    BY <1>1, <1>5, <2>1, <2>2, Headers
<1>7. AddedCopies(u, n) = {}
  <2>1. VAR_ADDED # IN_TRANSITION
    BY DEF VAR_ADDED, IN_TRANSITION
  <2> QED
    BY <1>1, <1>2, <1>6, <2>1 DEF AddedCopies
<1>8. Steady(u, e)
  <2>1. {"transition"} \in SUBSET Bit
    BY DEF Bit
  <2> QED
    BY <1>1, <2>1, SteadyMarked
<1>9. FindVariable(u, n).curr = c
  <2> DEFINE d == FindVariable(u, n).curr
  <2>1. /\ d \in 0 .. Size /\ (d # 0 => d \in Copies(u, n)) /\ (d = 0 => Copies(u, n) = {})
        /\ \A p \in Copies(u, n) : p <= d
    BY <1>7, <1>8, Search
  <2>2. d \in Copies(t, n) /\ c <= d
    BY <1>1, <1>2, <2>1
  <2> QED
    BY <1>1, <1>5, <2>2, Headers
<1> QED
  BY <1>2, <1>9, AgreeSame

(* DeleteTransition of a variable that is being deleted.                    *)
LEMMA AgreeDeleted ==
  ASSUME NEW s, NEW t, NEW e, Steady(t, e), NEW n, Agree(s, t, n),
         NEW r, r = FindVariable(t, n).trans, r # 0,
         NEW u, u = ProgramState(t, r, {"deleted"})
  PROVE  Agree(s, u, n)
<1>1. /\ r \in Copies(t, n) /\ FindVariable(t, n).curr \in AddedCopies(t, n)
      /\ t[r].state = IN_TRANSITION
  BY Search
<1>2. /\ Copies(u, n) = Copies(t, n) \ {r}
      /\ \A q \in Copies(u, n) : u[q] = t[q]
      /\ \A q \in Copies(t, n) : \A v : Holds(t, q, v) <=> Holds(u, q, v)
  BY <1>1, DeletedIs
<1>3. VAR_ADDED # IN_TRANSITION
  BY DEF VAR_ADDED, IN_TRANSITION
<1>4. AddedCopies(u, n) = AddedCopies(t, n)
  BY <1>1, <1>2, <1>3 DEF AddedCopies
<1>5. FindVariable(u, n).curr = FindVariable(t, n).curr
  BY <1>1, <1>4, SameFirst
<1> QED
  BY <1>2, <1>5 DEF Agree

(* A bit of a copy of the variable in the call says nothing about the others. *)
LEMMA OtherAgrees ==
  ASSUME NEW t, NEW e, Steady(t, e), NEW n, NEW p \in Copies(t, n), NEW bit \in Bit,
         NEW u, u = ProgramState(t, p, {bit}), NEW m, m # n, NEW s, Agree(s, t, m)
  PROVE  Agree(s, u, m)
<1>1. {bit} \in SUBSET Bit
  OBVIOUS
<1>2. /\ \A q \in Walk(t) : \A v : Live(t, q) => (Holds(t, q, v) <=> Holds(u, q, v))
      /\ Copies(u, m) = Copies(t, m) /\ FindVariable(u, m) = FindVariable(t, m)
  BY <1>1, SteadyMarked
<1>3. \A q \in Copies(t, m) : q \in Walk(t) /\ Live(t, q)
  BY DEF Copies, Live
<1> QED
  BY <1>2, <1>3, AgreeSame

(* The steps of a call in which a state byte is programmed.                 *)
LEMMA ByteAgrees ==
  ASSUME StoreInv, MarkInTransition \/ DeleteTransition \/ DeleteCurrent,
         NEW s, Good(s), NEW m, Unchanged(m)'
  PROVE  Unchanged(m) /\ (Agree(s, cache, m) => Agree(s, cache', m))
<1> DEFINE n == op.name
<1>1. /\ op # None /\ op.pc \in {"mark", "deleteTrans", "deleteCurr"}
      /\ op.pc = "mark" => UpdateState(op.curr, "transition") /\ Continue("write")
      /\ op.pc = "deleteTrans" => UpdateState(op.trans, "deleted") /\ Continue("deleteCurr")
      /\ op.pc = "deleteCurr" => UpdateState(op.curr, "deleted") /\ Continue("done")
  BY DEF MarkInTransition, DeleteTransition, DeleteCurrent, At
<1>2. op \in Op /\ Steady(cache, lastOffset) /\ CallKept
  BY <1>1, InCall
<1>3. PICK pc \in {"write", "deleteCurr", "done"} : Continue(pc)
  BY <1>1
<1>4. /\ op' # None /\ op'.pc = pc /\ op'.name = n /\ op'.value = op.value
  <2>1. pc \in Pc
    BY DEF Pc
  <2> QED
    BY <1>2, <1>3, <2>1, NextPc DEF Continue
<1>5. "transition" \in Bit /\ "deleted" \in Bit
  BY DEF Bit
<1>6. CASE op.pc = "mark"
  <2>1. /\ op.curr = FindVariable(cache, n).curr /\ op.curr # 0
        /\ cache' = ProgramState(cache, op.curr, {"transition"})
    BY <1>1, <1>2, <1>6 DEF CallKept, UpdateState
  <2>2. op.curr \in Copies(cache, n)
    BY <1>2, <2>1, Search
  <2>3. m = n /\ Agree(s, cache, m) => Agree(s, cache', m)
    BY <1>2, <2>1, AgreeMarked
  <2>4. m # n /\ Agree(s, cache, m) => Agree(s, cache', m)
    BY <1>2, <1>5, <2>1, <2>2, OtherAgrees
  <2> QED
    BY <1>6, <2>3, <2>4 DEF Unchanged
<1>7. CASE op.pc = "deleteTrans"
  <2>1. /\ op.trans \in Copies(cache, n) /\ op.trans # 0
        /\ op.value = None => op.trans = FindVariable(cache, n).trans
        /\ cache' = ProgramState(cache, op.trans, {"deleted"})
    BY <1>1, <1>2, <1>7 DEF CallKept, UpdateState, Superseded, Deleting
  <2>2. op'.pc = "deleteCurr"
    <3>1. Continue("deleteCurr") /\ "deleteCurr" \in Pc
      BY <1>1, <1>7 DEF Pc
    <3> QED
      BY <1>2, <3>1, NextPc DEF Continue
  <2>3. m # n \/ op.value = None
    BY <1>4, <2>2 DEF Unchanged
  <2>4. m = n /\ Agree(s, cache, m) => Agree(s, cache', m)
    BY <1>2, <2>1, <2>3, AgreeDeleted
  <2>5. m # n /\ Agree(s, cache, m) => Agree(s, cache', m)
    BY <1>2, <1>5, <2>1, OtherAgrees
  <2> QED
    BY <1>7, <2>3, <2>4, <2>5 DEF Unchanged
<1>8. CASE op.pc = "deleteCurr"
  <2>1. op.curr \in Copies(cache, n) /\ cache' = ProgramState(cache, op.curr, {"deleted"})
    BY <1>1, <1>2, <1>8 DEF CallKept, UpdateState
  <2>2. op'.pc = "done"
    <3>1. Continue("done") /\ "done" \in Pc
      BY <1>1, <1>8 DEF Pc
    <3> QED
      BY <1>2, <3>1, NextPc DEF Continue
  <2>3. m # n
    BY <1>4, <2>2 DEF Unchanged
  <2>4. Agree(s, cache, m) => Agree(s, cache', m)
    BY <1>2, <1>5, <2>1, <2>3, OtherAgrees
  <2> QED
    BY <2>3, <2>4 DEF Unchanged
<1> QED
  BY <1>1, <1>6, <1>7, <1>8

(* The step that makes the new variable visible.                            *)
LEMMA AddedAgrees ==
  ASSUME StoreInv, SetAdded, NEW s, NEW m, Unchanged(m)'
  PROVE  Unchanged(m) /\ (Agree(s, cache, m) => Agree(s, cache', m))
<1> DEFINE n == op.name
           v == op.value
<1>1. /\ op # None /\ op.pc = "added" /\ Continue(RemoveOld(op))
      /\ cache' = Stored(cache, lastOffset, n, v)
  BY DEF SetAdded, At, Stored
<1>2. /\ op \in Op /\ n \in Names /\ Steady(cache, lastOffset) /\ CallKept
      /\ lastOffset + DataSize[v] <= Size
  BY <1>1, InCall
<1>3. v \in Values /\ v # None
  BY <1>1, <1>2, Headers DEF CallKept
<1>4. RemoveOld(op) \in {"done", "deleteTrans", "deleteCurr"}
  BY DEF RemoveOld
<1>5. op' # None /\ op'.pc = RemoveOld(op) /\ op'.name = n /\ op'.value = v
  <2> DEFINE pc == RemoveOld(op)
  <2>1. pc \in Pc /\ op' = [op EXCEPT !.pc = pc]
    BY <1>1, <1>4 DEF Pc, Continue
  <2> HIDE DEF pc
  <2>2. op' # None /\ op'.pc = pc /\ op'.name = n /\ op'.value = v
    BY <1>2, <2>1, NextPc
  <2> QED
    BY <2>2 DEF pc
<1>6. m # n
  BY <1>3, <1>4, <1>5 DEF Unchanged
<1>7. /\ Copies(cache', m) = Copies(cache, m)
      /\ FindVariable(cache', m) = FindVariable(cache, m)
      /\ \A p \in Copies(cache, m) : \A w : Holds(cache, p, w) <=> Holds(cache', p, w)
  BY <1>1, <1>2, <1>3, <1>6, StoredIs
<1>8. Agree(s, cache, m) => Agree(s, cache', m)
  BY <1>7, AgreeSame
<1> QED
  BY <1>6, <1>8 DEF Unchanged

(* The steps that leave the copy in memory alone.                           *)
LEMMA RestAgrees ==
  ASSUME StoreInv, ~fault', NEW m, Unchanged(m)',
         \/ \E n \in Names, v \in Values \cup {None} : SetVariable(n, v)
         \/ WriteHeader \/ SetHeaderValid \/ WriteData
         \/ OutOfResourcesAtRuntime \/ FvbError \/ ExitBootServices
  PROVE  Unchanged(m) /\ cache' = cache
<1>1. CASE (\E n \in Names, v \in Values \cup {None} : SetVariable(n, v)) \/ ExitBootServices
  BY <1>1 DEF SetVariable, ExitBootServices, Unchanged
<1>2. CASE WriteHeader \/ SetHeaderValid \/ WriteData \/ OutOfResourcesAtRuntime
  BY <1>2 DEF WriteHeader, SetHeaderValid, WriteData, OutOfResourcesAtRuntime, At, Unchanged
<1>3. CASE FvbError
  <2>1. /\ op # None /\ op.pc # "done" /\ cache' = cache
        /\ ~(op.value # None /\ op.pc \in {"deleteTrans", "deleteCurr"})
    BY <1>3 DEF FvbError
  <2>2. op.pc \in Pc
    BY <2>1, InCall
  <2> QED
    BY <2>1, <2>2 DEF Unchanged, Pc
<1> QED
  BY <1>1, <1>2, <1>3

(* What is in the runtime cache stays current until the call changes the
   value, through marks and deletes, failed writes and errors.              *)
LEMMA UpdateAgrees ==
  ASSUME StoreInv, UpdateStep, ~fault', NEW s, Good(s), NEW m, Unchanged(m)'
  PROVE  Unchanged(m) /\ (Agree(s, cache, m) => Agree(s, cache', m))
<1>1. CASE MarkInTransition \/ DeleteTransition \/ DeleteCurrent
  BY <1>1, ByteAgrees
<1>2. CASE SetAdded
  BY <1>2, AddedAgrees
<1>3. CASE \/ \E n \in Names, v \in Values \cup {None} : SetVariable(n, v)
           \/ WriteHeader \/ SetHeaderValid \/ WriteData
           \/ OutOfResourcesAtRuntime \/ FvbError \/ ExitBootServices
  BY <1>3, RestAgrees
<1> QED
  BY <1>1, <1>2, <1>3 DEF UpdateStep

-----------------------------------------------------------------------------
(* Every step keeps the invariant of the runtime cache                      *)

LEMMA ValueTyped ==
  ASSUME NEW s, Good(s), NEW n PROVE Value(s, n) \in Values \cup {None, Torn}
BY ValueIs DEF Good

LEMMA InPhase ==
  ASSUME StoreInv, phase \in {"boot", "runtime"} PROVE Good(cache) /\ cache \in Store
BY DEF StoreInv, StoreKept, Steady, TypeOK

LEMMA UpdatePhase ==
  ASSUME StoreInv, UpdateStep
  PROVE  phase \in {"boot", "runtime"} /\ phase' \in {"boot", "runtime"}
<1>1. CASE op = None
  BY <1>1 DEF UpdateStep, SetVariable, MarkInTransition, WriteHeader, SetHeaderValid, WriteData,
     SetAdded, DeleteTransition, DeleteCurrent, OutOfResourcesAtRuntime, FvbError,
     ExitBootServices, At
<1>2. CASE op # None
  <2>1. phase \in {"boot", "runtime"}
    BY <1>2, InCall
  <2>2. phase' \in {phase, "runtime"}
    BY DEF UpdateStep, SetVariable, MarkInTransition, UpdateState, WriteHeader, SetHeaderValid,
       WriteData, SetAdded, DeleteTransition, DeleteCurrent, OutOfResourcesAtRuntime, FvbError,
       ExitBootServices
  <2> QED
    BY <2>1, <2>2
<1> QED
  BY <1>1, <1>2

LEMMA SyncPhase ==
  ASSUME StoreInv, SyncStep PROVE phase' \in {"boot", "runtime"}
<1>1. CASE ReclaimForVariable \/ WriteServiceInitialize \/ ReclaimForOS
  BY <1>1 DEF ReclaimForVariable, WriteServiceInitialize, ReclaimForOS
<1>2. CASE Return
  BY <1>2, InCall DEF Return, At
<1> QED
  BY <1>1, <1>2 DEF SyncStep

(* A read in progress while a call in SMM goes on and the runtime cache stays. *)
LEMMA ObserveKept ==
  ASSUME reader \in Reader, reader # None, ReadKept, Observe, rt' = rt, Good(cache')
  PROVE  reader' \in Reader /\ ReadKept'
<1>1. CASE op' # None
  <2>1. reader' = reader
    BY <1>1 DEF Observe
  <2> QED
    BY <1>1, <2>1 DEF ReadKept, CopiedFrom
<1>2. CASE op' = None
  <2> DEFINE x == Value(cache', reader.name)
             seen == reader.seen \cup {x}
  <2>1. reader' = [reader EXCEPT !.seen = seen]
    BY <1>2 DEF Observe, Reader
  <2>2. x \in Values \cup {None, Torn}
    BY ValueTyped
  <2>3. seen \in SUBSET (Values \cup {None, Torn}) /\ x \in seen /\ reader.seen \subseteq seen
    BY <2>2 DEF Reader
  <2> HIDE DEF seen
  <2>4. reader' \in Reader
    BY <2>1, <2>3 DEF Reader
  <2>5. /\ reader'.name = reader.name /\ reader'.pc = reader.pc /\ reader'.ptr = reader.ptr
        /\ reader'.size = reader.size /\ reader'.got = reader.got
        /\ reader'.missed = reader.missed /\ reader'.seen = seen
    BY <2>1 DEF Reader
  <2>6. Value(cache', reader'.name) \in reader'.seen
    BY <2>3, <2>5
  <2> QED
    BY <2>3, <2>4, <2>5, <2>6 DEF ReadKept, CopiedFrom
<1> QED
  BY <1>1, <1>2

LEMMA UpdateKept ==
  ASSUME CacheInv, StoreInv', ~fault', UpdateStep, Observe, rt' = rt, pending' = pending
  PROVE  CacheInv'
<1>1. StoreInv /\ CacheTypeOK /\ CacheKept /\ (reader # None => ReadKept)
  BY DEF CacheInv
<1>2. phase \in {"boot", "runtime"} /\ phase' \in {"boot", "runtime"}
  BY <1>1, UpdatePhase
<1>3. Good(cache')
  BY <1>2 DEF StoreInv, StoreKept, Steady
<1>4. reader = None => reader' = None
  BY DEF Observe
<1>5. reader # None => reader' \in Reader /\ ReadKept'
  BY <1>1, <1>3, ObserveKept DEF CacheTypeOK
<1>6. CacheTypeOK'
  BY <1>1, <1>4, <1>5 DEF CacheTypeOK, StoreInv
<1>7. ASSUME rt # None, ~pending, NEW n \in Names, Unchanged(n)'
      PROVE  Agree(rt, cache', n)
  <2>1. Good(rt)
    BY <1>1, <1>7 DEF CacheKept
  <2>2. Unchanged(n) /\ (Agree(rt, cache, n) => Agree(rt, cache', n))
    BY <1>1, <1>7, <2>1, UpdateAgrees
  <2> QED
    BY <1>1, <1>7, <2>2 DEF CacheKept
<1>8. CacheKept'
  BY <1>1, <1>2, <1>4, <1>7 DEF CacheKept
<1> QED
  BY <1>4, <1>5, <1>6, <1>8 DEF CacheInv

LEMMA SyncKept ==
  ASSUME CacheInv, StoreInv', SyncStep, SynchronizeRuntimeVariableCache, Observe
  PROVE  CacheInv'
<1>1. StoreInv /\ CacheTypeOK /\ CacheKept /\ (reader # None => ReadKept)
  BY DEF CacheInv
<1>2. phase' \in {"boot", "runtime"}
  BY <1>1, SyncPhase
<1>3. Good(cache') /\ cache' \in Store
  BY <1>2 DEF StoreInv, StoreKept, Steady, TypeOK
<1>4. reader = None => reader' = None
  BY DEF Observe
<1>5. \/ rt = None /\ rt' = rt /\ pending' = pending
      \/ rt # None /\ reader # None /\ pending' = TRUE /\ rt' = rt
      \/ rt # None /\ reader = None /\ rt' = cache' /\ pending' = FALSE
  BY DEF SynchronizeRuntimeVariableCache, ReadLock, Flush
<1>6. reader # None => rt' = rt /\ reader' \in Reader /\ ReadKept'
  <2>1. reader # None => rt' = rt
    BY <1>1, <1>5 DEF CacheKept
  <2> QED
    BY <1>1, <1>3, <2>1, ObserveKept DEF CacheTypeOK
<1>7. CacheTypeOK'
  BY <1>1, <1>3, <1>4, <1>5, <1>6 DEF CacheTypeOK, StoreInv
<1>8. CacheKept'
  <2>1. CASE rt = None /\ rt' = rt /\ pending' = pending
    BY <1>1, <1>2, <1>4, <2>1 DEF CacheKept
  <2>2. CASE rt # None /\ reader # None /\ pending' = TRUE /\ rt' = rt
    BY <1>1, <1>2, <2>2 DEF CacheKept
  <2>3. CASE rt # None /\ reader = None /\ rt' = cache' /\ pending' = FALSE
    <3>1. \A n : Agree(rt', cache', n)
      BY <2>3, AgreeSelf
    <3> QED
      BY <1>2, <1>3, <1>4, <2>3, <3>1 DEF CacheKept
  <2> QED
    BY <1>5, <2>1, <2>2, <2>3
<1> QED
  BY <1>4, <1>6, <1>7, <1>8 DEF CacheInv

LEMMA InitCacheKept ==
  ASSUME CacheInv, StoreInv', InitRuntimeCache PROVE CacheInv'
<1>1. StoreInv /\ CacheTypeOK /\ CacheKept
  BY DEF CacheInv
<1>2. /\ phase = "boot" /\ phase' = phase /\ rt = None /\ rt' = Blank /\ pending' = TRUE
      /\ reader' = reader
  BY DEF InitRuntimeCache, vars
<1>3. reader = None
  BY <1>1, <1>2 DEF CacheKept
<1> QED
  BY <1>1, <1>2, <1>3, BlankIs, RuntimeCacheAssumption
     DEF CacheInv, CacheTypeOK, CacheKept, StoreInv

LEMMA RestartKept ==
  ASSUME CacheInv, StoreInv',
         \/ Restart
         \/ Boot /\ rt' = rt /\ pending' = pending /\ reader' = reader
  PROVE  CacheInv'
<1>1. StoreInv /\ CacheTypeOK /\ CacheKept
  BY DEF CacheInv
<1>2. rt' = None /\ reader' = None /\ pending' \in BOOLEAN
  BY <1>1 DEF Restart, Boot, cacheVars, CacheKept, CacheTypeOK
<1> QED
  BY <1>2 DEF CacheInv, CacheTypeOK, CacheKept, StoreInv

(* A step of the reader leaves the store alone.                             *)
LEMMA ReaderStep ==
  ASSUME CacheInv, UNCHANGED vars, rt' # None, Good(rt'), pending' \in BOOLEAN,
         \/ rt' = rt /\ pending' = pending
         \/ rt' = cache,
         reader' # None => reader' \in Reader /\ ReadKept',
         phase \in {"boot", "runtime"}
  PROVE  CacheInv'
<1>1. StoreInv /\ CacheTypeOK /\ CacheKept
  BY DEF CacheInv
<1>2. StoreInv' /\ phase' = phase /\ cache' = cache
  BY <1>1, StutterKept DEF vars
<1>3. \A n : Unchanged(n)' <=> Unchanged(n)
  BY DEF Unchanged, vars
<1>4. rt' \in Store
  BY GoodIs
<1>5. CacheTypeOK'
  BY <1>2, <1>4 DEF CacheTypeOK, StoreInv
<1>6. ~pending' => \A n \in Names : Unchanged(n)' => Agree(rt', cache', n)
  <2>1. CASE rt' = rt /\ pending' = pending
    BY <1>1, <1>2, <1>3, <2>1 DEF CacheKept
  <2>2. CASE rt' = cache
    BY <1>2, <2>2, AgreeSelf
  <2> QED
    BY <2>1, <2>2
<1>7. CacheKept'
  BY <1>2, <1>6 DEF CacheKept
<1> QED
  BY <1>2, <1>5, <1>7 DEF CacheInv

LEMMA InRead ==
  ASSUME CacheInv, NEW pc, Reading(pc)
  PROVE  /\ reader \in Reader /\ reader # None /\ reader.pc = pc /\ ReadKept /\ op = None
         /\ rt # None /\ Good(rt) /\ phase \in {"boot", "runtime"}
         /\ StoreInv /\ CacheKept /\ Good(cache) /\ cache \in Store /\ pending \in BOOLEAN
<1>1. /\ phase \in {"boot", "runtime"} /\ op = None /\ reader # None /\ reader.pc = pc
  BY DEF Reading
<1>2. Good(cache) /\ cache \in Store
  BY <1>1, InPhase DEF CacheInv
<1> QED
  BY <1>1, <1>2 DEF CacheInv, CacheTypeOK, CacheKept

LEMMA BeginKept ==
  ASSUME CacheInv, NEW n \in Names, BeginRead(n) PROVE CacheInv'
<1>1. /\ phase \in {"boot", "runtime"} /\ op = None /\ rt # None
      /\ rt' = rt /\ pending' = pending /\ UNCHANGED vars
  BY DEF BeginRead
<1>2. Good(cache) /\ Good(rt) /\ pending \in BOOLEAN
  BY <1>1, InPhase DEF CacheInv, CacheKept, CacheTypeOK
<1>3. /\ Value(cache, n) \in Values \cup {None, Torn} /\ Size \in Nat
      /\ <<>> \in Seq(Values \cup {Torn})
  BY <1>2, ValueTyped, Headers
<1>4. reader' \in Reader
  BY <1>3 DEF BeginRead, Reader
<1>5. /\ reader'.name = n /\ reader'.pc = "sync" /\ reader'.got = <<>> /\ reader'.missed = FALSE
      /\ reader'.seen = {Value(cache, n)}
  BY DEF BeginRead
<1>6. ReadKept'
  BY <1>1, <1>5 DEF ReadKept, vars
<1> QED
  BY <1>1, <1>2, <1>4, <1>6, ReaderStep

LEMMA SyncReadKept ==
  ASSUME CacheInv, CheckForRuntimeCacheSync PROVE CacheInv'
<1>1. /\ Reading("sync") /\ UNCHANGED vars
      /\ \/ rt' = cache /\ pending' = FALSE
         \/ rt' = rt /\ pending' = pending
      /\ reader' = [reader EXCEPT !.pc = "check"]
  BY DEF CheckForRuntimeCacheSync, Flush
<1>2. /\ reader \in Reader /\ reader.pc = "sync" /\ ReadKept /\ op = None
      /\ rt # None /\ Good(rt) /\ phase \in {"boot", "runtime"}
      /\ Good(cache) /\ cache \in Store /\ pending \in BOOLEAN
  BY <1>1, InRead
<1>3. rt' # None /\ Good(rt') /\ pending' \in BOOLEAN
  BY <1>1, <1>2, RuntimeCacheAssumption
<1>4. /\ reader' \in Reader /\ reader'.name = reader.name /\ reader'.pc = "check"
      /\ reader'.got = reader.got /\ reader'.missed = reader.missed /\ reader'.seen = reader.seen
  BY <1>1, <1>2 DEF Reader
<1>5. ReadKept'
  BY <1>1, <1>2, <1>4 DEF ReadKept, vars
<1> QED
  BY <1>1, <1>2, <1>3, <1>4, <1>5, ReaderStep

(* The variable a search of the runtime cache finds.                        *)
LEMMA FoundInCache ==
  ASSUME NEW s, Good(s), NEW n, NEW p, p = FindVariable(s, n).curr
  PROVE  /\ p \in 0 .. Size
         /\ p = 0 => Value(s, n) = None
         /\ p # 0 => /\ s[p].size \in 0 .. Size /\ s[p].size > 0
                     /\ \E v \in Values : Holds(s, p, v) /\ Value(s, n) = v
<1>1. Logged(s, Walk(s), EndOfWalk(s)) /\ Size \in Nat
  BY Headers DEF Good
<1>2. /\ p \in Copies(s, n) \cup {0} /\ (p = 0 <=> Copies(s, n) = {})
      /\ Copies(s, n) \subseteq Walk(s)
      /\ \A q \in Copies(s, n) : q \in 1 .. Size /\ Live(s, q)
  BY <1>1, FindIs
<1>3. p # 0 => s[p].size \in 0 .. Size /\ s[p].size > 0
  BY <1>1, <1>2, Within
<1> QED
  BY <1>1, <1>2, <1>3, ValueIs

LEMMA FindKept ==
  ASSUME CacheInv, FindInCache PROVE CacheInv'
<1> DEFINE n == reader.name
           p == FindVariable(rt, n).curr
<1>1. /\ Reading("check") /\ UNCHANGED vars /\ rt' = rt /\ pending' = pending
      /\ \/ pending /\ reader' = [reader EXCEPT !.pc = "return", !.missed = TRUE]
         \/ ~pending /\ p = 0 /\ reader' = [reader EXCEPT !.pc = "return"]
         \/ ~pending /\ p # 0
            /\ reader' = [reader EXCEPT !.pc = "copy", !.ptr = p, !.size = rt[p].size]
  BY DEF FindInCache
<1>2. /\ reader \in Reader /\ reader.pc = "check" /\ ReadKept /\ op = None
      /\ rt # None /\ Good(rt) /\ phase \in {"boot", "runtime"} /\ CacheKept
      /\ Good(cache) /\ pending \in BOOLEAN
  BY <1>1, InRead
<1>3. n \in Names /\ reader.got = <<>> /\ ~reader.missed /\ Value(cache, n) \in reader.seen
  BY <1>2 DEF ReadKept, Reader
<1>4. /\ p \in 0 .. Size
      /\ p # 0 => rt[p].size \in 0 .. Size /\ rt[p].size > 0
  BY <1>2, FoundInCache
<1>5. ~pending /\ Unreported(rt, n) = {} => Value(rt, n) \in reader.seen
  <2> SUFFICES ASSUME ~pending, Unreported(rt, n) = {} PROVE Value(rt, n) \in reader.seen
    OBVIOUS
  <2>1. Agree(rt, cache, n)
    BY <1>2, <1>3 DEF CacheKept, Unchanged
  <2>2. Value(rt, n) = Value(cache, n)
    BY <1>2, <2>1, AgreeValue
  <2> QED
    BY <1>3, <2>2
<1> HIDE DEF p
<1>6. CASE pending /\ reader' = [reader EXCEPT !.pc = "return", !.missed = TRUE]
  <2>1. /\ reader' \in Reader /\ reader'.name = n /\ reader'.pc = "return"
        /\ reader'.missed = TRUE /\ reader'.seen = reader.seen
    BY <1>2, <1>6 DEF Reader
  <2>2. ReadKept'
    BY <1>1, <1>3, <2>1 DEF ReadKept, vars
  <2> QED
    BY <1>1, <1>2, <2>1, <2>2, ReaderStep
<1>7. CASE ~pending /\ p = 0 /\ reader' = [reader EXCEPT !.pc = "return"]
  <2>1. /\ reader' \in Reader /\ reader'.name = n /\ reader'.pc = "return"
        /\ reader'.got = <<>> /\ reader'.seen = reader.seen
    BY <1>2, <1>3, <1>7 DEF Reader
  <2>2. FindVariable(rt', reader'.name).curr = 0
    BY <1>1, <1>7, <2>1 DEF p
  <2>3. ReadKept'
    BY <1>1, <1>3, <1>5, <1>7, <2>1, <2>2 DEF ReadKept, CopiedFrom, vars
  <2> QED
    BY <1>1, <1>2, <2>1, <2>3, ReaderStep
<1>8. CASE ~pending /\ p # 0
           /\ reader' = [reader EXCEPT !.pc = "copy", !.ptr = p, !.size = rt[p].size]
  <2>1. /\ reader' \in Reader /\ reader'.name = n /\ reader'.pc = "copy" /\ reader'.ptr = p
        /\ reader'.size = rt[p].size /\ reader'.missed = reader.missed
        /\ reader'.got = <<>> /\ reader'.seen = reader.seen
    BY <1>2, <1>3, <1>4, <1>8 DEF Reader
  <2>2. FindVariable(rt', reader'.name).curr = p
    BY <1>1, <2>1 DEF p
  <2>3. CopiedFrom(FindVariable(rt, reader.name).curr)'
    BY <1>1, <1>4, <1>8, <2>1, <2>2 DEF CopiedFrom
  <2>4. ReadKept'
    BY <1>1, <1>3, <1>5, <1>8, <2>1, <2>3 DEF ReadKept, vars
  <2> QED
    BY <1>1, <1>2, <2>1, <2>4, ReaderStep
<1> QED
  BY <1>1, <1>6, <1>7, <1>8

LEMMA CopyKept ==
  ASSUME CacheInv, CopyCell PROVE CacheInv'
<1> DEFINE n == reader.name
           p == FindVariable(rt, n).curr
           k == Len(reader.got)
           g == Append(reader.got, rt[reader.ptr + k + 1])
           pc == IF Len(g) = reader.size THEN "return" ELSE "copy"
<1>1. /\ Reading("copy") /\ UNCHANGED vars /\ rt' = rt /\ pending' = pending
      /\ reader' = [reader EXCEPT !.got = g, !.pc = pc]
  BY DEF CopyCell
<1>2. /\ reader \in Reader /\ reader.pc = "copy" /\ ReadKept /\ op = None
      /\ rt # None /\ Good(rt) /\ phase \in {"boot", "runtime"} /\ pending \in BOOLEAN
  BY <1>1, InRead
<1>3. ~reader.missed /\ CopiedFrom(p)
      /\ Value(cache, n) \in reader.seen
      /\ (Unreported(rt, n) = {} => Value(rt, n) \in reader.seen)
  BY <1>2 DEF ReadKept
<1>4. /\ p # 0 /\ reader.ptr = p /\ reader.size = rt[p].size /\ k < reader.size
      /\ \A i \in 1 .. k : reader.got[i] = rt[p + i]
  BY <1>2, <1>3 DEF CopiedFrom
<1>5. PICK v \in Values : Holds(rt, p, v)
  BY <1>2, <1>4, FoundInCache
<1>6. p \in 0 .. Size /\ rt[p].size \in 0 .. Size /\ Size \in Nat
  BY <1>2, <1>4, FoundInCache, Headers
<1>7. reader.got \in Seq(Values \cup {Torn}) /\ k \in Nat
  BY <1>2 DEF Reader
<1>8. rt[p + k + 1] = v
  <2> HIDE DEF k, p
  <2>1. k + 1 \in 1 .. rt[p].size /\ p + (k + 1) = p + k + 1
    BY <1>4, <1>6, <1>7
  <2>2. rt[p + (k + 1)] = v
    BY <1>5, <2>1 DEF Holds
  <2> QED
    BY <2>1, <2>2
<1>9. /\ g \in Seq(Values \cup {Torn}) /\ Len(g) = k + 1
      /\ \A i \in 1 .. k : g[i] = reader.got[i]
      /\ g[k + 1] = v
  BY <1>4, <1>7, <1>8
<1> HIDE DEF g, k, p
<1>10. pc \in {"return", "copy"} /\ (pc = "return" <=> Len(g) = reader.size)
  OBVIOUS
<1> HIDE DEF pc
<1>11. /\ reader' \in Reader /\ reader'.name = n /\ reader'.pc = pc /\ reader'.ptr = reader.ptr
       /\ reader'.size = reader.size /\ reader'.missed = reader.missed
       /\ reader'.got = g /\ reader'.seen = reader.seen
  BY <1>1, <1>2, <1>9, <1>10 DEF Reader
<1>12. \A i \in 1 .. k + 1 : g[i] = rt[p + i]
  <2> SUFFICES ASSUME NEW i \in 1 .. k + 1 PROVE g[i] = rt[p + i]
    OBVIOUS
  <2>1. CASE i \in 1 .. k
    BY <1>4, <1>9, <2>1
  <2>2. CASE i = k + 1
    <3>1. p + i = p + k + 1
      BY <1>6, <1>7, <2>2
    <3> QED
      BY <1>8, <1>9, <2>2, <3>1
  <2> QED
    BY <1>7, <2>1, <2>2
<1>13. FindVariable(rt', reader'.name).curr = p
  BY <1>1, <1>11 DEF p
<1>14. CopiedFrom(FindVariable(rt, reader.name).curr)'
  <2>1. Len(g) <= reader.size /\ (pc = "copy" => Len(g) < reader.size)
    BY <1>4, <1>6, <1>7, <1>9, <1>10
  <2> QED
    BY <1>1, <1>4, <1>9, <1>10, <1>11, <1>12, <1>13, <2>1 DEF CopiedFrom
<1>15. ReadKept'
  BY <1>1, <1>3, <1>10, <1>11, <1>14 DEF ReadKept, vars
<1> QED
  BY <1>1, <1>2, <1>11, <1>15, ReaderStep

LEMMA EndKept ==
  ASSUME CacheInv, EndRead PROVE CacheInv'
<1>1. Reading("return") /\ UNCHANGED vars /\ rt' = rt /\ pending' = pending /\ reader' = None
  BY DEF EndRead
<1>2. rt # None /\ Good(rt) /\ phase \in {"boot", "runtime"} /\ pending \in BOOLEAN
  BY <1>1, InRead
<1> QED
  BY <1>1, <1>2, ReaderStep

-----------------------------------------------------------------------------
(* The theorems about the runtime cache                                     *)

(* A step of the composed system is a step of the store or leaves it alone. *)
LEMMA StoreStep ==
  ASSUME CacheNext PROVE Next \/ UNCHANGED vars
BY DEF CacheNext, Next, Restart, InitRuntimeCache, BeginRead, CheckForRuntimeCacheSync, FindInCache,
       CopyCell, EndRead

LEMMA CacheStepKept ==
  ASSUME CacheInv, CacheNext, ~fault' PROVE CacheInv'
<1>1. StoreInv'
  <2>1. StoreInv
    BY DEF CacheInv
  <2> QED
    BY <2>1, StoreStep, StepKept, StutterKept
<1>2. CASE UpdateStep /\ Observe /\ UNCHANGED <<rt, pending>>
  <2>1. rt' = rt /\ pending' = pending
    BY <1>2
  <2> QED
    BY <1>1, <1>2, <2>1, UpdateKept
<1>3. CASE SyncStep /\ SynchronizeRuntimeVariableCache /\ Observe
  BY <1>1, <1>3, SyncKept
<1>4. CASE Restart \/ (Boot /\ UNCHANGED cacheVars)
  BY <1>1, <1>4, RestartKept DEF cacheVars
<1>5. CASE InitRuntimeCache
  BY <1>1, <1>5, InitCacheKept
<1>6. CASE \E n \in Names : BeginRead(n)
  BY <1>6, BeginKept
<1>7. CASE CheckForRuntimeCacheSync \/ FindInCache \/ CopyCell \/ EndRead
  BY <1>7, SyncReadKept, FindKept, CopyKept, EndKept
<1> QED
  BY <1>2, <1>3, <1>4, <1>5, <1>6, <1>7 DEF CacheNext

LEMMA CacheInvariance == CacheSpec => []CInv
<1>1. CacheInit => CInv
  BY InitKept DEF CInv, CacheInit, CacheInv, CacheTypeOK, CacheKept, StoreInv, Init
<1>2. CInv /\ [CacheNext]_allVars => CInv'
  <2> SUFFICES ASSUME CInv, [CacheNext]_allVars, ~fault' PROVE CacheInv'
    BY DEF CInv
  <2>1. CASE CacheNext
    <3>1. ~fault
      BY <2>1, StoreStep, FaultStays DEF vars
    <3> QED
      BY <2>1, <3>1, CacheStepKept DEF CInv
  <2>2. CASE UNCHANGED allVars
    <3>1. CacheInv /\ UNCHANGED vars /\ rt' = rt /\ pending' = pending /\ reader' = reader
      BY <2>2 DEF CInv, allVars, cacheVars, vars
    <3>2. StoreInv' /\ cache' = cache /\ op' = op /\ phase' = phase
      BY <3>1, StutterKept DEF CacheInv, vars
    <3> QED
      BY <3>1, <3>2 DEF CacheInv, CacheTypeOK, CacheKept, ReadKept, CopiedFrom, Unchanged, StoreInv
  <2> QED
    BY <2>1, <2>2
<1> QED
  BY <1>1, <1>2, PTL DEF CacheSpec

(* The runtime cache and the read in progress keep their types until an error
   leaves the store spoilt or the runtime cache behind it.                  *)
THEOREM RuntimeCacheTyped == CacheSpec => [](~fault => CacheTypeOK)
<1>1. CInv => (~fault => CacheTypeOK)
  BY DEF CInv, CacheInv
<1> QED
  BY <1>1, CacheInvariance, PTL

(* Whenever no update is pending and no call is in progress, a search of the
   runtime cache gives what a search of the store gives.                    *)
THEOREM RuntimeCacheFollows == CacheSpec => []RuntimeCacheCurrent
<1>1. CInv => RuntimeCacheCurrent
  <2> SUFFICES ASSUME CacheInv, phase \in {"boot", "runtime"}, op = None, rt # None, ~pending,
                      NEW n \in Names, Unreported(rt, n) = {}
               PROVE  Value(rt, n) = Value(cache, n)
    BY DEF CInv, RuntimeCacheCurrent
  <2>1. Good(cache) /\ Good(rt) /\ Agree(rt, cache, n)
    BY InPhase DEF CacheInv, CacheKept, Unchanged
  <2> QED
    BY <2>1, AgreeValue
<1> QED
  BY <1>1, CacheInvariance, PTL

(* A read without an SMI returns, whole, a value the variable had during the
   read, whatever drivers in SMM store meanwhile.                           *)
THEOREM RuntimeReadConsistent == CacheSpec => []ReadConsistent
<1>1. CInv => ReadConsistent
  <2> SUFFICES ASSUME CacheInv, reader # None, reader.pc = "return", ~reader.missed,
                      Unreported(rt, reader.name) = {}
               PROVE  Result \in reader.seen
    BY DEF CInv, ReadConsistent
  <2> DEFINE n == reader.name
             p == FindVariable(rt, n).curr
             g == reader.got
  <2>1. /\ Value(rt, n) \in reader.seen /\ CopiedFrom(p) /\ Good(rt)
        /\ g \in Seq(Values \cup {Torn})
    BY DEF CacheInv, CacheKept, CacheTypeOK, ReadKept, Reader
  <2>2. CASE p = 0
    <3>1. g = <<>> /\ Value(rt, n) = None
      BY <2>1, <2>2, FoundInCache DEF CopiedFrom
    <3> QED
      BY <2>1, <3>1 DEF Result
  <2>3. CASE p # 0
    <3>1. PICK v \in Values : Holds(rt, p, v) /\ Value(rt, n) = v
      BY <2>1, <2>3, FoundInCache
    <3>2. rt[p].size \in Nat /\ rt[p].size > 0
      BY <2>1, <2>3, FoundInCache, Headers
    <3>3. Len(g) = rt[p].size /\ \A i \in 1 .. Len(g) : g[i] = rt[p + i]
      BY <2>1, <2>3 DEF CopiedFrom
    <3>4. \A i \in 1 .. Len(g) : g[i] = v
      BY <3>1, <3>3 DEF Holds
    <3> HIDE DEF p
    <3>5. g # <<>> /\ DOMAIN g = 1 .. Len(g) /\ g[1] = v
      BY <2>1, <3>2, <3>3, <3>4
    <3>6. Result = v
      BY <3>4, <3>5 DEF Result
    <3> QED
      BY <2>1, <3>1, <3>6
  <2> QED
    BY <2>2, <2>3
<1> QED
  BY <1>1, CacheInvariance, PTL

=============================================================================
