------------------------------ MODULE FtwProofs -----------------------------
(***************************************************************************)
(* Theorems about Ftw for a work space in a block of its own and callers    *)
(* that make one write per header, as FtwWrite itself does: the driver      *)
(* implements BlockStore, whatever power failures interrupt it.             *)
(*                                                                          *)
(* The invariant says what is in flash, which a power failure leaves as it  *)
(* is (FlashOK), and for every list of steps an operation may still have to *)
(* do what these steps rely on (Stage).                                     *)
(***************************************************************************)
EXTENDS Ftw, ListLemmas

(* The working block holds nothing but the work space.                      *)
OwnBlock == WorkLba \notin Lba

(* Callers of FtwAllocate ask for one write, or for more than fit.          *)
SingleWrites == NumberOfWrites \cap (2 .. Size - 1) = {}

-----------------------------------------------------------------------------
(* Flash                                                                    *)

Odd(i) == i % 2 = 1

Header(c) == /\ c.use = "header" /\ c.n = 1 /\ c.allocated
             /\ ~c.spareComplete /\ ~c.destComplete
Closed(c) == Header(c) /\ c.complete
Open(c)   == Header(c) /\ ~c.complete
IsRecord(c) == c = ErasedCell \/ (c.use = "record" /\ c.lba \in Lba)

(* The headers of a work space come in pairs with their records: those before
   h are complete, that at h is not, and the rest is erased.                *)
Log(cells, h) ==
  /\ h \in 1 .. Size + 1 /\ Odd(h)
  /\ \A i \in 1 .. Size : /\ Odd(i) /\ i < h => Closed(cells[i])
                          /\ i > h + 1 => cells[i] = ErasedCell
  /\ h <= Size =>
       \/ Open(cells[h]) /\ h < Size /\ IsRecord(cells[h + 1])
       \/ cells[h] = ErasedCell /\ (h < Size => cells[h + 1] = ErasedCell)

(* What FlushSpareBlockToWorkingBlock may leave when power fails in it.     *)
Scratch(cells) == cells[1] = ErasedCell /\ ~cells[3].destComplete

Valid == IsValidWorkSpace(work.hdr)

(* No block is in flight.                                                   *)
Calm == \A l \in Lba : ~InFlight(l)

FlashOK ==
  /\ IsValidWorkSpace(spare.hdr) => spare.cells = ErasedCells
  /\ \/ \E h \in 1 .. Size + 1 : Log(work.cells, h)
     \/ ~Valid /\ Scratch(work.cells)
  /\ \A l \in Lba : Content(l) \in Data

-----------------------------------------------------------------------------
(* Memory                                                                   *)

(* FtwWorkSpace is the work space, but for WRITES_ALLOCATED, which FtwAllocate
   sets in flash only.                                                      *)
Mirror ==
  \A i \in 1 .. Size :
    \/ ram.cells[i] = work.cells[i]
    \/ /\ i = lastHeader
       /\ ram.cells[i] = [work.cells[i] EXCEPT !.writesAllocated = FALSE]

Position == /\ lastHeader \in 1 .. Size - 1 /\ Odd(lastHeader)
            /\ lastRecord = lastHeader + 1

(* The last header is the one at lastHeader.                                *)
Fresh == Valid /\ Mirror /\ Position /\ Log(work.cells, lastHeader)

(* The header at lastHeader was the last one and is complete now.           *)
Finished ==
  /\ Valid /\ Mirror /\ Position /\ Log(work.cells, lastHeader + 2)
  /\ Closed(work.cells[lastHeader])
  /\ \A i \in 1 .. Size : i > lastHeader + 1 => work.cells[i] = ErasedCell

(* No record of the last header was programmed.                             *)
Settled ==
  /\ Valid
  /\ \E h \in 1 .. Size + 1 :
       Log(work.cells, h) /\ (h < Size => work.cells[h + 1] = ErasedCell)

Memory == <<ram.cells, lastHeader, lastRecord>>

-----------------------------------------------------------------------------
(* Lists of steps                                                           *)

Starts(t, op) == t # << >> /\ Head(t).op = op
Single(t, op) == Starts(t, op) /\ Tail(t) = << >>

(* The rest of InitFtwProtocol.                                             *)
ToRestartLast(t) == Single(t, "restartLast")
ToTrailing(t)    == Starts(t, "trailing") /\ ToRestartLast(Tail(t))
ToAbortLast(t)   == Starts(t, "abortLast") /\ ToTrailing(Tail(t))
ToAbortFirst(t)  == Starts(t, "abortFirst") /\ ToAbortLast(Tail(t))
ToValidate(t)    == Starts(t, "validate") /\ ToAbortFirst(Tail(t))

(* FtwAbort, and what follows it in InitFtwProtocol.                        *)
AfterAbort(t) == \/ t = << >> \/ ToAbortLast(t) \/ ToTrailing(t)
                 \/ Starts(t, "refresh") /\ ToAbortFirst(Tail(t))
ToAbort(t) == Starts(t, "abort") /\ AfterAbort(Tail(t))

(* FtwRestart in InitFtwProtocol, and the FtwAbort after it.                *)
ToRestart(t) ==
  /\ Starts(t, "restart") /\ Starts(Tail(t), "refresh") /\ Single(Tail(Tail(t)), "abort")

(* FtwAllocate, called by itself or by FtwWrite; q is the write in progress. *)
AfterAllocate(t, q) ==
  \/ t = << >> /\ q = None
  \/ Single(t, "check") /\ q # None
ToAllocate(t, q) ==
  /\ Starts(t, "allocate") /\ AfterAllocate(Tail(t), q)
  /\ Head(t).arg = 1 \/ TotalSize(Head(t).arg) > Size

(* What may follow WorkSpaceRefresh.                                        *)
Ready(t, q) == \/ Single(t, "restart") /\ q = None
               \/ Single(t, "lastWrite") /\ q = None
               \/ Single(t, "write") /\ q # None
               \/ ToAllocate(t, q)
Rest(t, q) ==
  \/ Ready(t, q)
  \/ q = None /\ (ToValidate(t) \/ ToAbortFirst(t) \/ ToRestart(t) \/ ToAbort(t))

(* FtwReclaimWorkSpace; m is what it left in memory.                        *)
Harmless(img) == IsValidWorkSpace(img.hdr) => img.cells = ErasedCells
AfterReclaim(t, q) == \/ Starts(t, "reread") /\ Rest(Tail(t), q)
                      \/ ToAbortFirst(t) /\ q = None
Restore2(t, q) ==
  Starts(t, "sparePut") /\ Harmless(Head(t).img) /\ AfterReclaim(Tail(t), q)
Restore1(t, q) == Starts(t, "spareTear") /\ Restore2(Tail(t), q)
ToRecover(t, q) ==
  /\ Starts(t, "refresh") /\ Starts(Tail(t), "abort") /\ q = None
  /\ Starts(Tail(Tail(t)), "refresh") /\ ToAbortFirst(Tail(Tail(Tail(t))))
Reclaimed == <<ErasedCells, 1, 2>>
AfterFlush(t, q, m) == (Restore1(t, q) /\ m = Reclaimed) \/ ToRecover(t, q)
Flush4(t, q, m) == Starts(t, "workValid") /\ AfterFlush(Tail(t), q, m)
Flush3(t, q, m) ==
  Starts(t, "workPut") /\ Head(t).img.cells = ErasedCells /\ Flush4(Tail(t), q, m)
Flush2(t, q, m) == Starts(t, "workErase") /\ Flush3(Tail(t), q, m)
Flush1(t, q, m) == Starts(t, "workInvalid") /\ Flush2(Tail(t), q, m)
Reclaim6(t, q, m) == Starts(t, "flush") /\ AfterFlush(Tail(t), q, m)
Reclaim5(t, q, m) == Starts(t, "spareValid") /\ Reclaim6(Tail(t), q, m)
Reclaim4(t, q, m) == Starts(t, "workInvalid") /\ Reclaim5(Tail(t), q, m)
Reclaim3(t, q, m) == Starts(t, "spareValid") /\ Reclaim4(Tail(t), q, m)
Reclaim2(t, q, m) ==
  Starts(t, "sparePut") /\ Head(t).img.cells = ErasedCells /\ Reclaim3(Tail(t), q, m)
Reclaim1(t, q, m) == Starts(t, "spareTear") /\ Reclaim2(Tail(t), q, m)

(* FtwWriteRecord, called by FtwWrite and by FtwRestart; d is the data in the
   spare block.                                                             *)
Put3(t, q) == \/ Single(t, "success") /\ q # None
              \/ Starts(t, "refresh") /\ Single(Tail(t), "abort") /\ q = None
Put2(t, q) == Starts(t, "sparePut") /\ Harmless(Head(t).img) /\ Put3(Tail(t), q)
Put1(t, q) == Starts(t, "spareTear") /\ Put2(Tail(t), q)
Target4(t, q) == Starts(t, "complete") /\ Put1(Tail(t), q)
Target3(t, q) == Starts(t, "destComplete") /\ Target4(Tail(t), q)
Target2(t, q, d) == Starts(t, "targetPut") /\ Head(t).img.data = d /\ Target3(Tail(t), q)
Target1(t, q, d) == Starts(t, "targetTear") /\ Target2(Tail(t), q, d)
ToDestination(t, q) == Starts(t, "destination") /\ Put1(Tail(t), q)

(* FtwWrite.                                                                *)
Backup3(t, q) == Starts(t, "spareComplete") /\ ToDestination(Tail(t), q)
Backup2(t, q) == /\ Starts(t, "sparePut") /\ Harmless(Head(t).img)
                 /\ Head(t).img.data = q.data /\ Backup3(Tail(t), q)
Backup1(t, q) == Starts(t, "spareTear") /\ Backup2(Tail(t), q)

-----------------------------------------------------------------------------
(* What the steps rely on                                                   *)

(* The record of the write in progress was programmed, no more.             *)
Recorded ==
  /\ Fresh /\ Open(work.cells[lastHeader]) /\ request # None
  /\ work.cells[lastRecord].use = "record" /\ work.cells[lastRecord].lba = request.lba
  /\ ~work.cells[lastRecord].spareComplete /\ ~work.cells[lastRecord].destComplete

(* The data of the last record is in the spare block.                       *)
Served == request # None => Content(request.lba) = request.data
Flying ==
  /\ Fresh /\ Open(work.cells[lastHeader]) /\ Served
  /\ work.cells[lastRecord].use = "record" /\ work.cells[lastRecord].lba \in Lba
  /\ work.cells[lastRecord].spareComplete /\ ~work.cells[lastRecord].destComplete

Allocated == Fresh /\ Settled /\ Open(work.cells[lastHeader]) /\ request # None

Idle == todo = << >> /\ request = None /\ Settled /\ (Fresh \/ Finished)

(* What the steps after WorkSpaceRefresh rely on.                           *)
Before(t) == \/ ToValidate(t)
             \/ Valid /\ (ToAbortFirst(t) \/ ToRestart(t))
             \/ Valid /\ Calm /\ ToAbort(t)
             \/ Settled /\ Ready(t, request)
Refreshing ==
  Starts(todo, "refresh") /\ Rest(Tail(todo), request) /\ Before(Tail(todo))
Rereading ==
  /\ Starts(todo, "reread") /\ Rest(Tail(todo), request)
  /\ Valid /\ work.cells = ErasedCells

Reclaiming ==
  \/ /\ Starts(todo, "reclaim") /\ AfterReclaim(Tail(todo), request) /\ Calm
     /\ Compacted(Now.arg = 1) = ErasedCells
  \/ Reclaim1(todo, request, Memory) /\ Calm
  \/ Reclaim2(todo, request, Memory) /\ Calm
  \/ Reclaim3(todo, request, Memory) /\ Calm /\ spare.cells = ErasedCells
  \/ Reclaim4(todo, request, Memory) /\ Calm /\ spare.cells = ErasedCells
  \/ Reclaim5(todo, request, Memory) /\ Calm /\ spare.cells = ErasedCells
  \/ Reclaim6(todo, request, Memory) /\ Calm /\ spare.cells = ErasedCells

Flushing ==
  \/ Flush1(todo, request, Memory) /\ Calm
  \/ Flush2(todo, request, Memory) /\ ~Valid
  \/ Flush3(todo, request, Memory) /\ ~Valid /\ work.cells = ErasedCells
  \/ /\ Flush4(todo, request, Memory) /\ work.cells = ErasedCells
     /\ work.hdr = [ErasedHeader EXCEPT !.signed = TRUE]

Restoring == /\ Restore1(todo, request) \/ Restore2(todo, request)
             /\ Valid /\ work.cells = ErasedCells /\ Memory = Reclaimed

Validating == /\ ToValidate(todo) /\ request = None
              /\ ram.hdr = work.hdr /\ (Valid => Fresh)

Recovering ==
  /\ request = None
  /\ \/ ToAbortFirst(todo) /\ Fresh
     \/ ToAbortLast(todo) /\ ((Fresh /\ ~FirstNotStarted) \/ Finished)
     \/ /\ ToTrailing(todo) \/ ToRestartLast(todo)
        /\ (Fresh /\ ~FirstNotStarted /\ ~LastWritten) \/ Finished

Calling ==
  \/ Ready(todo, request) /\ Fresh /\ Settled
  \/ ToAbort(todo) /\ Fresh /\ Calm /\ request = None
  \/ ToRestart(todo) /\ Fresh /\ request = None

Allocating ==
  \/ /\ Starts(todo, "header") /\ Now.at = lastHeader /\ Now.arg = 1
     /\ Starts(Tail(todo), "writesAllocated") /\ Head(Tail(todo)).at = lastHeader
     /\ AfterAllocate(Tail(Tail(todo)), request)
     /\ Fresh /\ work.cells[lastHeader] = ErasedCell
  \/ /\ Starts(todo, "writesAllocated") /\ Now.at = lastHeader
     /\ AfterAllocate(Tail(todo), request)
     /\ Fresh /\ Settled /\ Open(work.cells[lastHeader])

Writing ==
  \/ Single(todo, "check") /\ Allocated
  \/ Starts(todo, "record") /\ Single(Tail(todo), "backup") /\ Allocated
  \/ Single(todo, "backup") /\ Recorded
  \/ Recorded /\ Backup1(todo, request)
  \/ Recorded /\ Backup2(todo, request)
  \/ Recorded /\ Backup3(todo, request) /\ spare.data = request.data

Storing ==
  \/ ToDestination(todo, request) /\ Flying
  \/ Target1(todo, request, spare.data) /\ Flying
  \/ Target2(todo, request, spare.data) /\ Flying
  \/ /\ Target3(todo, request) /\ Flying
     /\ target[work.cells[lastRecord].lba] = spare.data

Completing ==
  /\ Starts(todo, "complete") /\ Fresh /\ Calm /\ Open(work.cells[lastHeader])
  /\ \/ AfterAbort(Tail(todo)) /\ request = None
     \/ Put1(Tail(todo), request) /\ Served

Ending ==
  /\ Finished /\ Served
  /\ \/ Put1(todo, request) \/ Put2(todo, request)
     \/ Single(todo, "success") /\ request # None

Stage == \/ Idle \/ Refreshing \/ Rereading \/ Reclaiming \/ Flushing \/ Restoring
         \/ Validating \/ Recovering \/ Calling \/ Allocating \/ Writing
         \/ Storing \/ Completing \/ Ending

IInv == TypeOK /\ FlashOK /\ Stage

-----------------------------------------------------------------------------
(* Types, and lists of steps                                                *)

LEMMA Sizes == /\ Size \in Nat /\ Size >= 4 /\ MaxCalls \in Nat
               /\ Torn \notin Data /\ None \notin Lba
               /\ None \notin [lba : Lba, data : Data]
               /\ PrivateData \subseteq BOOLEAN
BY FtwAssumption

(* Erased flash, and the fields of an erased cell.                          *)
LEMMA Erased ==
  /\ ErasedCell \in Cell /\ ErasedCells \in [1 .. Size -> Cell]
  /\ \A i \in 1 .. Size : ErasedCells[i] = ErasedCell
  /\ ErasedCell.use = "erased" /\ ~ErasedCell.allocated /\ ~ErasedCell.complete
  /\ ~ErasedCell.writesAllocated /\ ~ErasedCell.spareComplete /\ ~ErasedCell.destComplete
  /\ ErasedCell.n = 0 /\ ErasedCell.lba = None
<1>1. ErasedCell \in Cell
  BY Sizes DEF ErasedCell, Cell
<1> QED
  BY <1>1 DEF ErasedCell, ErasedCells

LEMMA Headers ==
  /\ ErasedHeader \in BlockHeader /\ mWorkingBlockHeader \in BlockHeader
  /\ ~IsValidWorkSpace(ErasedHeader) /\ IsValidWorkSpace(mWorkingBlockHeader)
BY DEF ErasedHeader, mWorkingBlockHeader, BlockHeader, IsValidWorkSpace

LEMMA Images ==
  /\ \A k \in {"erased", "torn", "data", "work"} :
       /\ Unreadable(k) \in Image /\ Unreadable(k).data = Torn
       /\ Unreadable(k).hdr = ErasedHeader /\ Unreadable(k).cells = ErasedCells
  /\ \A d \in Data \cup {Torn} :
       /\ DataImage(d) \in Image /\ DataImage(d).data = d
       /\ DataImage(d).hdr = ErasedHeader
  /\ \A h \in BlockHeader, c \in [1 .. Size -> Cell], d \in Data \cup {Torn} :
       /\ WorkImage(h, c, d) \in Image
       /\ WorkImage(h, c, d).hdr = h /\ WorkImage(h, c, d).cells = c
       /\ WorkImage(h, c, d).data = d
<1>1. \A k \in {"erased", "torn", "data", "work"} :
        /\ Unreadable(k) \in Image /\ Unreadable(k).data = Torn
        /\ Unreadable(k).hdr = ErasedHeader /\ Unreadable(k).cells = ErasedCells
  BY Erased, Headers DEF Unreadable, Image
<1>2. \A d \in Data \cup {Torn} :
        /\ DataImage(d) \in Image /\ DataImage(d).data = d
        /\ DataImage(d).hdr = ErasedHeader
  BY Erased, Headers DEF DataImage, Unreadable, Image
<1>3. \A h \in BlockHeader, c \in [1 .. Size -> Cell], d \in Data \cup {Torn} :
        /\ WorkImage(h, c, d) \in Image
        /\ WorkImage(h, c, d).hdr = h /\ WorkImage(h, c, d).cells = c
        /\ WorkImage(h, c, d).data = d
  BY DEF WorkImage, Image
<1> QED
  BY <1>1, <1>2, <1>3

LEMMA Steps ==
  /\ \A op \in Op : /\ Do(op) \in Step /\ Do(op).op = op
                    /\ \A i \in 0 .. Size :
                         /\ DoAt(op, i) \in Step /\ DoAt(op, i).op = op /\ DoAt(op, i).at = i
                         /\ DoWith(op, i) \in Step /\ DoWith(op, i).op = op
                         /\ DoWith(op, i).arg = i
                    /\ \A img \in Image :
                         /\ DoPut(op, img) \in Step /\ DoPut(op, img).op = op
                         /\ DoPut(op, img).img = img
<1> SUFFICES ASSUME NEW op \in Op
             PROVE  /\ Do(op) \in Step /\ Do(op).op = op
                    /\ \A i \in 0 .. Size :
                         /\ DoAt(op, i) \in Step /\ DoAt(op, i).op = op /\ DoAt(op, i).at = i
                         /\ DoWith(op, i) \in Step /\ DoWith(op, i).op = op
                         /\ DoWith(op, i).arg = i
                    /\ \A img \in Image :
                         /\ DoPut(op, img) \in Step /\ DoPut(op, img).op = op
                         /\ DoPut(op, img).img = img
  OBVIOUS
<1> DEFINE img0 == Unreadable("erased")
<1>1. img0 \in Image /\ 0 \in 0 .. Size
  BY Images, Sizes
<1>2. Do(op) = [op |-> op, at |-> 0, arg |-> 0, img |-> img0]
  BY DEF Do
<1> HIDE DEF img0
<1>3. Do(op) \in Step /\ Do(op).op = op
  BY <1>1, <1>2 DEF Step
<1>4. ASSUME NEW i \in 0 .. Size
      PROVE  /\ DoAt(op, i) \in Step /\ DoAt(op, i).op = op /\ DoAt(op, i).at = i
             /\ DoWith(op, i) \in Step /\ DoWith(op, i).op = op
             /\ DoWith(op, i).arg = i
  BY <1>1, <1>2 DEF Step, DoAt, DoWith
<1>5. ASSUME NEW img \in Image
      PROVE  /\ DoPut(op, img) \in Step /\ DoPut(op, img).op = op
             /\ DoPut(op, img).img = img
  BY <1>1, <1>2 DEF Step, DoPut
<1> QED
  BY <1>3, <1>4, <1>5

(* The first step of a list put together from two, and the rest.            *)
LEMMA FrontOfList ==
  ASSUME NEW S, NEW u \in Seq(S), u # << >>, NEW s \in Seq(S)
  PROVE  /\ u \o s \in Seq(S) /\ u \o s # << >>
         /\ Head(u \o s) = Head(u) /\ Tail(u \o s) = Tail(u) \o s
<1>1. Len(u) \in Nat /\ Len(u) > 0 /\ Len(s) \in Nat
  BY LenProperties, EmptySeq
<1>2. /\ u \o s \in Seq(S) /\ Len(u \o s) = Len(u) + Len(s)
      /\ \A i \in 1 .. Len(u) + Len(s) :
           (u \o s)[i] = IF i <= Len(u) THEN u[i] ELSE s[i - Len(u)]
  BY ConcatProperties
<1>3. u \o s # << >> /\ Head(u \o s) = Head(u)
  BY <1>1, <1>2, EmptySeq, HeadTailProperties
<1>4. /\ Tail(u) \in Seq(S) /\ Len(Tail(u)) = Len(u) - 1
      /\ \A i \in 1 .. Len(u) - 1 : Tail(u)[i] = u[i + 1]
  BY HeadTailProperties
<1>5. /\ Tail(u \o s) \in Seq(S) /\ Len(Tail(u \o s)) = Len(u \o s) - 1
      /\ \A i \in 1 .. Len(u \o s) - 1 : Tail(u \o s)[i] = (u \o s)[i + 1]
  BY <1>2, <1>3, HeadTailProperties
<1>6. /\ Tail(u) \o s \in Seq(S) /\ Len(Tail(u) \o s) = Len(Tail(u)) + Len(s)
      /\ \A i \in 1 .. Len(Tail(u)) + Len(s) :
           (Tail(u) \o s)[i] = IF i <= Len(Tail(u)) THEN Tail(u)[i] ELSE s[i - Len(Tail(u))]
  BY <1>4, ConcatProperties
<1>7. ASSUME NEW i \in 1 .. Len(u) + Len(s) - 1
      PROVE  Tail(u \o s)[i] = (Tail(u) \o s)[i]
  <2>1. Tail(u \o s)[i] = IF i + 1 <= Len(u) THEN u[i + 1] ELSE s[i + 1 - Len(u)]
    BY <1>1, <1>2, <1>5
  <2>2. (Tail(u) \o s)[i] = IF i <= Len(u) - 1 THEN Tail(u)[i] ELSE s[i - (Len(u) - 1)]
    BY <1>1, <1>4, <1>6
  <2>3. i + 1 - Len(u) = i - (Len(u) - 1)
    BY <1>1
  <2> QED
    BY <1>1, <1>4, <2>1, <2>2, <2>3
<1>8. Tail(u \o s) = Tail(u) \o s
  BY <1>1, <1>2, <1>4, <1>5, <1>6, <1>7, SeqEqual
<1> QED
  BY <1>2, <1>3, <1>8

-----------------------------------------------------------------------------
(* FtwGetLastWriteHeader and FtwGetLastWriteRecord                          *)

(* The recursion of FtwGetLastWriteHeader has a solution.                   *)
LEMMA WalkEquation ==
  ASSUME NEW cells \in [1 .. Size -> Cell]
  PROVE  \E w : /\ GetLastWriteHeader(cells) = w[1]
                /\ \A o \in 1 .. Size :
                     /\ ~cells[o].complete => w[o] = [ok |-> TRUE, at |-> o]
                     /\ cells[o].complete /\ NextHeader(cells, o) > Size =>
                          w[o] = [ok |-> FALSE, at |-> o]
                     /\ cells[o].complete /\ NextHeader(cells, o) <= Size =>
                          w[o] = w[NextHeader(cells, o)]
<1> DEFINE Val(f, o) ==
             IF ~cells[o].complete               THEN [ok |-> TRUE, at |-> o]
             ELSE IF NextHeader(cells, o) > Size THEN [ok |-> FALSE, at |-> o]
             ELSE f[NextHeader(cells, o)]
           Body(f, n) == [o \in n .. Size |-> Val(f, o)]
           Solved == {k \in Nat : k <= Size => \E f : f = Body(f, Size + 1 - k)}
<1>0. \A o \in 1 .. Size : /\ NextHeader(cells, o) \in Nat /\ NextHeader(cells, o) > o
                           /\ cells[o].complete \in BOOLEAN
  BY Sizes DEF NextHeader, TotalSize, Writes, Cell
<1>1. ASSUME NEW f, NEW o \in 1 .. Size
      PROVE  /\ ~cells[o].complete => Val(f, o) = [ok |-> TRUE, at |-> o]
             /\ cells[o].complete /\ NextHeader(cells, o) > Size =>
                  Val(f, o) = [ok |-> FALSE, at |-> o]
             /\ cells[o].complete /\ NextHeader(cells, o) <= Size =>
                  Val(f, o) = f[NextHeader(cells, o)]
  BY <1>0, Sizes
<1> HIDE DEF Val
<1>2. ASSUME NEW f, NEW g, NEW o \in 1 .. Size, \A p \in o + 1 .. Size : f[p] = g[p]
      PROVE  Val(f, o) = Val(g, o)
  <2>1. CASE ~cells[o].complete
    BY <1>1, <2>1
  <2>2. CASE cells[o].complete /\ NextHeader(cells, o) > Size
    BY <1>1, <2>2
  <2>3. CASE cells[o].complete /\ NextHeader(cells, o) <= Size
    <3>1. NextHeader(cells, o) \in o + 1 .. Size
      BY <1>0, <2>3, Sizes
    <3> QED
      BY <1>1, <1>2, <2>3, <3>1
  <2> QED
    BY <2>1, <2>2, <2>3, <1>0, Sizes
<1>3. 0 \in Solved
  <2> DEFINE f0 == [o \in (Size + 1) .. Size |-> 0]
  <2>1. (Size + 1) .. Size = {} /\ Size + 1 - 0 = Size + 1
    BY Sizes
  <2>2. f0 = Body(f0, Size + 1)
    BY <2>1
  <2> QED
    BY <2>1, <2>2
<1>4. ASSUME NEW k \in Nat, k \in Solved PROVE k + 1 \in Solved
  <2> SUFFICES ASSUME k + 1 <= Size PROVE \E g : g = Body(g, Size + 1 - (k + 1))
    OBVIOUS
  <2> DEFINE n == Size + 1 - k
  <2>1. PICK f : f = Body(f, n)
    BY <1>4, Sizes
  <2>2. n \in Nat /\ n > 1 /\ n <= Size + 1 /\ Size + 1 - (k + 1) = n - 1
    BY Sizes
  <2> DEFINE g == [o \in (n - 1) .. Size |-> IF o = n - 1 THEN Val(f, n - 1) ELSE f[o]]
  <2>3. \A o \in n .. Size : f[o] = Val(f, o)
    BY <2>1
  <2> HIDE DEF n
  <2>4. \A o \in (n - 1) .. Size : g[o] = Val(f, o)
    BY <2>2, <2>3, Sizes
  <2>5. \A o \in n .. Size : g[o] = f[o]
    BY <2>2, Sizes
  <2>6. ASSUME NEW o \in (n - 1) .. Size PROVE g[o] = Val(g, o)
    <3>1. o \in 1 .. Size /\ \A p \in o + 1 .. Size : p \in n .. Size
      BY <2>2, Sizes
    <3>2. \A p \in o + 1 .. Size : f[p] = g[p]
      BY <2>5, <3>1
    <3> HIDE DEF g
    <3> QED
      BY <1>2, <2>4, <3>1, <3>2
  <2>7. g = Body(g, n - 1)
    BY <2>6
  <2> QED
    BY <2>2, <2>7
<1> HIDE DEF Solved
<1>5. Nat \subseteq Solved
  BY <1>3, <1>4, Induction
<1>6. \E f : f = Body(f, 1)
  <2>1. Size \in Solved /\ Size + 1 - Size = 1
    BY <1>5, Sizes
  <2> QED
    BY <2>1, Sizes DEF Solved
<1> DEFINE walk == CHOOSE f : f = [o \in 1 .. Size |-> Val(f, o)]
<1>7. walk = Body(walk, 1)
  BY <1>6, Zenon
<1>8. GetLastWriteHeader(cells) = walk[1]
  BY Zenon DEF GetLastWriteHeader, HeaderWalk, Val
<1>9. \A o \in 1 .. Size : walk[o] = Val(walk, o)
  BY <1>7
<1> HIDE DEF walk
<1>10. ASSUME NEW o \in 1 .. Size
       PROVE  /\ ~cells[o].complete => walk[o] = [ok |-> TRUE, at |-> o]
              /\ cells[o].complete /\ NextHeader(cells, o) > Size =>
                   walk[o] = [ok |-> FALSE, at |-> o]
              /\ cells[o].complete /\ NextHeader(cells, o) <= Size =>
                   walk[o] = walk[NextHeader(cells, o)]
  BY <1>1, <1>9
<1> QED
  BY <1>8, <1>10

(* FtwGetLastWriteHeader stays among the places it can get to from the first
   one, and stops at a header that is not complete or at the end.           *)
LEMMA LastHeaderIn ==
  ASSUME NEW cells \in [1 .. Size -> Cell], NEW T, T \subseteq 1 .. Size, 1 \in T,
         \A o \in T : cells[o].complete /\ NextHeader(cells, o) <= Size =>
                        NextHeader(cells, o) \in T
  PROVE  LET last == GetLastWriteHeader(cells)
         IN  /\ last \in [ok : BOOLEAN, at : T]
             /\ last.ok => ~cells[last.at].complete
             /\ ~last.ok => cells[last.at].complete /\ NextHeader(cells, last.at) > Size
<1>1. PICK w : /\ GetLastWriteHeader(cells) = w[1]
               /\ \A o \in 1 .. Size :
                    /\ ~cells[o].complete => w[o] = [ok |-> TRUE, at |-> o]
                    /\ cells[o].complete /\ NextHeader(cells, o) > Size =>
                         w[o] = [ok |-> FALSE, at |-> o]
                    /\ cells[o].complete /\ NextHeader(cells, o) <= Size =>
                         w[o] = w[NextHeader(cells, o)]
  BY WalkEquation
<1> DEFINE Good(x) == /\ x \in [ok : BOOLEAN, at : T]
                      /\ x.ok => ~cells[x.at].complete
                      /\ ~x.ok => cells[x.at].complete /\ NextHeader(cells, x.at) > Size
           Bad == {o \in T : ~Good(w[o])}
           Far == {Size - o : o \in Bad}
<1>2. \A o \in 1 .. Size : /\ NextHeader(cells, o) \in Nat /\ NextHeader(cells, o) > o
                           /\ cells[o].complete \in BOOLEAN
  BY Sizes DEF NextHeader, TotalSize, Writes, Cell
<1>3. ASSUME Bad # {} PROVE FALSE
  <2>1. Far \subseteq Nat /\ Far # {}
    BY <1>3, Sizes
  <2>2. PICK x \in Far : \A y \in Far : x <= y
    BY <2>1, FirstPlace
  <2>3. PICK o \in Bad : x = Size - o
    BY <2>2
  <2>4. o \in T /\ o \in 1 .. Size /\ ~Good(w[o])
    BY <2>3
  <2>5. CASE ~cells[o].complete
    <3>1. w[o] = [ok |-> TRUE, at |-> o]
      BY <1>1, <2>4, <2>5
    <3> QED
      BY <2>4, <2>5, <3>1
  <2>6. CASE cells[o].complete /\ NextHeader(cells, o) > Size
    <3>1. w[o] = [ok |-> FALSE, at |-> o]
      BY <1>1, <2>4, <2>6
    <3> QED
      BY <2>4, <2>6, <3>1
  <2>7. CASE cells[o].complete /\ NextHeader(cells, o) <= Size
    <3> DEFINE p == NextHeader(cells, o)
    <3>1. p \in T /\ p > o /\ p \in Nat /\ w[o] = w[p]
      BY <1>1, <1>2, <2>4, <2>7
    <3> HIDE DEF p, Good
    <3>2. p \in Bad
      BY <2>4, <3>1
    <3>3. Size - p \in Far /\ Size - p < Size - o
      BY <2>4, <3>1, <3>2, Sizes
    <3> HIDE DEF Far
    <3> QED
      BY <2>2, <2>3, <2>4, <3>1, <3>3, Sizes
  <2> QED
    BY <1>2, <2>4, <2>5, <2>6, <2>7, Sizes
<1>4. Good(w[1])
  BY <1>3
<1> QED
  BY <1>1, <1>4

-----------------------------------------------------------------------------
(* The log                                                                  *)

LEMMA OddSteps ==
  /\ Odd(1)
  /\ \A i \in Nat : Odd(i) => Odd(i + 2)
  /\ \A i, j \in Nat : Odd(i) /\ Odd(j) /\ i < j => i + 2 <= j
<1>1. Odd(1)
  BY DEF Odd
<1>2. ASSUME NEW i \in Nat, Odd(i) PROVE Odd(i + 2)
  BY <1>2 DEF Odd
<1>3. ASSUME NEW i \in Nat, NEW j \in Nat, Odd(i), Odd(j), i < j PROVE i + 2 <= j
  BY <1>3 DEF Odd
<1> QED
  BY <1>1, <1>2, <1>3

(* The least element of a set of numbers.                                   *)
LEMMA Least ==
  ASSUME NEW T, T \subseteq Nat, NEW x \in T, \A y \in T : x <= y
  PROVE  (CHOOSE i \in T : \A j \in T : i <= j) = x
<1> DEFINE m == CHOOSE i \in T : \A j \in T : i <= j
<1>1. m \in T /\ \A j \in T : m <= j
  OBVIOUS
<1> HIDE DEF m
<1>2. m = x
  BY <1>1
<1> QED
  BY <1>2 DEF m

(* A complete header is followed by the one after its record.               *)
LEMMA ClosedPair ==
  ASSUME NEW cells \in [1 .. Size -> Cell], NEW i \in 1 .. Size, Header(cells[i])
  PROVE  NextHeader(cells, i) = i + 2
BY Sizes DEF Header, NextHeader, TotalSize, Writes

(* FtwGetLastWriteHeader finds the last header of a log.                    *)
LEMMA LastOfLog ==
  ASSUME NEW cells \in [1 .. Size -> Cell], NEW h, Log(cells, h)
  PROVE  LET last == GetLastWriteHeader(cells)
         IN  /\ last \in [ok : BOOLEAN, at : 1 .. Size]
             /\ h <= Size => last.ok /\ last.at = h
             /\ h > Size => ~last.ok
<1> DEFINE T == {i \in 1 .. Size : Odd(i) /\ i <= h}
           last == GetLastWriteHeader(cells)
<1>1. /\ h \in Nat /\ h >= 1 /\ h <= Size + 1 /\ Odd(h) /\ Size \in Nat /\ Size >= 4
      /\ \A i \in 1 .. Size : Odd(i) /\ i < h => Closed(cells[i])
      /\ h <= Size => ~cells[h].complete
  BY Sizes, Erased DEF Log, Open, Closed
<1>2. T \subseteq 1 .. Size /\ 1 \in T
  BY <1>1, OddSteps
<1>3. ASSUME NEW o \in T, cells[o].complete
      PROVE  o < h /\ NextHeader(cells, o) = o + 2
             /\ (o + 2 <= Size => NextHeader(cells, o) \in T)
  <2>1. o \in 1 .. Size /\ Odd(o) /\ o <= h /\ o \in Nat
    BY <1>1
  <2>2. o < h
    BY <1>1, <1>3, <2>1
  <2>3. NextHeader(cells, o) = o + 2
    BY <1>1, <2>1, <2>2, ClosedPair DEF Closed
  <2>4. o + 2 <= h /\ Odd(o + 2)
    BY <1>1, <2>1, <2>2, OddSteps
  <2> QED
    BY <1>1, <2>1, <2>2, <2>3, <2>4
<1> HIDE DEF T
<1>4. /\ last \in [ok : BOOLEAN, at : T]
      /\ last.ok => ~cells[last.at].complete
      /\ ~last.ok => cells[last.at].complete /\ NextHeader(cells, last.at) > Size
  <2>1. \A o \in T : cells[o].complete /\ NextHeader(cells, o) <= Size => NextHeader(cells, o) \in T
    BY <1>3
  <2> QED
    BY <1>2, <2>1, LastHeaderIn
<1> HIDE DEF last
<1>5. last.at \in T /\ last.ok \in BOOLEAN /\ last.at \in 1 .. Size /\ Odd(last.at) /\ last.at <= h
  BY <1>4 DEF T
<1>6. last.ok => last.at = h
  BY <1>1, <1>4, <1>5 DEF Closed
<1>7. ~last.ok => h > Size
  <2> SUFFICES ASSUME ~last.ok PROVE h > Size
    OBVIOUS
  <2>1. last.at < h /\ last.at + 2 > Size
    BY <1>3, <1>4, <1>5
  <2>2. last.at + 2 <= h
    BY <1>1, <1>5, <2>1, OddSteps
  <2> QED
    BY <1>1, <1>5, <2>1, <2>2
<1>8. last \in [ok : BOOLEAN, at : 1 .. Size]
  BY <1>2, <1>4
<1>9. h > Size => ~last.ok
  BY <1>1, <1>5, <1>6
<1>10. h <= Size => last.ok /\ last.at = h
  BY <1>1, <1>5, <1>6, <1>7
<1> QED
  BY <1>8, <1>9, <1>10 DEF last

(* FtwGetLastWriteRecord finds its record.                                  *)
LEMMA RecordOfLog ==
  ASSUME NEW cells \in [1 .. Size -> Cell], NEW h, Log(cells, h), h < Size
  PROVE  GetLastWriteRecord(cells, h) = h + 1
<1> DEFINE open == {i \in 1 .. Writes(cells[h]) : h + i <= Size /\ ~cells[h + i].destComplete}
<1>1. h \in 1 .. Size /\ h + 1 \in 1 .. Size /\ Size \in Nat /\ h \in Nat
  BY Sizes DEF Log
<1>2. GetLastWriteRecord(cells, h) =
        IF open = {} THEN h + Writes(cells[h])
                     ELSE h + (CHOOSE i \in open : \A j \in open : i <= j)
  BY DEF GetLastWriteRecord
<1>3. CASE Open(cells[h])
  <2>1. Writes(cells[h]) = 1
    BY <1>3 DEF Open, Header, Writes
  <2>2. open \subseteq {1}
    BY <2>1
  <2>3. CASE open = {}
    BY <1>2, <2>1, <2>3
  <2>4. CASE open # {}
    <3>1. open \subseteq Nat /\ 1 \in open /\ \A y \in open : 1 <= y
      BY <2>2, <2>4
    <3> HIDE DEF open
    <3>2. (CHOOSE i \in open : \A j \in open : i <= j) = 1
      BY <3>1, Least
    <3> QED
      BY <1>2, <2>4, <3>2
  <2> QED
    BY <2>3, <2>4
<1>4. CASE ~Open(cells[h])
  <2>1. cells[h] = ErasedCell /\ cells[h + 1] = ErasedCell
    BY <1>1, <1>4 DEF Log
  <2>2. Writes(cells[h]) = Size
    BY <2>1, Erased DEF Writes
  <2>3. open \subseteq Nat /\ 1 \in open /\ \A y \in open : 1 <= y
    BY <1>1, <2>1, <2>2, Erased, Sizes
  <2> HIDE DEF open
  <2>4. (CHOOSE i \in open : \A j \in open : i <= j) = 1
    BY <2>3, Least
  <2> QED
    BY <1>2, <2>3, <2>4
<1> QED
  BY <1>3, <1>4

(* The same for what an interrupted flush leaves.                           *)
LEMMA LastOfScratch ==
  ASSUME NEW cells \in [1 .. Size -> Cell], Scratch(cells)
  PROVE  /\ GetLastWriteHeader(cells).ok /\ GetLastWriteHeader(cells).at = 1
         /\ GetLastWriteRecord(cells, 1) \in 1 .. Size
<1>1. 1 \in 1 .. Size /\ 3 \in 1 .. Size /\ Size \in Nat
  BY Sizes
<1>2. cells[1] = ErasedCell /\ ~cells[1].complete /\ Writes(cells[1]) = Size
  BY Erased DEF Scratch, Writes
<1>3. GetLastWriteHeader(cells) \in [ok : BOOLEAN, at : {1}]
      /\ (~GetLastWriteHeader(cells).ok => cells[GetLastWriteHeader(cells).at].complete)
  <2>1. {1} \subseteq 1 .. Size /\ 1 \in {1}
    BY <1>1
  <2>2. \A o \in {1} : cells[o].complete /\ NextHeader(cells, o) <= Size => NextHeader(cells, o) \in {1}
    BY <1>2
  <2> QED
    BY <2>1, <2>2, LastHeaderIn
<1>4. GetLastWriteHeader(cells).at = 1 /\ GetLastWriteHeader(cells).ok
  BY <1>2, <1>3
<1> DEFINE open == {i \in 1 .. Writes(cells[1]) : 1 + i <= Size /\ ~cells[1 + i].destComplete}
           m == CHOOSE i \in open : \A j \in open : i <= j
<1>5. GetLastWriteRecord(cells, 1) = IF open = {} THEN 1 + Writes(cells[1]) ELSE 1 + m
  BY DEF GetLastWriteRecord
<1>6. 2 \in open
  BY <1>1, <1>2, Sizes DEF Scratch
<1>7. open \subseteq Nat
  BY <1>2, Sizes
<1> HIDE DEF open
<1>8. PICK x \in open : \A y \in open : x <= y
  BY <1>6, <1>7, FirstPlace
<1>9. m = x
  BY <1>7, <1>8, Least
<1>10. x \in Nat /\ 1 + x <= Size
  BY <1>1, <1>2, <1>8 DEF open
<1> HIDE DEF m
<1> QED
  BY <1>1, <1>4, <1>5, <1>6, <1>9, <1>10

(* A log has one last header.                                               *)
LEMMA LogUnique ==
  ASSUME NEW cells \in [1 .. Size -> Cell], NEW h, NEW k, Log(cells, h), Log(cells, k)
  PROVE  h = k
<1>1. h \in Nat /\ k \in Nat /\ h <= Size + 1 /\ k <= Size + 1 /\ Size \in Nat
  BY Sizes DEF Log
<1> DEFINE last == GetLastWriteHeader(cells)
<1>2. (h <= Size => last.ok /\ last.at = h) /\ (h > Size => ~last.ok)
  BY LastOfLog
<1>3. (k <= Size => last.ok /\ last.at = k) /\ (k > Size => ~last.ok)
  BY LastOfLog
<1> HIDE DEF last
<1> QED
  BY <1>1, <1>2, <1>3

LEMMA ErasedLog == Log(ErasedCells, 1) /\ Scratch(ErasedCells)
<1>1. 1 \in 1 .. Size + 1 /\ 1 \in 1 .. Size /\ 2 \in 1 .. Size /\ 3 \in 1 .. Size
  BY Sizes
<1>2. Scratch(ErasedCells)
  BY <1>1, Erased DEF Scratch
<1>3. \A i \in 1 .. Size : ~(Odd(i) /\ i < 1)
  BY Sizes
<1> QED
  BY <1>1, <1>2, <1>3, Erased, OddSteps DEF Log

-----------------------------------------------------------------------------
(* What a reader finds                                                      *)

(* InFlight, for the work space w.                                          *)
FlyingIn(w, l) ==
  /\ IsValidWorkSpace(w.hdr)
  /\ LET last == GetLastWriteHeader(w.cells)
         r    == GetLastWriteRecord(w.cells, last.at)
     IN  /\ last.ok /\ w.cells[last.at].allocated
         /\ w.cells[r].lba = l
         /\ w.cells[r].spareComplete /\ ~w.cells[r].destComplete

LEMMA FlightIs ==
  ASSUME NEW l
  PROVE  /\ InFlight(l) <=> FlyingIn(work, l)
         /\ InFlight(l)' <=> FlyingIn(work', l)
BY DEF InFlight, FlyingIn

WorkType == [hdr : BlockHeader, cells : [1 .. Size -> Cell], data : Data \cup {Torn}]

(* A block is in flight if the record of the last header says so.           *)
LEMMA FlyingLog ==
  ASSUME NEW w \in WorkType, IsValidWorkSpace(w.hdr), NEW h, Log(w.cells, h), NEW l
  PROVE  FlyingIn(w, l) <=> /\ h < Size /\ Open(w.cells[h]) /\ w.cells[h + 1].lba = l
                            /\ w.cells[h + 1].spareComplete /\ ~w.cells[h + 1].destComplete
<1> DEFINE last == GetLastWriteHeader(w.cells)
<1>1. w.cells \in [1 .. Size -> Cell]
  BY DEF WorkType
<1>2. h \in Nat /\ h <= Size + 1 /\ Size \in Nat
  BY Sizes DEF Log
<1>3. (h <= Size => last.ok /\ last.at = h) /\ (h > Size => ~last.ok)
  BY <1>1, LastOfLog
<1> HIDE DEF last
<1>4. FlyingIn(w, l) <=>
        LET r == GetLastWriteRecord(w.cells, last.at)
        IN  /\ last.ok /\ w.cells[last.at].allocated
            /\ w.cells[r].lba = l
            /\ w.cells[r].spareComplete /\ ~w.cells[r].destComplete
  BY DEF FlyingIn, last
<1>5. CASE h > Size
  BY <1>2, <1>3, <1>4, <1>5
<1>6. CASE h = Size
  <2>1. w.cells[h] = ErasedCell
    BY <1>2, <1>6 DEF Log
  <2> QED
    BY <1>2, <1>3, <1>4, <1>6, <2>1, Erased
<1>7. CASE h < Size
  <2>1. GetLastWriteRecord(w.cells, h) = h + 1
    BY <1>1, <1>7, RecordOfLog
  <2>2. w.cells[h].allocated <=> Open(w.cells[h])
    BY <1>2, <1>7, Erased DEF Log, Open, Header
  <2>3. last.ok /\ last.at = h
    BY <1>2, <1>3, <1>7
  <2> QED
    BY <1>4, <1>7, <2>1, <2>2, <2>3
<1> QED
  BY <1>2, <1>5, <1>6, <1>7

(* Content for target blocks outside the working block.                     *)
LEMMA ContentIs ==
  ASSUME OwnBlock, NEW l \in Lba
  PROVE  /\ Content(l) = IF FlyingIn(work, l) THEN spare.data ELSE target[l]
         /\ Content(l)' = IF FlyingIn(work', l) THEN spare'.data ELSE target'[l]
<1>1. l # WorkLba
  BY DEF OwnBlock
<1> QED
  BY <1>1, FlightIs DEF Content

(* No block changes.                                                        *)
Same == \A l \in Lba : Content(l)' = Content(l)

LEMMA CalmIs ==
  /\ Calm <=> \A l \in Lba : ~FlyingIn(work, l)
  /\ Calm' <=> \A l \in Lba : ~FlyingIn(work', l)
BY FlightIs DEF Calm

(* Nothing changes for a reader if nothing is in flight and the blocks stay. *)
LEMMA CalmSame ==
  ASSUME OwnBlock, Calm, Calm', target' = target
  PROVE  Same
BY ContentIs, CalmIs DEF Same

(* A step that leaves flash alone.                                          *)
LEMMA FlashKept ==
  ASSUME OwnBlock, FlashOK, UNCHANGED flash
  PROVE  /\ FlashOK' /\ Same /\ (Calm' <=> Calm)
         /\ (Valid' <=> Valid) /\ (Settled' <=> Settled) /\ (Served /\ request' = request => Served')
<1>1. target' = target /\ work' = work /\ spare' = spare
  BY DEF flash
<1>2. Same
  BY <1>1, ContentIs DEF Same
<1>3. Calm' <=> Calm
  BY <1>1, CalmIs
<1>4. FlashOK'
  BY <1>1, <1>2 DEF FlashOK, Same, Valid
<1>5. (Valid' <=> Valid) /\ (Settled' <=> Settled)
  BY <1>1 DEF Valid, Settled
<1>6. ASSUME Served, request' = request PROVE Served'
  <2>1. Content(request.lba)' = Content(request.lba)
    BY <1>1, <1>6 DEF Content, InFlight
  <2> QED
    BY <1>6, <2>1 DEF Served
<1> QED
  BY <1>2, <1>3, <1>4, <1>5, <1>6

(* A step that leaves the working block and memory alone.                   *)
LEMMA MemoryKept ==
  ASSUME UNCHANGED <<work, memory>>
  PROVE  /\ (Fresh' <=> Fresh) /\ (Finished' <=> Finished) /\ (Settled' <=> Settled)
         /\ (Valid' <=> Valid) /\ (Calm' <=> Calm)
         /\ (FirstNotStarted' <=> FirstNotStarted) /\ (LastWritten' <=> LastWritten)
         /\ Memory' = Memory /\ LastHeader' = LastHeader /\ LastRecord' = LastRecord
<1>1. work' = work /\ ram' = ram /\ lastHeader' = lastHeader /\ lastRecord' = lastRecord
  BY DEF memory
<1>2. (Fresh' <=> Fresh) /\ (Valid' <=> Valid)
  BY <1>1 DEF Fresh, Valid, Mirror, Position
<1>3. Finished' <=> Finished
  BY <1>1 DEF Finished, Valid, Mirror, Position
<1>4. Settled' <=> Settled
  BY <1>1 DEF Settled, Valid
<1>5. Calm' <=> Calm
  BY <1>1, CalmIs
<1>6. (FirstNotStarted' <=> FirstNotStarted) /\ (LastWritten' <=> LastWritten)
      /\ LastHeader' = LastHeader /\ LastRecord' = LastRecord
  BY <1>1 DEF FirstNotStarted, LastWritten, LastHeader, LastRecord, IsFirstRecordOfWrites,
              IsLastRecordOfWrites
<1>7. Memory' = Memory
  BY <1>1 DEF Memory
<1> QED
  BY <1>2, <1>3, <1>4, <1>5, <1>6, <1>7

(* Flash after a step, from what it leaves.                                 *)
LEMMA FlashFrom ==
  ASSUME OwnBlock, FlashOK, Same, Harmless(spare'),
         \/ \E h \in 1 .. Size + 1 : Log(work'.cells, h)
         \/ ~Valid' /\ Scratch(work'.cells)
  PROVE  FlashOK'
BY DEF FlashOK, Same, Harmless

(* With a settled log, or without a valid one, nothing is in flight.        *)
LEMMA SettledCalm ==
  ASSUME work \in WorkType, Settled PROVE Calm
<1>1. PICK h \in 1 .. Size + 1 :
        Log(work.cells, h) /\ (h < Size => work.cells[h + 1] = ErasedCell)
  BY DEF Settled
<1>2. ~(h < Size /\ work.cells[h + 1].spareComplete)
  BY <1>1, Erased
<1>3. \A l \in Lba : ~FlyingIn(work, l)
  BY <1>1, <1>2, FlyingLog DEF Settled, Valid
<1> QED
  BY <1>3, CalmIs

LEMMA InvalidCalm ==
  /\ ~Valid => Calm
  /\ ~Valid' => Calm'
BY CalmIs DEF Valid, FlyingIn

(* Erased cells in a valid work space.                                      *)
LEMMA ErasedSettled ==
  ASSUME Valid, work.cells = ErasedCells PROVE Settled
<1>1. 1 \in 1 .. Size + 1 /\ 1 + 1 \in 1 .. Size
  BY Sizes
<1>2. Log(work.cells, 1) /\ work.cells[1 + 1] = ErasedCell
  BY <1>1, ErasedLog, Erased
<1> QED
  BY <1>1, <1>2 DEF Settled

-----------------------------------------------------------------------------
(* Steps                                                                    *)

(* The first step of the list says which action is next.                    *)
LEMMA Acts ==
  ASSUME Proceed
  PROVE  /\ todo # << >>
         /\ Starts(todo, "spareTear") => SpareTear
         /\ Starts(todo, "sparePut") => SparePut
         /\ Starts(todo, "spareValid") => SpareValid
         /\ Starts(todo, "spareRecord") => SpareRecord
         /\ Starts(todo, "flush") => Flush
         /\ Starts(todo, "workInvalid") => WorkInvalid
         /\ Starts(todo, "workEraseData") => WorkEraseData
         /\ Starts(todo, "workErase") => WorkErase
         /\ Starts(todo, "workPutData") => WorkPutData
         /\ Starts(todo, "workPut") => WorkPut
         /\ Starts(todo, "workValid") => WorkValid
         /\ Starts(todo, "refresh") => Refresh
         /\ Starts(todo, "reread") => Reread
         /\ Starts(todo, "reclaim") => FtwReclaimWorkSpace
         /\ Starts(todo, "allocate") => FtwAllocate
         /\ Starts(todo, "header") => WriteHeader
         /\ Starts(todo, "writesAllocated") => WritesAllocated
         /\ Starts(todo, "write") => FtwWrite
         /\ Starts(todo, "check") => CheckRecord
         /\ Starts(todo, "record") => WriteRecord
         /\ Starts(todo, "backup") => Backup
         /\ Starts(todo, "spareComplete") => SpareComplete
         /\ Starts(todo, "destination") => FtwWriteRecord
         /\ Starts(todo, "targetTear") => TargetTear
         /\ Starts(todo, "targetPut") => TargetPut
         /\ Starts(todo, "destComplete") => DestComplete
         /\ Starts(todo, "complete") => Complete
         /\ Starts(todo, "success") => Success
         /\ Starts(todo, "restart") => FtwRestart
         /\ Starts(todo, "abort") => FtwAbort
         /\ Starts(todo, "lastWrite") => FtwGetLastWrite
         /\ Starts(todo, "validate") => Validate
         /\ Starts(todo, "abortFirst") => AbortFirst
         /\ Starts(todo, "abortLast") => AbortLast
         /\ Starts(todo, "trailing") => Trailing
         /\ Starts(todo, "restartLast") => RestartLast
<1>1. SpareTear => At("spareTear")
  BY DEF SpareTear
<1>2. SparePut => At("sparePut")
  BY DEF SparePut
<1>3. SpareValid => At("spareValid")
  BY DEF SpareValid
<1>4. SpareRecord => At("spareRecord")
  BY DEF SpareRecord
<1>5. Flush => At("flush")
  BY DEF Flush
<1>6. WorkInvalid => At("workInvalid")
  BY DEF WorkInvalid
<1>7. WorkEraseData => At("workEraseData")
  BY DEF WorkEraseData
<1>8. WorkErase => At("workErase")
  BY DEF WorkErase
<1>9. WorkPutData => At("workPutData")
  BY DEF WorkPutData
<1>10. WorkPut => At("workPut")
  BY DEF WorkPut
<1>11. WorkValid => At("workValid")
  BY DEF WorkValid
<1>12. Refresh => At("refresh")
  BY DEF Refresh
<1>13. Reread => At("reread")
  BY DEF Reread
<1>14. FtwReclaimWorkSpace => At("reclaim")
  BY DEF FtwReclaimWorkSpace
<1>15. FtwAllocate => At("allocate")
  BY DEF FtwAllocate
<1>16. WriteHeader => At("header")
  BY DEF WriteHeader
<1>17. WritesAllocated => At("writesAllocated")
  BY DEF WritesAllocated
<1>18. FtwWrite => At("write")
  BY DEF FtwWrite
<1>19. CheckRecord => At("check")
  BY DEF CheckRecord
<1>20. WriteRecord => At("record")
  BY DEF WriteRecord
<1>21. Backup => At("backup")
  BY DEF Backup
<1>22. SpareComplete => At("spareComplete")
  BY DEF SpareComplete
<1>23. FtwWriteRecord => At("destination")
  BY DEF FtwWriteRecord
<1>24. TargetTear => At("targetTear")
  BY DEF TargetTear
<1>25. TargetPut => At("targetPut")
  BY DEF TargetPut
<1>26. DestComplete => At("destComplete")
  BY DEF DestComplete
<1>27. Complete => At("complete")
  BY DEF Complete
<1>28. Success => At("success")
  BY DEF Success
<1>29. FtwRestart => At("restart")
  BY DEF FtwRestart
<1>30. FtwAbort => At("abort")
  BY DEF FtwAbort
<1>31. FtwGetLastWrite => At("lastWrite")
  BY DEF FtwGetLastWrite
<1>32. Validate => At("validate")
  BY DEF Validate
<1>33. AbortFirst => At("abortFirst")
  BY DEF AbortFirst
<1>34. AbortLast => At("abortLast")
  BY DEF AbortLast
<1>35. Trailing => At("trailing")
  BY DEF Trailing
<1>36. RestartLast => At("restartLast")
  BY DEF RestartLast
<1> QED
  BY <1>1, <1>2, <1>3, <1>4, <1>5, <1>6, <1>7, <1>8, <1>9, <1>10, <1>11, <1>12, <1>13, <1>14, <1>15, <1>16, <1>17, <1>18,
     <1>19, <1>20, <1>21, <1>22, <1>23, <1>24, <1>25, <1>26, <1>27, <1>28, <1>29, <1>30, <1>31, <1>32, <1>33, <1>34, <1>35, <1>36
  DEF Proceed, At, Starts

(* What is left when the first step is done.                                *)
LEMMA Popped ==
  ASSUME TypeOK, NEW op, Starts(todo, op)
  PROVE  /\ Now \in Step /\ Tail(todo) \in Seq(Step)
         /\ << >> \o Tail(todo) = Tail(todo)
<1>1. todo \in Seq(Step) /\ todo # << >>
  BY DEF TypeOK, Starts
<1>2. Head(todo) \in Step /\ Tail(todo) \in Seq(Step)
  BY <1>1, HeadTailProperties
<1> QED
  BY <1>2, ConcatEmptySeq DEF Now

(* Lists of one to four steps in front of a list.                           *)
LEMMA Prefix1 ==
  ASSUME NEW a \in Step, NEW s \in Seq(Step)
  PROVE  /\ <<a>> \o s \in Seq(Step) /\ <<a>> \o s # << >>
         /\ Head(<<a>> \o s) = a /\ Tail(<<a>> \o s) = s
<1> DEFINE u == <<a>>
<1>1. u \in Seq(Step) /\ u # << >> /\ Head(u) = a /\ Tail(u) = << >>
  OBVIOUS
<1> HIDE DEF u
<1>2. u \o s \in Seq(Step) /\ u \o s # << >> /\ Head(u \o s) = a /\ Tail(u \o s) = << >> \o s
  BY <1>1, FrontOfList
<1>3. << >> \o s = s
  BY ConcatEmptySeq
<1> QED
  BY <1>2, <1>3 DEF u

LEMMA Prefix2 ==
  ASSUME NEW a \in Step, NEW b \in Step, NEW s \in Seq(Step)
  PROVE  /\ <<a, b>> \o s \in Seq(Step) /\ <<a, b>> \o s # << >>
         /\ Head(<<a, b>> \o s) = a /\ Tail(<<a, b>> \o s) = <<b>> \o s
<1> DEFINE u == <<a, b>>
           v == <<b>>
<1>1. u \in Seq(Step) /\ u # << >> /\ Head(u) = a /\ Tail(u) = v
  OBVIOUS
<1> HIDE DEF u, v
<1>2. u \o s \in Seq(Step) /\ u \o s # << >> /\ Head(u \o s) = a /\ Tail(u \o s) = v \o s
  BY <1>1, FrontOfList
<1> QED
  BY <1>2 DEF u, v

LEMMA Prefix3 ==
  ASSUME NEW a \in Step, NEW b \in Step, NEW c \in Step, NEW s \in Seq(Step)
  PROVE  /\ <<a, b, c>> \o s \in Seq(Step) /\ <<a, b, c>> \o s # << >>
         /\ Head(<<a, b, c>> \o s) = a /\ Tail(<<a, b, c>> \o s) = <<b, c>> \o s
<1> DEFINE u == <<a, b, c>>
           v == <<b, c>>
<1>1. u \in Seq(Step) /\ u # << >> /\ Head(u) = a /\ Tail(u) = v
  OBVIOUS
<1> HIDE DEF u, v
<1>2. u \o s \in Seq(Step) /\ u \o s # << >> /\ Head(u \o s) = a /\ Tail(u \o s) = v \o s
  BY <1>1, FrontOfList
<1> QED
  BY <1>2 DEF u, v

LEMMA Prefix4 ==
  ASSUME NEW a \in Step, NEW b \in Step, NEW c \in Step, NEW d \in Step, NEW s \in Seq(Step)
  PROVE  /\ <<a, b, c, d>> \o s \in Seq(Step) /\ <<a, b, c, d>> \o s # << >>
         /\ Head(<<a, b, c, d>> \o s) = a /\ Tail(<<a, b, c, d>> \o s) = <<b, c, d>> \o s
<1> DEFINE u == <<a, b, c, d>>
           v == <<b, c, d>>
<1>1. u \in Seq(Step) /\ u # << >> /\ Head(u) = a /\ Tail(u) = v
  OBVIOUS
<1> HIDE DEF u, v
<1>2. u \o s \in Seq(Step) /\ u \o s # << >> /\ Head(u \o s) = a /\ Tail(u \o s) = v \o s
  BY <1>1, FrontOfList
<1> QED
  BY <1>2 DEF u, v

(* What a step does to the blocks as BlockStore sees them.                  *)
Effect ==
  \/ Same /\ request' = request /\ status' = status
  \/ Same /\ request' = None /\ status' = "error"
  \/ /\ Same /\ request # None /\ Content(request.lba) = request.data
     /\ request' = None /\ status' = "success"
  \/ /\ Same /\ request = None /\ request' \in [lba : Lba, data : Data] /\ status' = status
  \/ /\ request # None /\ request' = request /\ status' = status
     /\ \A l \in Lba : Content(l)' = IF l = request.lba THEN request.data ELSE Content(l)

(* A step that decides only.                                                *)
LEMMA Decision ==
  ASSUME OwnBlock, IInv, UNCHANGED <<flash, memory>>, Goes, todo' \in Seq(Step), Stage'
  PROVE  IInv' /\ Effect
<1>1. FlashOK' /\ Same
  BY FlashKept DEF IInv
<1>2. request' = request /\ status' = status /\ calls' = calls
  BY DEF Goes
<1>3. TypeOK'
  BY <1>2 DEF IInv, TypeOK, flash, memory
<1> QED
  BY <1>1, <1>2, <1>3 DEF IInv, Effect

(* What a decision may count on.                                            *)
LEMMA Unmoved ==
  ASSUME OwnBlock, IInv, UNCHANGED <<flash, memory>>, request' = request
  PROVE  /\ (Fresh' <=> Fresh) /\ (Finished' <=> Finished) /\ (Settled' <=> Settled)
         /\ (Valid' <=> Valid) /\ (Calm' <=> Calm) /\ (Served => Served')
         /\ (FirstNotStarted' <=> FirstNotStarted) /\ (LastWritten' <=> LastWritten)
         /\ Memory' = Memory /\ work' = work /\ spare' = spare /\ target' = target /\ ram' = ram
         /\ lastHeader' = lastHeader /\ lastRecord' = lastRecord
<1>1. UNCHANGED flash /\ UNCHANGED <<work, memory>> /\ FlashOK
  BY DEF flash, IInv
<1>2. Served => Served'
  BY <1>1, FlashKept
<1>3. work' = work /\ spare' = spare /\ target' = target /\ ram' = ram
      /\ lastHeader' = lastHeader /\ lastRecord' = lastRecord
  BY DEF flash, memory
<1> QED
  BY <1>1, <1>2, <1>3, MemoryKept

-----------------------------------------------------------------------------
(* What memory tells                                                        *)

(* The cells at FtwLastWriteHeader and FtwLastWriteRecord, in memory and in
   the working block.                                                       *)
LEMMA KnownCells ==
  ASSUME TypeOK, Mirror, Position
  PROVE  /\ lastHeader \in Nat /\ lastHeader \in 1 .. Size /\ lastHeader < Size
         /\ lastRecord \in 1 .. Size /\ lastRecord = lastHeader + 1 /\ Size \in Nat
         /\ work \in WorkType /\ work.cells \in [1 .. Size -> Cell] /\ ram.cells \in [1 .. Size -> Cell]
         /\ work.cells[lastHeader] \in Cell /\ work.cells[lastRecord] \in Cell
         /\ LastRecord = work.cells[lastRecord]
         /\ \A i \in 1 .. Size : i # lastHeader => ram.cells[i] = work.cells[i]
         /\ LastHeader \in Cell
         /\ LastHeader.use = work.cells[lastHeader].use
         /\ LastHeader.n = work.cells[lastHeader].n
         /\ LastHeader.lba = work.cells[lastHeader].lba
         /\ LastHeader.allocated = work.cells[lastHeader].allocated
         /\ LastHeader.complete = work.cells[lastHeader].complete
         /\ LastHeader.spareComplete = work.cells[lastHeader].spareComplete
         /\ LastHeader.destComplete = work.cells[lastHeader].destComplete
<1>1. /\ lastHeader \in Nat /\ lastHeader \in 1 .. Size /\ lastHeader < Size
      /\ lastRecord \in 1 .. Size /\ lastRecord = lastHeader + 1 /\ Size \in Nat
      /\ lastRecord # lastHeader
  BY Sizes DEF Position
<1>2. work \in WorkType /\ work.cells \in [1 .. Size -> Cell] /\ ram.cells \in [1 .. Size -> Cell]
  BY DEF TypeOK, WorkType
<1>3. \A i \in 1 .. Size : i # lastHeader => ram.cells[i] = work.cells[i]
  BY DEF Mirror
<1> DEFINE w == work.cells[lastHeader]
           c == ram.cells[lastHeader]
<1>4. w \in Cell /\ work.cells[lastRecord] \in Cell /\ c \in Cell
  BY <1>1, <1>2
<1>5. c = w \/ c = [w EXCEPT !.writesAllocated = FALSE]
  BY <1>1 DEF Mirror
<1> HIDE DEF w, c
<1>6. /\ c.use = w.use /\ c.n = w.n /\ c.lba = w.lba /\ c.allocated = w.allocated
      /\ c.complete = w.complete /\ c.spareComplete = w.spareComplete
      /\ c.destComplete = w.destComplete
  BY <1>4, <1>5 DEF Cell
<1> QED
  BY <1>1, <1>2, <1>3, <1>4, <1>6 DEF LastHeader, LastRecord, w, c

(* The last header is in use or erased, and so is its record.               *)
LEMMA FreshCells ==
  ASSUME TypeOK, Fresh
  PROVE  /\ Mirror /\ Position /\ Valid /\ Log(work.cells, lastHeader)
         /\ ~LastHeader.complete
         /\ LastHeader.allocated <=> Open(work.cells[lastHeader])
         /\ LastHeader.use # "erased" <=> Open(work.cells[lastHeader])
         /\ Open(work.cells[lastHeader]) => Writes(LastHeader) = 1 /\ IsRecord(LastRecord)
         /\ ~Open(work.cells[lastHeader]) =>
              work.cells[lastHeader] = ErasedCell /\ work.cells[lastRecord] = ErasedCell
         /\ \A i \in 1 .. Size : i > lastHeader + 1 => work.cells[i] = ErasedCell
<1>1. Mirror /\ Position /\ Valid /\ Log(work.cells, lastHeader)
  BY DEF Fresh
<1> DEFINE w == work.cells[lastHeader]
           c == LastHeader
<1>2. /\ lastHeader \in Nat /\ lastHeader \in 1 .. Size /\ lastHeader < Size
      /\ lastRecord \in 1 .. Size /\ lastRecord = lastHeader + 1 /\ Size \in Nat
      /\ LastRecord = work.cells[lastRecord]
      /\ c.use = w.use /\ c.n = w.n /\ c.allocated = w.allocated /\ c.complete = w.complete
  BY <1>1, KnownCells
<1>3. \/ Open(w) /\ IsRecord(work.cells[lastRecord])
      \/ w = ErasedCell /\ work.cells[lastRecord] = ErasedCell
  BY <1>1, <1>2 DEF Log
<1>4. \A i \in 1 .. Size : i > lastHeader + 1 => work.cells[i] = ErasedCell
  BY <1>1 DEF Log
<1> HIDE DEF w, c
<1>5. CASE Open(w)
  <2>1. ~c.complete /\ c.allocated /\ c.use = "header" /\ c.n = 1
    BY <1>2, <1>5 DEF Open, Header
  <2>2. IsRecord(work.cells[lastRecord])
    BY <1>3, <1>5, Erased DEF Open, Header
  <2> QED
    BY <1>1, <1>2, <1>4, <1>5, <2>1, <2>2 DEF Writes, w, c
<1>6. CASE ~Open(w)
  <2>1. w = ErasedCell /\ work.cells[lastRecord] = ErasedCell
    BY <1>3, <1>6
  <2>2. ~c.complete /\ ~c.allocated /\ c.use = "erased"
    BY <1>2, <2>1, Erased
  <2> QED
    BY <1>1, <1>4, <1>6, <2>1, <2>2 DEF w, c
<1> QED
  BY <1>5, <1>6

(* Without a record that is in the spare block only, nothing is in flight.  *)
LEMMA FreshCalm ==
  ASSUME TypeOK, Fresh,
         ~LastRecord.spareComplete \/ LastRecord.destComplete \/ ~LastHeader.allocated
  PROVE  Calm
<1>1. Mirror /\ Position /\ Valid /\ Log(work.cells, lastHeader)
      /\ (LastHeader.allocated <=> Open(work.cells[lastHeader]))
  BY FreshCells
<1>2. lastRecord = lastHeader + 1 /\ work \in WorkType /\ LastRecord = work.cells[lastRecord]
  BY <1>1, KnownCells
<1>3. \A l \in Lba : ~FlyingIn(work, l)
  BY <1>1, <1>2, FlyingLog DEF Valid
<1> QED
  BY <1>3, CalmIs

LEMMA FreshSettled ==
  ASSUME TypeOK, Fresh
  PROVE  Settled <=> work.cells[lastRecord] = ErasedCell
<1>1. Mirror /\ Position /\ Valid /\ Log(work.cells, lastHeader)
  BY FreshCells
<1>2. /\ lastHeader \in 1 .. Size + 1 /\ lastHeader < Size /\ lastRecord = lastHeader + 1
      /\ work.cells \in [1 .. Size -> Cell]
  BY <1>1, KnownCells
<1>3. ASSUME Settled PROVE work.cells[lastRecord] = ErasedCell
  <2>1. PICK h \in 1 .. Size + 1 :
          Log(work.cells, h) /\ (h < Size => work.cells[h + 1] = ErasedCell)
    BY <1>3 DEF Settled
  <2>2. h = lastHeader
    BY <1>1, <1>2, <2>1, LogUnique
  <2> QED
    BY <1>2, <2>1, <2>2
<1>4. ASSUME work.cells[lastRecord] = ErasedCell PROVE Settled
  BY <1>1, <1>2, <1>4 DEF Settled
<1> QED
  BY <1>3, <1>4

LEMMA FinishedSettled ==
  ASSUME TypeOK, Finished
  PROVE  Settled /\ Calm /\ LastHeader.complete
<1>1. Mirror /\ Position /\ Valid /\ Log(work.cells, lastHeader + 2)
      /\ Closed(work.cells[lastHeader])
      /\ \A i \in 1 .. Size : i > lastHeader + 1 => work.cells[i] = ErasedCell
  BY DEF Finished
<1>2. /\ lastHeader \in Nat /\ lastHeader < Size /\ Size \in Nat /\ work \in WorkType
      /\ LastHeader.complete = work.cells[lastHeader].complete
  BY <1>1, KnownCells
<1>3. lastHeader + 2 \in 1 .. Size + 1
  BY <1>2
<1>4. lastHeader + 2 < Size => work.cells[lastHeader + 2 + 1] = ErasedCell
  <2>1. lastHeader + 2 < Size => lastHeader + 2 + 1 \in 1 .. Size /\ lastHeader + 2 + 1 > lastHeader + 1
    BY <1>2
  <2> QED
    BY <1>1, <2>1
<1>5. Settled
  BY <1>1, <1>3, <1>4 DEF Settled
<1> QED
  BY <1>1, <1>2, <1>5, SettledCalm DEF Closed

(* The work space right after a reclaim.                                    *)
LEMMA ErasedFresh ==
  ASSUME Valid, work.cells = ErasedCells, Memory = Reclaimed
  PROVE  Fresh /\ Settled /\ ram.cells = ErasedCells /\ lastHeader = 1 /\ lastRecord = 2
<1>1. ram.cells = ErasedCells /\ lastHeader = 1 /\ lastRecord = 2
  BY DEF Memory, Reclaimed
<1>2. Mirror
  BY <1>1 DEF Mirror
<1>3. Position
  BY <1>1, Sizes, OddSteps DEF Position
<1>4. Log(work.cells, lastHeader)
  BY <1>1, ErasedLog
<1> QED
  BY <1>1, <1>2, <1>3, <1>4, ErasedSettled DEF Fresh

(* What the steps after a refresh rely on holds in a settled log.           *)
LEMMA SettledBefore ==
  ASSUME TypeOK, Settled, NEW t, Rest(t, request)
  PROVE  Before(t)
<1>1. Valid /\ Calm
  BY SettledCalm DEF Settled, TypeOK, WorkType
<1> QED
  BY <1>1 DEF Before, Rest

(* FtwAbort put in front of what may follow it.                             *)
LEMMA AbortList ==
  ASSUME NEW s \in Seq(Step), AfterAbort(s)
  PROVE  LET t == AbortSteps \o s
         IN  t \in Seq(Step) /\ Starts(t, "refresh") /\ Tail(t) \in Seq(Step) /\ ToAbort(Tail(t))
<1> DEFINE a == Do("refresh")
           b == Do("abort")
           t == AbortSteps \o s
<1>1. a \in Step /\ b \in Step /\ a.op = "refresh" /\ b.op = "abort"
  BY Steps DEF Op
<1>2. t = <<a, b>> \o s
  BY DEF AbortSteps
<1> HIDE DEF a, b, t
<1>3. t \in Seq(Step) /\ t # << >> /\ Head(t) = a /\ Tail(t) = <<b>> \o s
  BY <1>1, <1>2, Prefix2
<1>4. <<b>> \o s \in Seq(Step) /\ <<b>> \o s # << >> /\ Head(<<b>> \o s) = b /\ Tail(<<b>> \o s) = s
  BY <1>1, Prefix1
<1>5. t \in Seq(Step) /\ Starts(t, "refresh") /\ Tail(t) \in Seq(Step) /\ ToAbort(Tail(t))
  BY <1>1, <1>3, <1>4 DEF Starts, ToAbort
<1> QED
  BY <1>5 DEF t

-----------------------------------------------------------------------------
(* The decisions of InitFtwProtocol                                         *)

(* FtwAbort is called, with nothing in flight.                              *)
LEMMA CallAbort ==
  ASSUME OwnBlock, IInv, UNCHANGED <<flash, memory>>, Goes, Valid, Calm, request = None,
         NEW s \in Seq(Step), AfterAbort(s), todo' = AbortSteps \o s
  PROVE  IInv' /\ Effect
<1>1. todo' \in Seq(Step) /\ Starts(todo', "refresh") /\ ToAbort(Tail(todo'))
  BY AbortList
<1>2. Valid' /\ Calm' /\ request' = None
  BY Unmoved DEF Goes
<1>3. Refreshing'
  BY <1>1, <1>2 DEF Refreshing, Rest, Before
<1> QED
  BY <1>1, <1>3, Decision DEF Stage

LEMMA StepAbortFirst ==
  ASSUME OwnBlock, IInv, ToAbortFirst(todo), Fresh, request = None, AbortFirst
  PROVE  IInv' /\ Effect
<1>1. /\ UNCHANGED <<flash, memory>> /\ Goes /\ request' = request
      /\ todo' = (IF FirstNotStarted THEN AbortSteps ELSE << >>) \o Tail(todo)
  BY DEF AbortFirst, Then, Goes
<1>2. Tail(todo) \in Seq(Step) /\ << >> \o Tail(todo) = Tail(todo) /\ ToAbortLast(Tail(todo))
  BY Popped DEF IInv, ToAbortFirst
<1>3. CASE FirstNotStarted
  <2>1. Calm /\ Valid
    BY <1>3, FreshCalm DEF IInv, FirstNotStarted, Fresh
  <2> QED
    BY <1>1, <1>2, <1>3, <2>1, CallAbort DEF AfterAbort
<1>4. CASE ~FirstNotStarted
  <2>1. Recovering'
    BY <1>1, <1>2, <1>4, Unmoved DEF Recovering
  <2> QED
    BY <1>1, <1>2, <1>4, <2>1, Decision DEF Stage
<1> QED
  BY <1>3, <1>4

LEMMA StepAbortLast ==
  ASSUME OwnBlock, IInv, ToAbortLast(todo), (Fresh /\ ~FirstNotStarted) \/ Finished,
         request = None, AbortLast
  PROVE  IInv' /\ Effect
<1>1. /\ UNCHANGED <<flash, memory>> /\ Goes /\ request' = request
      /\ todo' = (IF LastWritten THEN AbortSteps ELSE << >>) \o Tail(todo)
  BY DEF AbortLast, Then, Goes
<1>2. Tail(todo) \in Seq(Step) /\ << >> \o Tail(todo) = Tail(todo) /\ ToTrailing(Tail(todo))
  BY Popped DEF IInv, ToAbortLast
<1>3. CASE LastWritten
  <2>1. ~Finished
    BY <1>3, FinishedSettled DEF IInv, LastWritten
  <2>2. Calm /\ Valid
    BY <1>3, <2>1, FreshCalm DEF IInv, LastWritten, Fresh
  <2> QED
    BY <1>1, <1>2, <1>3, <2>2, CallAbort DEF AfterAbort
<1>4. CASE ~LastWritten
  <2>1. Recovering'
    BY <1>1, <1>2, <1>4, Unmoved DEF Recovering
  <2> QED
    BY <1>1, <1>2, <1>4, <2>1, Decision DEF Stage
<1> QED
  BY <1>3, <1>4

(* After the last header and its record the work space is erased.           *)
LEMMA ErasedAfter ==
  ASSUME TypeOK, Fresh \/ Finished
  PROVE  \A i \in After(ram.cells, lastHeader) : ram.cells[i] = ErasedCell
<1>1. Mirror /\ Position
  BY DEF Fresh, Finished
<1>2. \A i \in 1 .. Size : i > lastHeader + 1 => work.cells[i] = ErasedCell
  BY FreshCells DEF Finished
<1>3. /\ lastHeader \in Nat /\ Size \in Nat /\ lastRecord = lastHeader + 1
      /\ work.cells \in [1 .. Size -> Cell] /\ lastHeader \in 1 .. Size
      /\ \A i \in 1 .. Size : i # lastHeader => ram.cells[i] = work.cells[i]
      /\ LastHeader.use = work.cells[lastHeader].use
      /\ LastHeader.n = work.cells[lastHeader].n
  BY <1>1, KnownCells
<1>4. CASE Header(work.cells[lastHeader])
  <2>1. Writes(LastHeader) = 1 /\ LastHeader.use # "erased"
    BY <1>3, <1>4 DEF Header, Writes
  <2>2. After(ram.cells, lastHeader) = {i \in 1 .. Size : i >= lastHeader + 2}
    BY <1>3, <2>1 DEF After, TotalSize, LastHeader
  <2> QED
    BY <1>2, <1>3, <2>2
<1>5. CASE ~Header(work.cells[lastHeader])
  <2>1. Fresh /\ ~Open(work.cells[lastHeader])
    BY <1>5 DEF Finished, Closed, Open
  <2>2. work.cells[lastHeader] = ErasedCell /\ work.cells[lastRecord] = ErasedCell
    BY <2>1, FreshCells
  <2>3. ram.cells[lastHeader] = ErasedCell
    <3>1. ErasedCell = [ErasedCell EXCEPT !.writesAllocated = FALSE]
      <4>1. ErasedCell.writesAllocated = FALSE
        BY DEF ErasedCell
      <4> QED
        BY <4>1, Erased DEF Cell
    <3> QED
      BY <1>1, <1>3, <2>2, <3>1 DEF Mirror
  <2>4. After(ram.cells, lastHeader) = {i \in 1 .. Size : i >= lastHeader}
    BY <2>3, Erased DEF After
  <2>5. ASSUME NEW i \in 1 .. Size, i >= lastHeader PROVE ram.cells[i] = ErasedCell
    <3>1. i = lastHeader \/ i = lastRecord \/ i > lastHeader + 1
      BY <1>3, <2>5
    <3> QED
      BY <1>2, <1>3, <2>2, <2>3, <3>1
  <2> QED
    BY <2>4, <2>5
<1> QED
  BY <1>4, <1>5

LEMMA StepTrailing ==
  ASSUME OwnBlock, IInv, ToTrailing(todo),
         (Fresh /\ ~FirstNotStarted /\ ~LastWritten) \/ Finished, request = None, Trailing
  PROVE  IInv' /\ Effect
<1>1. \A i \in After(ram.cells, lastHeader) : ram.cells[i] = ErasedCell
  BY ErasedAfter DEF IInv
<1>2. /\ UNCHANGED <<flash, memory>> /\ Goes /\ request' = request
      /\ todo' = << >> \o Tail(todo)
  BY <1>1 DEF Trailing, Then, Goes
<1>3. Tail(todo) \in Seq(Step) /\ << >> \o Tail(todo) = Tail(todo) /\ ToRestartLast(Tail(todo))
  BY Popped DEF IInv, ToTrailing
<1>4. Recovering'
  BY <1>2, <1>3, Unmoved DEF Recovering
<1> QED
  BY <1>2, <1>3, <1>4, Decision DEF Stage

LEMMA StepRestartLast ==
  ASSUME OwnBlock, IInv, ToRestartLast(todo),
         (Fresh /\ ~FirstNotStarted /\ ~LastWritten) \/ Finished, request = None, RestartLast
  PROVE  IInv' /\ Effect
<1> DEFINE again == ~LastHeader.complete /\ LastRecord.spareComplete
           a == Do("refresh")
           b == Do("restart")
           c == Do("abort")
<1>1. /\ UNCHANGED <<flash, memory>> /\ Goes /\ request' = request
      /\ todo' = (IF again THEN <<a, b>> \o AbortSteps ELSE << >>) \o Tail(todo)
  BY DEF RestartLast, Then, Goes
<1>2. Tail(todo) = << >> /\ << >> \in Seq(Step)
  BY Popped DEF IInv, ToRestartLast, Single
<1>3. a \in Step /\ b \in Step /\ c \in Step /\ a.op = "refresh" /\ b.op = "restart" /\ c.op = "abort"
  BY Steps DEF Op
<1>4. AbortSteps = <<a, c>>
  BY DEF AbortSteps
<1> HIDE DEF a, b, c
<1>5. CASE again
  <2> DEFINE v == <<a, c>>
             u == <<a, b>> \o v
  <2>1. /\ v \in Seq(Step) /\ v # << >> /\ Head(v) = a
        /\ Tail(v) # << >> /\ Head(Tail(v)) = c /\ Tail(Tail(v)) = << >>
    BY <1>3
  <2> HIDE DEF v
  <2>2. /\ u \in Seq(Step) /\ u # << >> /\ Head(u) = a /\ Tail(u) # << >> /\ Head(Tail(u)) = b
        /\ Tail(Tail(u)) = v
    BY <1>3, <2>1, Prefix1, Prefix2
  <2>3. u \o << >> = u
    BY <2>2, ConcatEmptySeq
  <2>4. todo' = u
    BY <1>1, <1>2, <1>4, <1>5, <2>3 DEF v
  <2> HIDE DEF u
  <2>5. Starts(todo', "refresh") /\ ToRestart(Tail(todo'))
    BY <1>3, <2>1, <2>2, <2>4 DEF Starts, ToRestart, Single
  <2>6. Valid' /\ request' = None
    BY <1>1, Unmoved DEF Fresh, Finished
  <2>7. Refreshing'
    BY <2>5, <2>6 DEF Refreshing, Rest, Before
  <2> QED
    BY <1>1, <2>2, <2>4, <2>7, Decision DEF Stage
<1>6. CASE ~again
  <2>1. todo' = << >>
    BY <1>1, <1>2, <1>6
  <2>2. Settled
    <3>1. CASE Finished
      BY <3>1, FinishedSettled DEF IInv
    <3>2. CASE Fresh /\ ~FirstNotStarted /\ ~LastWritten
      <4>1. ~LastHeader.complete /\ (LastHeader.allocated <=> Open(work.cells[lastHeader]))
            /\ (~Open(work.cells[lastHeader]) => work.cells[lastRecord] = ErasedCell)
            /\ Position
        BY <3>2, FreshCells DEF IInv
      <4>2. ~LastRecord.spareComplete
        BY <1>6, <4>1
      <4>3. ~LastHeader.allocated
        BY <3>2, <4>1, <4>2 DEF FirstNotStarted, IsFirstRecordOfWrites, Position
      <4> QED
        BY <3>2, <4>1, <4>3, FreshSettled DEF IInv
    <3> QED
      BY <3>1, <3>2
  <2>3. Idle'
    BY <1>1, <2>1, <2>2, Unmoved DEF Idle
  <2> QED
    BY <1>1, <1>2, <2>1, <2>3, Decision DEF Stage
<1> QED
  BY <1>5, <1>6

-----------------------------------------------------------------------------
(* Lists of steps put together                                              *)

LEMMA Assoc ==
  ASSUME NEW S, NEW u \in Seq(S), NEW v \in Seq(S), NEW s \in Seq(S)
  PROVE  (u \o v) \o s = u \o (v \o s)
OBVIOUS

(* One step in front of a list, and two.                                    *)
LEMMA OneStep ==
  ASSUME NEW a \in Step, NEW s \in Seq(Step)
  PROVE  LET t == <<a>> \o s
         IN  t \in Seq(Step) /\ Starts(t, a.op) /\ Head(t) = a /\ Tail(t) = s
BY Prefix1 DEF Starts

LEMMA TwoSteps ==
  ASSUME NEW a \in Step, NEW b \in Step, NEW s \in Seq(Step)
  PROVE  LET t == <<a, b>> \o s
         IN  /\ t \in Seq(Step) /\ Starts(t, a.op) /\ Head(t) = a
             /\ Tail(t) \in Seq(Step) /\ Starts(Tail(t), b.op) /\ Head(Tail(t)) = b
             /\ Tail(Tail(t)) = s
<1>1. <<a, b>> \o s \in Seq(Step) /\ <<a, b>> \o s # << >>
      /\ Head(<<a, b>> \o s) = a /\ Tail(<<a, b>> \o s) = <<b>> \o s
  BY Prefix2
<1>2. <<b>> \o s \in Seq(Step) /\ Starts(<<b>> \o s, b.op) /\ Head(<<b>> \o s) = b
      /\ Tail(<<b>> \o s) = s
  BY OneStep
<1> QED
  BY <1>1, <1>2 DEF Starts

(* Two steps ahead of the rest, as what is to do next.                      *)
LEMMA TwoAhead ==
  ASSUME NEW a \in Step, NEW b \in Step, NEW s \in Seq(Step), todo' = <<a, b>> \o s
  PROVE  /\ todo' \in Seq(Step) /\ Starts(todo', a.op) /\ Head(todo') = a
         /\ Tail(todo') \in Seq(Step) /\ Starts(Tail(todo'), b.op) /\ Head(Tail(todo')) = b
         /\ Tail(Tail(todo')) = s
<1> DEFINE u == <<a, b>> \o s
<1>1. /\ u \in Seq(Step) /\ Starts(u, a.op) /\ Head(u) = a
      /\ Tail(u) \in Seq(Step) /\ Starts(Tail(u), b.op) /\ Head(Tail(u)) = b
      /\ Tail(Tail(u)) = s
  BY TwoSteps
<1>2. todo' = u
  OBVIOUS
<1> HIDE DEF u
<1> QED
  BY <1>1, <1>2

(* Erasing and writing the spare block.                                     *)
LEMMA SpareList ==
  ASSUME NEW img \in Image, NEW s \in Seq(Step)
  PROVE  LET t == SpareSteps(img) \o s
         IN  /\ SpareSteps(img) \in Seq(Step) /\ t \in Seq(Step) /\ Starts(t, "spareTear")
             /\ Tail(t) \in Seq(Step) /\ Starts(Tail(t), "sparePut")
             /\ Head(Tail(t)).img = img /\ Tail(Tail(t)) = s
<1> DEFINE a == Do("spareTear")
           b == DoPut("sparePut", img)
<1>1. a \in Step /\ b \in Step /\ a.op = "spareTear" /\ b.op = "sparePut" /\ b.img = img
  BY Steps DEF Op
<1>2. SpareSteps(img) = <<a, b>>
  BY DEF SpareSteps
<1> HIDE DEF a, b
<1>3. <<a, b>> \in Seq(Step)
  BY <1>1
<1>4. LET t == <<a, b>> \o s
      IN  /\ t \in Seq(Step) /\ Starts(t, a.op) /\ Head(t) = a
          /\ Tail(t) \in Seq(Step) /\ Starts(Tail(t), b.op) /\ Head(Tail(t)) = b
          /\ Tail(Tail(t)) = s
  BY <1>1, TwoSteps
<1> QED
  BY <1>1, <1>2, <1>3, <1>4

(* FtwRestart calls FtwWriteRecord and erases the spare block.              *)
LEMMA RestartList ==
  ASSUME NEW s \in Seq(Step), NEW q, Put3(s, q)
  PROVE  LET t == RestartSteps \o s
         IN  t \in Seq(Step) /\ ToDestination(t, q)
<1> DEFINE a == Do("destination")
           img == Unreadable("erased")
           v == SpareSteps(img) \o s
           t == <<a>> \o v
<1>1. a \in Step /\ a.op = "destination"
  BY Steps DEF Op
<1>2. img \in Image /\ Harmless(img)
  BY Images, Headers DEF Harmless
<1>3. <<a>> \in Seq(Step) /\ SpareSteps(img) \in Seq(Step)
  BY <1>1, <1>2, SpareList
<1> HIDE DEF a, img
<1>4. RestartSteps \o s = t
  BY <1>3, Assoc DEF RestartSteps, a, img
<1>5. /\ v \in Seq(Step) /\ Starts(v, "spareTear")
      /\ Tail(v) \in Seq(Step) /\ Starts(Tail(v), "sparePut")
      /\ Head(Tail(v)).img = img /\ Tail(Tail(v)) = s
  BY <1>2, SpareList
<1>6. Put1(v, q)
  BY <1>2, <1>5 DEF Put1, Put2
<1> HIDE DEF v
<1>7. t \in Seq(Step) /\ Starts(t, "destination") /\ Tail(t) = v
  BY <1>1, <1>5, OneStep
<1> QED
  BY <1>4, <1>6, <1>7 DEF ToDestination

(* FtwWrite copies the block to the spare block, calls FtwWriteRecord and
   restores the spare block.                                                *)
LEMMA WriteList ==
  ASSUME NEW img \in Image, Harmless(img), spare \in Image, Harmless(spare),
         NEW q, q # None, img.data = q.data
  PROVE  LET t == WriteSteps(img) \o << >>
         IN  t \in Seq(Step) /\ Backup1(t, q)
<1> DEFINE a == Do("spareComplete")
           b == Do("destination")
           c == Do("success")
           u == SpareSteps(img)
           v == <<a, b>>
           w == SpareSteps(spare)
           z == <<c>>
           t == WriteSteps(img) \o << >>
<1>1. /\ a \in Step /\ b \in Step /\ c \in Step
      /\ a.op = "spareComplete" /\ b.op = "destination" /\ c.op = "success"
  BY Steps DEF Op
<1> HIDE DEF a, b, c
<1>2. /\ z \in Seq(Step) /\ v \in Seq(Step) /\ << >> \in Seq(Step)
      /\ z # << >> /\ Head(z) = c /\ Tail(z) = << >>
  BY <1>1
<1>3. u \in Seq(Step) /\ w \in Seq(Step)
  BY <1>2, SpareList
<1>4. WriteSteps(img) = ((u \o v) \o w) \o z
  BY DEF WriteSteps, a, b, c
<1> HIDE DEF u, v, w, z
<1>5. ((u \o v) \o w) \o z = u \o (v \o (w \o z))
  BY <1>2, <1>3, SMTT(60)
<1>6. w \o z \in Seq(Step) /\ Put1(w \o z, q)
  <2>1. Put3(z, q)
    BY <1>1, <1>2 DEF Put3, Single, Starts
  <2>2. /\ w \o z \in Seq(Step) /\ Starts(w \o z, "spareTear")
        /\ Tail(w \o z) \in Seq(Step) /\ Starts(Tail(w \o z), "sparePut")
        /\ Head(Tail(w \o z)).img = spare /\ Tail(Tail(w \o z)) = z
    BY <1>2, SpareList DEF w
  <2> QED
    BY <2>1, <2>2 DEF Put1, Put2
<1> DEFINE x == w \o z
<1> HIDE DEF x
<1>7. v \o x \in Seq(Step) /\ Backup3(v \o x, q)
  <2>1. x \in Seq(Step) /\ Put1(x, q)
    BY <1>6 DEF x
  <2>2. /\ v \o x \in Seq(Step) /\ Starts(v \o x, a.op)
        /\ Starts(Tail(v \o x), b.op) /\ Tail(Tail(v \o x)) = x
    BY <1>1, <2>1, TwoSteps DEF v
  <2> QED
    BY <1>1, <2>1, <2>2 DEF Backup3, ToDestination
<1> DEFINE y == v \o x
<1> HIDE DEF y
<1>8. u \o y \in Seq(Step) /\ Backup1(u \o y, q)
  <2>1. y \in Seq(Step) /\ Backup3(y, q)
    BY <1>7 DEF y
  <2>2. /\ u \o y \in Seq(Step) /\ Starts(u \o y, "spareTear")
        /\ Tail(u \o y) \in Seq(Step) /\ Starts(Tail(u \o y), "sparePut")
        /\ Head(Tail(u \o y)).img = img /\ Tail(Tail(u \o y)) = y
    BY <2>1, SpareList DEF u
  <2> QED
    BY <2>1, <2>2 DEF Backup1, Backup2
<1>9. WriteSteps(img) = u \o y
  BY <1>4, <1>5 DEF x, y
<1>10. t = u \o y
  BY <1>8, <1>9, ConcatEmptySeq
<1> QED
  BY <1>8, <1>10

(* FlushSpareBlockToWorkingBlock in a working block of its own.             *)
LEMMA FlushList ==
  ASSUME OwnBlock, spare \in Image, spare.cells = ErasedCells,
         NEW s \in Seq(Step), NEW q, NEW m, AfterFlush(s, q, m)
  PROVE  LET t == FlushSteps(spare) \o s
         IN  t \in Seq(Step) /\ Flush1(t, q, m)
<1> DEFINE a == Do("workInvalid")
           b == Do("workErase")
           c == DoPut("workPut", spare)
           d == Do("workValid")
           u == <<a>>
           v == <<b>>
           w == <<c, d>>
           e == << >>
<1>1. /\ a \in Step /\ b \in Step /\ c \in Step /\ d \in Step
      /\ a.op = "workInvalid" /\ b.op = "workErase" /\ c.op = "workPut" /\ d.op = "workValid"
      /\ c.img = spare
  BY Steps DEF Op
<1>2. FlushSteps(spare) = (((u \o e) \o v) \o e) \o w
  BY DEF FlushSteps, OwnBlock
<1> HIDE DEF a, b, c, d
<1>3. u \in Seq(Step) /\ v \in Seq(Step) /\ w \in Seq(Step) /\ e \in Seq(Step)
  BY <1>1
<1>4. /\ u \o e = u /\ u \o v \in Seq(Step) /\ (u \o v) \o e = u \o v
  <2> HIDE DEF u, v
  <2>1. u \o e = u /\ u \o v \in Seq(Step)
    BY <1>3, ConcatEmptySeq, ConcatProperties
  <2> QED
    BY <2>1, ConcatEmptySeq
<1> HIDE DEF u, v, w, e
<1>5. FlushSteps(spare) \o s = u \o (v \o (w \o s))
  <2>1. FlushSteps(spare) = (u \o v) \o w
    BY <1>2, <1>4
  <2>2. ((u \o v) \o w) \o s = u \o (v \o (w \o s))
    BY <1>3, SMTT(60)
  <2> QED
    BY <2>1, <2>2
<1> DEFINE x == w \o s
           y == v \o x
<1>6. x \in Seq(Step) /\ Flush3(x, q, m)
  <2>1. /\ x \in Seq(Step) /\ Starts(x, c.op) /\ Head(x) = c
        /\ Starts(Tail(x), d.op) /\ Tail(Tail(x)) = s
    BY <1>1, TwoSteps DEF w
  <2> QED
    BY <1>1, <2>1 DEF Flush3, Flush4
<1> HIDE DEF x
<1>7. y \in Seq(Step) /\ Flush2(y, q, m)
  <2>1. y \in Seq(Step) /\ Starts(y, b.op) /\ Tail(y) = x
    BY <1>1, <1>6, OneStep DEF v
  <2> QED
    BY <1>1, <1>6, <2>1 DEF Flush2
<1> HIDE DEF y
<1>8. u \o y \in Seq(Step) /\ Flush1(u \o y, q, m)
  <2>1. u \o y \in Seq(Step) /\ Starts(u \o y, a.op) /\ Tail(u \o y) = y
    BY <1>1, <1>7, OneStep DEF u
  <2> QED
    BY <1>1, <1>7, <2>1 DEF Flush1
<1> QED
  BY <1>5, <1>8 DEF x, y

-----------------------------------------------------------------------------
(* The decisions of the calls                                               *)

(* A record that was not started is erased.                                 *)
LEMMA SettledRecord ==
  ASSUME TypeOK, Fresh, Settled
  PROVE  /\ LastRecord = ErasedCell /\ ~LastRecord.spareComplete /\ ~LastRecord.destComplete
         /\ Valid /\ Calm /\ LastRecord = work.cells[lastRecord]
<1>1. Mirror /\ Position
  BY DEF Fresh
<1>2. LastRecord = work.cells[lastRecord] /\ work \in WorkType
  BY <1>1, KnownCells
<1> QED
  BY <1>2, FreshSettled, SettledCalm, Erased DEF Settled

(* Nothing left to do.                                                      *)
LEMMA Rests ==
  ASSUME OwnBlock, IInv, UNCHANGED <<flash, memory>>, Goes, todo' = << >>,
         request = None, Settled, Fresh \/ Finished
  PROVE  IInv' /\ Effect
<1>1. Idle'
  BY Unmoved DEF Idle, Goes
<1>2. todo' \in Seq(Step)
  BY Popped
<1> QED
  BY <1>1, <1>2, Decision DEF Stage

(* The caller gets an error.                                                *)
LEMMA Quits ==
  ASSUME OwnBlock, IInv, UNCHANGED <<flash, memory>>, Quit, Settled, Fresh
  PROVE  IInv' /\ Effect
<1>1. todo' = << >> /\ request' = None /\ status' = "error" /\ calls' = calls
  BY DEF Quit
<1>2. FlashOK' /\ Same /\ Settled'
  BY FlashKept DEF IInv
<1>3. Fresh'
  BY MemoryKept DEF flash
<1>4. TypeOK'
  BY <1>1 DEF IInv, TypeOK, flash, memory
<1>5. Idle'
  BY <1>1, <1>2, <1>3 DEF Idle
<1> QED
  BY <1>1, <1>2, <1>4, <1>5 DEF IInv, Stage, Effect

LEMMA StepAbort ==
  ASSUME OwnBlock, IInv, ToAbort(todo), Fresh, Calm, request = None, FtwAbort
  PROVE  IInv' /\ Effect
<1> DEFINE no == ~LastHeader.allocated \/ LastHeader.complete
           a == Do("complete")
<1>1. /\ UNCHANGED <<flash, memory>> /\ Goes /\ request' = request
      /\ todo' = (IF no THEN << >> ELSE <<a>>) \o Tail(todo)
  BY DEF FtwAbort, Then, Goes
<1>2. Tail(todo) \in Seq(Step) /\ << >> \o Tail(todo) = Tail(todo) /\ AfterAbort(Tail(todo))
  BY Popped DEF IInv, ToAbort
<1>3. /\ ~LastHeader.complete /\ (LastHeader.allocated <=> Open(work.cells[lastHeader]))
      /\ (~Open(work.cells[lastHeader]) => work.cells[lastRecord] = ErasedCell)
      /\ Mirror /\ Position /\ Valid
  BY FreshCells DEF IInv
<1>4. CASE no
  <2>1. todo' = Tail(todo) /\ ~LastHeader.allocated
    BY <1>1, <1>2, <1>3, <1>4
  <2>2. Settled
    BY <1>3, <2>1, FreshSettled DEF IInv
  <2>3. ~FirstNotStarted /\ ~LastWritten
    BY <2>1, <2>2, SettledRecord DEF IInv, FirstNotStarted, LastWritten
  <2>4. CASE Tail(todo) = << >>
    BY <1>1, <2>1, <2>2, <2>4, Rests
  <2>5. CASE ToAbortLast(Tail(todo)) \/ ToTrailing(Tail(todo))
    <3>1. Recovering'
      BY <1>1, <2>1, <2>3, <2>5, Unmoved DEF Recovering
    <3> QED
      BY <1>1, <1>2, <2>1, <3>1, Decision DEF Stage
  <2>6. CASE Starts(Tail(todo), "refresh") /\ ToAbortFirst(Tail(Tail(todo)))
    <3>1. Refreshing'
      BY <1>1, <1>3, <2>1, <2>6, Unmoved DEF Refreshing, Rest, Before
    <3> QED
      BY <1>1, <1>2, <2>1, <3>1, Decision DEF Stage
  <2> QED
    BY <1>2, <2>4, <2>5, <2>6 DEF AfterAbort
<1>5. CASE ~no
  <2>1. a \in Step /\ a.op = "complete"
    BY Steps DEF Op
  <2> HIDE DEF a
  <2>2. todo' = <<a>> \o Tail(todo)
    BY <1>1, <1>5
  <2>3. todo' \in Seq(Step) /\ Starts(todo', "complete") /\ Tail(todo') = Tail(todo)
    BY <1>2, <2>1, <2>2, OneStep
  <2>4. Open(work.cells[lastHeader])
    BY <1>3, <1>5
  <2>5. Completing'
    BY <1>1, <1>2, <2>3, <2>4, Unmoved DEF Completing
  <2> QED
    BY <1>1, <2>3, <2>5, Decision DEF Stage
<1> QED
  BY <1>4, <1>5

(* FtwRestart called from outside finds nothing to restart.                 *)
LEMMA StepRestartIdle ==
  ASSUME OwnBlock, IInv, Single(todo, "restart"), Fresh, Settled, request = None, FtwRestart
  PROVE  IInv' /\ Effect
<1>1. ~LastRecord.spareComplete
  BY SettledRecord DEF IInv
<1>2. /\ UNCHANGED <<flash, memory>> /\ Goes /\ todo' = << >> \o Tail(todo)
  BY <1>1 DEF FtwRestart, Then
<1>3. todo' = << >>
  BY <1>2, Popped DEF IInv, Single
<1> QED
  BY <1>2, <1>3, Rests

LEMMA StepRestart ==
  ASSUME OwnBlock, IInv, ToRestart(todo), Fresh, request = None, FtwRestart
  PROVE  IInv' /\ Effect
<1> DEFINE no == LastHeader.complete \/ LastRecord.destComplete \/ ~LastRecord.spareComplete
<1>1. /\ UNCHANGED <<flash, memory>> /\ Goes /\ request' = request
      /\ todo' = (IF no THEN << >> ELSE RestartSteps) \o Tail(todo)
  BY DEF FtwRestart, Then, Goes
<1>2. /\ Tail(todo) \in Seq(Step) /\ << >> \o Tail(todo) = Tail(todo)
      /\ Starts(Tail(todo), "refresh") /\ Single(Tail(Tail(todo)), "abort")
  BY Popped DEF IInv, ToRestart
<1>3. /\ ~LastHeader.complete
      /\ (~Open(work.cells[lastHeader]) => work.cells[lastRecord] = ErasedCell)
      /\ (Open(work.cells[lastHeader]) => IsRecord(LastRecord))
      /\ Mirror /\ Position /\ Valid
  BY FreshCells DEF IInv
<1>4. LastRecord = work.cells[lastRecord]
  BY <1>3, KnownCells DEF IInv
<1>5. CASE no
  <2>1. todo' = Tail(todo)
    BY <1>1, <1>2, <1>5
  <2>2. Calm
    BY <1>3, <1>5, FreshCalm DEF IInv
  <2>3. ToAbort(Tail(todo'))
    BY <1>2, <2>1 DEF ToAbort, AfterAbort, Single
  <2>4. Refreshing'
    BY <1>1, <1>2, <1>3, <2>1, <2>2, <2>3, Unmoved DEF Refreshing, Rest, Before
  <2> QED
    BY <1>1, <1>2, <2>1, <2>4, Decision DEF Stage
<1>6. CASE ~no
  <2>1. todo' = RestartSteps \o Tail(todo)
    BY <1>1, <1>6
  <2>2. Put3(Tail(todo), request)
    BY <1>2 DEF Put3
  <2>3. todo' \in Seq(Step) /\ ToDestination(todo', request)
    BY <1>2, <2>1, <2>2, RestartList
  <2>4. LastRecord # ErasedCell
    BY <1>6, Erased
  <2>5. Flying
    BY <1>3, <1>4, <1>6, <2>4 DEF Flying, Served, IsRecord
  <2>6. Flying'
    BY <1>1, <2>5, Unmoved DEF Flying
  <2>7. Storing'
    BY <1>1, <2>3, <2>6 DEF Storing
  <2> QED
    BY <1>1, <2>3, <2>7, Decision DEF Stage
<1> QED
  BY <1>5, <1>6

LEMMA StepLastWrite ==
  ASSUME OwnBlock, IInv, Single(todo, "lastWrite"), Fresh, Settled, request = None,
         FtwGetLastWrite
  PROVE  IInv' /\ Effect
<1>1. /\ UNCHANGED <<flash, memory>> /\ Goes
      /\ todo' = (IF LastWritten \/ FirstNotStarted THEN AbortSteps ELSE << >>) \o Tail(todo)
  BY DEF FtwGetLastWrite, Then
<1>2. Tail(todo) = << >> /\ << >> \in Seq(Step) /\ << >> \o Tail(todo) = << >>
  BY Popped DEF IInv, Single
<1>3. CASE LastWritten \/ FirstNotStarted
  BY <1>1, <1>2, <1>3, SettledRecord, CallAbort DEF IInv, AfterAbort
<1>4. CASE ~(LastWritten \/ FirstNotStarted)
  BY <1>1, <1>2, <1>4, Rests
<1> QED
  BY <1>3, <1>4

LEMMA StepWrite ==
  ASSUME OwnBlock, IInv, Single(todo, "write"), Fresh, Settled, request # None, FtwWrite
  PROVE  IInv' /\ Effect
<1> DEFINE a == Do("check")
           b == Do("refresh")
           c == DoWith("allocate", 1)
<1>1. UNCHANGED <<flash, memory>> /\ Tail(todo) = << >> /\ << >> \in Seq(Step)
  BY Popped DEF FtwWrite, IInv, Single
<1>2. /\ a \in Step /\ b \in Step /\ c \in Step
      /\ a.op = "check" /\ b.op = "refresh" /\ c.op = "allocate" /\ c.arg = 1
  BY Steps, Sizes DEF Op
<1> HIDE DEF a, b, c
<1>3. LastHeader.use # "erased" <=> Open(work.cells[lastHeader])
  BY FreshCells DEF IInv
<1>4. CASE LastHeader.use # "erased" /\ Then(<<a>>) /\ Goes
  <2>1. todo' = <<a>> \o << >> /\ request' = request
    BY <1>1, <1>4 DEF Then, Goes
  <2>2. todo' \in Seq(Step) /\ Single(todo', "check")
    BY <1>1, <1>2, <2>1, OneStep DEF Single
  <2>3. Allocated'
    BY <1>1, <1>3, <1>4, <2>1, Unmoved DEF Allocated
  <2> QED
    BY <1>1, <1>4, <2>2, <2>3, Decision DEF Stage, Writing
<1>5. CASE Then(<<b, c, a>>) /\ Goes
  <2>1. todo' = <<b, c, a>> \o << >> /\ request' = request
    BY <1>1, <1>5 DEF Then, Goes
  <2>2. /\ todo' \in Seq(Step) /\ todo' # << >> /\ Head(todo') = b /\ Tail(todo') = <<c, a>> \o << >>
    BY <1>1, <1>2, <2>1, Prefix3
  <2>3. /\ Starts(Tail(todo'), "allocate") /\ Head(Tail(todo')) = c
        /\ Starts(Tail(Tail(todo')), "check") /\ Tail(Tail(Tail(todo'))) = << >>
    <3> DEFINE e == << >>
               u == <<c, a>> \o e
    <3> HIDE DEF e
    <3>1. e \in Seq(Step) /\ Tail(todo') = u
      BY <1>1, <2>2 DEF e
    <3>2. /\ Starts(u, c.op) /\ Head(u) = c /\ Starts(Tail(u), a.op) /\ Tail(Tail(u)) = e
      BY <1>2, <3>1, TwoSteps
    <3> HIDE DEF u
    <3> QED
      BY <1>2, <3>1, <3>2 DEF e
  <2>4. ToAllocate(Tail(todo'), request')
    BY <1>2, <2>1, <2>3 DEF ToAllocate, AfterAllocate, Single
  <2>5. Refreshing'
    BY <1>1, <1>2, <2>1, <2>2, <2>4, Unmoved DEF Refreshing, Rest, Before, Ready, Starts
  <2> QED
    BY <1>1, <1>5, <2>2, <2>5, Decision DEF Stage
<1>6. CASE Quit
  BY <1>1, <1>6, Quits
<1> QED
  BY <1>4, <1>5, <1>6 DEF FtwWrite, a, b, c

LEMMA StepAllocate ==
  ASSUME OwnBlock, IInv, ToAllocate(todo, request), Fresh, Settled, FtwAllocate
  PROVE  IInv' /\ Effect
<1>1. UNCHANGED <<flash, memory>>
  BY DEF FtwAllocate
<1>2. CASE Quit
  BY <1>1, <1>2, Quits
<1>3. CASE TotalSize(Now.arg) <= Size /\ ~LastHeader.allocated
           /\ Then(AllocateSteps(lastHeader, Now.arg)) /\ Goes
  <2> DEFINE a == [DoAt("header", lastHeader) EXCEPT !.arg = 1]
             b == DoAt("writesAllocated", lastHeader)
  <2>1. Now.arg = 1
    <3>1. Now \in Step
      BY Popped DEF IInv, ToAllocate
    <3>2. TotalSize(Now.arg) \in Int /\ Size \in Int
      BY <3>1, Sizes DEF Step, TotalSize
    <3> QED
      BY <1>3, <3>2 DEF ToAllocate, Now
  <2>2. /\ Mirror /\ Position
        /\ (LastHeader.allocated <=> Open(work.cells[lastHeader]))
        /\ (~Open(work.cells[lastHeader]) => work.cells[lastHeader] = ErasedCell)
    BY FreshCells DEF IInv
  <2>3. lastHeader \in 0 .. Size /\ lastHeader < Size /\ lastHeader \in Nat /\ Size \in Nat
    BY <2>2, KnownCells DEF IInv
  <2>4. AllocateSteps(lastHeader, 1) = << >> \o <<a, b>>
    <3>1. ~(lastHeader + TotalSize(1) - 1 > Size)
      BY <2>3 DEF TotalSize
    <3> QED
      BY <3>1, Zenon DEF AllocateSteps
  <2>5. /\ a \in Step /\ b \in Step /\ a.op = "header" /\ b.op = "writesAllocated"
        /\ a.at = lastHeader /\ a.arg = 1 /\ b.at = lastHeader
    <3>1. DoAt("header", lastHeader) \in Step /\ DoAt("header", lastHeader).op = "header"
          /\ DoAt("header", lastHeader).at = lastHeader
      BY <2>3, Steps DEF Op
    <3>2. b \in Step /\ b.op = "writesAllocated" /\ b.at = lastHeader
      BY <2>3, Steps DEF Op
    <3>3. a \in Step /\ a.op = "header" /\ a.at = lastHeader /\ a.arg = 1
      BY <3>1, Sizes DEF Step
    <3> QED
      BY <3>2, <3>3
  <2> HIDE DEF a, b
  <2>6. << >> \o <<a, b>> = <<a, b>>
    BY <2>5
  <2>7. /\ Tail(todo) \in Seq(Step) /\ AfterAllocate(Tail(todo), request)
    BY Popped DEF IInv, ToAllocate
  <2>8. todo' = <<a, b>> \o Tail(todo) /\ request' = request
    BY <1>3, <2>1, <2>4, <2>6 DEF Then, Goes
  <2>9. /\ todo' \in Seq(Step) /\ Starts(todo', "header") /\ Head(todo') = a
        /\ Starts(Tail(todo'), "writesAllocated") /\ Head(Tail(todo')) = b
        /\ Tail(Tail(todo')) = Tail(todo)
    <3> DEFINE s == Tail(todo)
    <3>1. s \in Seq(Step) /\ todo' = <<a, b>> \o s
      BY <2>7, <2>8
    <3> HIDE DEF s
    <3>2. /\ todo' \in Seq(Step) /\ Starts(todo', a.op) /\ Head(todo') = a
          /\ Starts(Tail(todo'), b.op) /\ Head(Tail(todo')) = b /\ Tail(Tail(todo')) = s
      BY <2>5, <3>1, TwoAhead
    <3> QED
      BY <2>5, <3>2 DEF s
  <2>10. Allocating'
    BY <1>1, <1>3, <2>2, <2>5, <2>7, <2>8, <2>9, Unmoved DEF Allocating, Now
  <2> QED
    BY <1>1, <1>3, <2>9, <2>10, Decision DEF Stage
<1> QED
  BY <1>2, <1>3 DEF FtwAllocate

LEMMA StepCheck ==
  ASSUME OwnBlock, IInv, Single(todo, "check"), Allocated, CheckRecord
  PROVE  IInv' /\ Effect
<1> DEFINE a == Do("record")
           b == Do("backup")
<1>1. Fresh /\ Settled /\ Open(work.cells[lastHeader]) /\ request # None
  BY DEF Allocated
<1>2. ~WriteRefused
  <2>1. Writes(LastHeader) = 1 /\ ~LastHeader.complete /\ Position
    BY <1>1, FreshCells DEF IInv
  <2>2. lastRecord = lastHeader + 1 /\ lastHeader \in Nat
    BY <2>1, Sizes DEF Position
  <2> QED
    BY <1>1, <2>1, <2>2, SettledRecord DEF IInv, WriteRefused
<1>3. /\ UNCHANGED <<flash, memory>> /\ Goes /\ request' = request
      /\ todo' = <<a, b>> \o Tail(todo)
  BY <1>2 DEF CheckRecord, Then, Goes
<1>4. Tail(todo) = << >> /\ << >> \in Seq(Step)
  BY Popped DEF Single
<1>5. a \in Step /\ b \in Step /\ a.op = "record" /\ b.op = "backup"
  BY Steps DEF Op
<1> HIDE DEF a, b
<1>6. /\ todo' \in Seq(Step) /\ Starts(todo', "record")
      /\ Starts(Tail(todo'), "backup") /\ Tail(Tail(todo')) = << >>
  <2> DEFINE s == Tail(todo)
  <2>1. s \in Seq(Step) /\ todo' = <<a, b>> \o s
    BY <1>3, <1>4
  <2> HIDE DEF s
  <2>2. /\ todo' \in Seq(Step) /\ Starts(todo', a.op)
        /\ Starts(Tail(todo'), b.op) /\ Tail(Tail(todo')) = s
    BY <1>5, <2>1, TwoAhead
  <2> QED
    BY <1>4, <1>5, <2>2 DEF s
<1>7. Writing'
  BY <1>1, <1>3, <1>6, Unmoved DEF Writing, Allocated, Single
<1> QED
  BY <1>3, <1>6, <1>7, Decision DEF Stage

-----------------------------------------------------------------------------
(* WorkSpaceRefresh                                                         *)

(* A step that leaves flash alone.                                          *)
LEMMA MemoryStep ==
  ASSUME OwnBlock, IInv, UNCHANGED flash, Goes, todo' \in Seq(Step), Stage',
         ram' \in [hdr : BlockHeader, cells : [1 .. Size -> Cell]],
         lastHeader' \in 0 .. Size, lastRecord' \in 0 .. Size
  PROVE  IInv' /\ Effect
<1>1. FlashOK' /\ Same
  BY FlashKept DEF IInv
<1>2. request' = request /\ status' = status /\ calls' = calls
  BY DEF Goes
<1>3. TypeOK'
  BY <1>2 DEF IInv, TypeOK, flash
<1> QED
  BY <1>1, <1>2, <1>3 DEF IInv, Effect

(* No write is in progress in these lists.                                  *)
LEMMA RestNone ==
  ASSUME NEW t, NEW q, Rest(t, q),
         ToValidate(t) \/ ToAbortFirst(t) \/ ToRestart(t) \/ ToAbort(t)
  PROVE  q = None
BY DEF Rest, Ready, ToValidate, ToAbortFirst, ToRestart, ToAbort, ToAllocate, Single, Starts

(* The work space was read; what follows finds what it relies on.           *)
LEMMA AfterRefresh ==
  ASSUME OwnBlock, IInv, UNCHANGED flash, Goes, NEW t \in Seq(Step), todo' = t,
         Rest(t, request), Before(t), ram' = [hdr |-> work.hdr, cells |-> work.cells],
         Valid => Fresh', lastHeader' \in 0 .. Size, lastRecord' \in 0 .. Size
  PROVE  IInv' /\ Effect
<1>1. ram' \in [hdr : BlockHeader, cells : [1 .. Size -> Cell]]
  BY DEF IInv, TypeOK
<1>2. (Valid' <=> Valid) /\ (Calm' <=> Calm) /\ (Settled' <=> Settled)
  BY FlashKept DEF IInv
<1>3. request' = request /\ work' = work
  BY DEF Goes, flash
<1>4. CASE ToValidate(t)
  <2>1. ram'.hdr = work'.hdr
    BY <1>3
  <2>2. request = None
    BY <1>4, RestNone
  <2>3. Validating'
    BY <1>2, <1>3, <1>4, <2>1, <2>2 DEF Validating
  <2> QED
    BY <1>1, <2>3, MemoryStep DEF Stage
<1>5. CASE Valid /\ ToAbortFirst(t)
  <2>1. request = None
    BY <1>5, RestNone
  <2>2. Recovering'
    BY <1>3, <1>5, <2>1 DEF Recovering
  <2> QED
    BY <1>1, <2>2, MemoryStep DEF Stage
<1>6. CASE Valid /\ (ToRestart(t) \/ (Calm /\ ToAbort(t)))
  <2>1. request = None
    BY <1>6, RestNone
  <2>2. Calling'
    BY <1>2, <1>3, <1>6, <2>1 DEF Calling
  <2> QED
    BY <1>1, <2>2, MemoryStep DEF Stage
<1>7. CASE Settled /\ Ready(t, request)
  <2>1. Valid
    BY <1>7 DEF Settled
  <2>2. Calling'
    BY <1>2, <1>3, <1>7, <2>1 DEF Calling
  <2> QED
    BY <1>1, <2>2, MemoryStep DEF Stage
<1> QED
  BY <1>4, <1>5, <1>6, <1>7 DEF Before

(* The work space is full.                                                  *)
LEMMA FullLog ==
  ASSUME TypeOK, NEW h, Log(work.cells, h), h >= Size, ram'.cells = work.cells
  PROVE  /\ Calm /\ ~EnoughSpace(GetLastWriteHeader(work.cells))
         /\ Compacted(TRUE)' = ErasedCells
<1> DEFINE last == GetLastWriteHeader(work.cells)
           kept == last.ok /\ work.cells[last.at].allocated
<1>1. work \in WorkType /\ work.cells \in [1 .. Size -> Cell]
  BY DEF TypeOK, WorkType
<1>2. h \in Nat /\ h <= Size + 1 /\ Size \in Nat /\ h \in 1 .. Size + 1
  BY Sizes DEF Log
<1>3. (h <= Size => last.ok /\ last.at = h) /\ (h > Size => ~last.ok)
  BY <1>1, LastOfLog
<1>4. Calm
  <2>1. Valid => \A l \in Lba : ~FlyingIn(work, l)
    BY <1>1, <1>2, FlyingLog DEF Valid
  <2>2. Valid => Calm
    BY <2>1, CalmIs
  <2> QED
    BY <2>2, InvalidCalm
<1>5. ~EnoughSpace(last)
  <2> HIDE DEF last
  <2>1. last.ok => last.at = Size
    BY <1>2, <1>3
  <2>2. ~(Size + TotalSize(1) - 1 <= Size)
    BY <1>2 DEF TotalSize
  <2> QED
    BY <2>1, <2>2 DEF EnoughSpace
<1>6. ~kept
  <2>1. h = Size => work.cells[h] = ErasedCell
    BY <1>2 DEF Log
  <2> QED
    BY <1>2, <1>3, <2>1, Erased
<1>7. Compacted(TRUE)' = ErasedCells
  BY <1>6 DEF Compacted, ErasedCells
<1> QED
  BY <1>4, <1>5, <1>7

LEMMA StepRefresh ==
  ASSUME OwnBlock, IInv, Refreshing, Refresh
  PROVE  IInv' /\ Effect
<1> DEFINE last == GetLastWriteHeader(work.cells)
           t == Tail(todo)
<1>1. /\ UNCHANGED flash /\ Goes /\ ram' = [hdr |-> work.hdr, cells |-> work.cells]
      /\ lastHeader' = last.at /\ request' = request
  BY DEF Refresh, Goes
<1>2. /\ t \in Seq(Step) /\ << >> \o t = t /\ Rest(t, request) /\ Before(t)
  BY Popped DEF IInv, Refreshing
<1>3. EnoughSpace(last) => lastRecord' = GetLastWriteRecord(work.cells, last.at) /\ todo' = t
  BY <1>2 DEF Refresh, Then
<1>4. ~EnoughSpace(last) =>
        /\ lastRecord' = lastRecord
        /\ todo' = <<DoWith("reclaim", 1), Do("reread")>> \o t
  BY DEF Refresh, Then
<1>5. work' = work /\ work.cells \in [1 .. Size -> Cell]
  BY <1>1 DEF flash, IInv, TypeOK
<1> HIDE DEF t
<1>6. ASSUME NEW h \in 1 .. Size + 1, Log(work.cells, h), h < Size PROVE IInv' /\ Effect
  <2>1. last.ok /\ last.at = h /\ h \in 1 .. Size - 1 /\ h + 1 \in 1 .. Size /\ Size \in Nat
    BY <1>5, <1>6, LastOfLog, Sizes
  <2>2. EnoughSpace(last)
    BY <2>1 DEF EnoughSpace, TotalSize
  <2>3. lastRecord' = h + 1 /\ todo' = t
    BY <1>3, <1>5, <1>6, <2>1, <2>2, RecordOfLog
  <2> HIDE DEF last
  <2>4. Mirror'
    BY <1>1, <1>5 DEF Mirror
  <2>5. Position'
    BY <1>1, <1>6, <2>1, <2>3 DEF Position, Log
  <2>6. Valid => Fresh'
    BY <1>1, <1>5, <1>6, <2>1, <2>4, <2>5 DEF Fresh, Valid
  <2> QED
    BY <1>1, <1>2, <2>1, <2>3, <2>6, Sizes, AfterRefresh
<1>7. ASSUME NEW h \in 1 .. Size + 1, Log(work.cells, h), h >= Size PROVE IInv' /\ Effect
  <2> DEFINE a == DoWith("reclaim", 1)
             b == Do("reread")
  <2>1. Calm /\ ~EnoughSpace(last) /\ Compacted(TRUE)' = ErasedCells
    <3>1. ram'.cells = work.cells
      BY <1>1
    <3> QED
      BY <1>7, <3>1, FullLog DEF IInv
  <2>2. lastHeader' \in 0 .. Size /\ lastRecord' \in 0 .. Size
    <3>1. last \in [ok : BOOLEAN, at : 1 .. Size]
      BY <1>5, <1>7, LastOfLog
    <3>2. last.at \in 0 .. Size
      BY <3>1, Sizes
    <3>3. lastRecord \in 0 .. Size
      BY DEF IInv, TypeOK
    <3> QED
      BY <1>1, <1>4, <2>1, <3>2, <3>3
  <2>3. a \in Step /\ b \in Step /\ a.op = "reclaim" /\ b.op = "reread" /\ a.arg = 1
    BY Steps, Sizes DEF Op
  <2>4. todo' = <<a, b>> \o t
    BY <1>4, <2>1
  <2> HIDE DEF a, b
  <2>5. /\ todo' \in Seq(Step) /\ Starts(todo', a.op) /\ Head(todo') = a
        /\ Starts(Tail(todo'), b.op) /\ Tail(Tail(todo')) = t
    BY <1>2, <2>3, <2>4, TwoAhead
  <2>6. AfterReclaim(Tail(todo'), request')
    BY <1>1, <1>2, <2>3, <2>5 DEF AfterReclaim
  <2>7. Calm'
    BY <1>1, <2>1, FlashKept DEF IInv
  <2>8. Compacted(Now.arg = 1)' = ErasedCells
    <3>1. (Now.arg = 1)' = TRUE
      BY <2>3, <2>5 DEF Now
    <3> QED
      BY <2>1, <3>1
  <2>9. Reclaiming'
    BY <2>3, <2>5, <2>6, <2>7, <2>8 DEF Reclaiming
  <2>10. ram' \in [hdr : BlockHeader, cells : [1 .. Size -> Cell]]
    BY <1>1 DEF IInv, TypeOK
  <2> QED
    BY <1>1, <2>2, <2>5, <2>9, <2>10, MemoryStep DEF Stage
<1>8. ASSUME ~Valid, Scratch(work.cells) PROVE IInv' /\ Effect
  <2>1. last.ok /\ last.at = 1 /\ GetLastWriteRecord(work.cells, 1) \in 1 .. Size
    BY <1>5, <1>8, LastOfScratch
  <2>2. EnoughSpace(last)
    BY <2>1, Sizes DEF EnoughSpace, TotalSize
  <2>3. lastRecord' \in 0 .. Size /\ lastHeader' \in 0 .. Size /\ todo' = t
    BY <1>1, <1>3, <2>1, <2>2, Sizes
  <2> QED
    BY <1>1, <1>2, <1>8, <2>3, AfterRefresh
<1>9. \/ \E h \in 1 .. Size + 1 : Log(work.cells, h)
      \/ ~Valid /\ Scratch(work.cells)
  BY DEF IInv, FlashOK
<1>10. \A h \in 1 .. Size + 1 : h < Size \/ h >= Size
  BY Sizes
<1> QED
  BY <1>6, <1>7, <1>8, <1>9, <1>10

LEMMA StepReread ==
  ASSUME OwnBlock, IInv, Rereading, Reread
  PROVE  IInv' /\ Effect
<1> DEFINE last == GetLastWriteHeader(work.cells)
           t == Tail(todo)
<1>1. /\ UNCHANGED flash /\ Goes /\ ram' = [hdr |-> work.hdr, cells |-> work.cells]
      /\ lastHeader' = last.at /\ lastRecord' = GetLastWriteRecord(work.cells, last.at)
      /\ todo' = << >> \o t
  BY DEF Reread, Then
<1>2. t \in Seq(Step) /\ todo' = t /\ Rest(t, request) /\ Valid /\ work.cells = ErasedCells
  BY <1>1, Popped DEF IInv, Rereading
<1>3. Log(work.cells, 1) /\ work.cells \in [1 .. Size -> Cell] /\ 1 < Size /\ 1 <= Size
  BY <1>2, ErasedLog, Sizes DEF IInv, TypeOK
<1>4. last.at = 1
  BY <1>3, LastOfLog
<1>5. GetLastWriteRecord(work.cells, 1) = 2
  BY <1>3, RecordOfLog
<1>6. lastHeader' = 1 /\ lastRecord' = 2
  BY <1>1, <1>4, <1>5
<1>7. Fresh'
  <2>1. work' = work /\ ram'.cells = ErasedCells
    BY <1>1, <1>2 DEF flash
  <2>2. Mirror' /\ Valid'
    BY <1>2, <2>1 DEF Mirror, Valid
  <2>3. Position'
    BY <1>6, Sizes, OddSteps DEF Position
  <2> QED
    BY <1>3, <1>6, <2>1, <2>2, <2>3 DEF Fresh
<1>8. Before(t)
  BY <1>2, ErasedSettled, SettledBefore DEF IInv
<1>9. lastHeader' \in 0 .. Size /\ lastRecord' \in 0 .. Size
  BY <1>6, Sizes
<1> HIDE DEF t
<1> QED
  BY <1>1, <1>2, <1>7, <1>8, <1>9, AfterRefresh

-----------------------------------------------------------------------------
(* Steps that lay out the flash accesses to come                            *)

LEMMA StepBackup ==
  ASSUME OwnBlock, IInv, Single(todo, "backup"), Recorded, Backup
  PROVE  IInv' /\ Effect
<1> DEFINE img == NewBlock(request.lba, request.data)
<1>1. request # None /\ request \in [lba : Lba, data : Data]
  BY DEF Recorded, IInv, TypeOK
<1>2. request.lba # WorkLba /\ request.data \in Data
  BY <1>1 DEF OwnBlock
<1>3. img = DataImage(request.data)
  BY <1>2 DEF NewBlock
<1>4. img \in Image /\ Harmless(img) /\ img.data = request.data
  BY <1>2, <1>3, Images, Headers DEF Harmless
<1>5. spare \in Image /\ Harmless(spare)
  BY DEF IInv, TypeOK, FlashOK, Harmless
<1>6. /\ UNCHANGED <<flash, memory>> /\ Goes /\ request' = request
      /\ todo' = WriteSteps(img) \o << >>
  BY DEF Backup, Then, Goes, Single
<1> HIDE DEF img
<1>7. todo' \in Seq(Step) /\ Backup1(todo', request)
  BY <1>1, <1>4, <1>5, <1>6, WriteList
<1>8. Writing'
  BY <1>6, <1>7, Unmoved DEF Writing, Recorded
<1> QED
  BY <1>6, <1>7, <1>8, Decision DEF Stage

LEMMA StepFlush ==
  ASSUME OwnBlock, IInv, Reclaim6(todo, request, Memory), Calm, spare.cells = ErasedCells, Flush
  PROVE  IInv' /\ Effect
<1>1. Tail(todo) \in Seq(Step) /\ AfterFlush(Tail(todo), request, Memory)
  BY Popped DEF Reclaim6, IInv
<1>2. UNCHANGED <<flash, memory>> /\ Goes /\ request' = request
      /\ todo' = FlushSteps(spare) \o Tail(todo)
  BY DEF Flush, Then, Goes
<1>3. todo' \in Seq(Step) /\ Flush1(todo', request, Memory)
  BY <1>1, <1>2, FlushList DEF IInv, TypeOK
<1>4. Flushing'
  BY <1>2, <1>3, Unmoved DEF Flushing
<1> QED
  BY <1>2, <1>3, <1>4, Decision DEF Stage

(* FtwWriteRecord writes the target block, then marks record and header.    *)
LEMMA DestinationList ==
  ASSUME spare \in Image, NEW s \in Seq(Step), NEW q, Put1(s, q)
  PROVE  LET t == ((<<Do("targetTear"), DoPut("targetPut", spare)>> \o <<Do("destComplete")>>)
                    \o <<Do("complete")>>) \o s
         IN  t \in Seq(Step) /\ Target1(t, q, spare.data)
<1> DEFINE a == Do("targetTear")
           b == DoPut("targetPut", spare)
           c == Do("destComplete")
           d == Do("complete")
           u == <<a, b>>
           v == <<c>>
           w == <<d>>
<1>1. /\ a \in Step /\ b \in Step /\ c \in Step /\ d \in Step
      /\ a.op = "targetTear" /\ b.op = "targetPut" /\ b.img = spare
      /\ c.op = "destComplete" /\ d.op = "complete"
  BY Steps DEF Op
<1> HIDE DEF a, b, c, d
<1>2. u \in Seq(Step) /\ v \in Seq(Step) /\ w \in Seq(Step)
  BY <1>1
<1> HIDE DEF u, v, w
<1>3. ((u \o v) \o w) \o s = u \o (v \o (w \o s))
  BY <1>2, SMTT(60)
<1> DEFINE x == w \o s
           y == v \o x
<1>4. x \in Seq(Step) /\ Target4(x, q)
  <2>1. x \in Seq(Step) /\ Starts(x, d.op) /\ Tail(x) = s
    BY <1>1, OneStep DEF w
  <2> QED
    BY <1>1, <2>1 DEF Target4
<1> HIDE DEF x
<1>5. y \in Seq(Step) /\ Target3(y, q)
  <2>1. y \in Seq(Step) /\ Starts(y, c.op) /\ Tail(y) = x
    BY <1>1, <1>4, OneStep DEF v
  <2> QED
    BY <1>1, <1>4, <2>1 DEF Target3
<1> HIDE DEF y
<1>6. u \o y \in Seq(Step) /\ Target1(u \o y, q, spare.data)
  <2>1. /\ u \o y \in Seq(Step) /\ Starts(u \o y, a.op)
        /\ Starts(Tail(u \o y), b.op) /\ Head(Tail(u \o y)) = b /\ Tail(Tail(u \o y)) = y
    <3>1. LET t == <<a, b>> \o y
          IN  /\ t \in Seq(Step) /\ Starts(t, a.op) /\ Head(t) = a
              /\ Tail(t) \in Seq(Step) /\ Starts(Tail(t), b.op) /\ Head(Tail(t)) = b
              /\ Tail(Tail(t)) = y
      BY <1>1, <1>5, TwoSteps
    <3> QED
      BY <3>1 DEF u
  <2> QED
    BY <1>1, <1>5, <2>1 DEF Target1, Target2
<1>7. ((u \o v) \o w) \o s = u \o y
  BY <1>3 DEF x, y
<1> DEFINE t == ((u \o v) \o w) \o s
<1>8. t \in Seq(Step) /\ Target1(t, q, spare.data)
  BY <1>6, <1>7
<1> QED
  BY <1>8 DEF a, b, c, d, u, v, w

LEMMA StepDestination ==
  ASSUME OwnBlock, IInv, ToDestination(todo, request), Flying, FtwWriteRecord
  PROVE  IInv' /\ Effect
<1>1. Fresh /\ Open(work.cells[lastHeader]) /\ work.cells[lastRecord].lba \in Lba
  BY DEF Flying
<1>2. Mirror /\ Position /\ Writes(LastHeader) = 1
  BY <1>1, FreshCells DEF IInv
<1>3. LastRecord.lba # WorkLba
  BY <1>1, <1>2, KnownCells DEF IInv, OwnBlock
<1>4. IsLastRecordOfWrites(lastHeader, lastRecord)
  BY <1>2 DEF IsLastRecordOfWrites, LastHeader, Position
<1>5. /\ UNCHANGED <<flash, memory>> /\ Goes /\ request' = request
  BY DEF FtwWriteRecord, Goes
<1>6. todo' = ((<<Do("targetTear"), DoPut("targetPut", spare)>> \o <<Do("destComplete")>>)
                    \o <<Do("complete")>>) \o Tail(todo)
  BY <1>3, <1>4, Zenon DEF FtwWriteRecord, Then
<1>7. Tail(todo) \in Seq(Step) /\ Put1(Tail(todo), request)
  BY Popped DEF ToDestination, IInv
<1>8. todo' \in Seq(Step) /\ Target1(todo', request, spare.data)
  BY <1>6, <1>7, DestinationList, Zenon DEF IInv, TypeOK
<1>9. Storing'
  BY <1>5, <1>8, Unmoved DEF Storing, Flying
<1> QED
  BY <1>5, <1>8, <1>9, Decision DEF Stage

(* Recovery from a valid work space in the spare block.                     *)
LEMMA RecoverList ==
  ASSUME NEW s \in Seq(Step), ToAbortFirst(s), NEW m
  PROVE  LET t == ((FlushSpareBlockToWorkingBlock \o AbortSteps) \o <<Do("refresh")>>) \o s
         IN  t \in Seq(Step) /\ Reclaim5(t, None, m)
<1> DEFINE a == Do("spareValid")
           b == Do("flush")
           c == Do("refresh")
           d == Do("abort")
           u == <<a, b>>
           v == <<c, d>>
           w == <<c>>
<1>1. /\ a \in Step /\ b \in Step /\ c \in Step /\ d \in Step
      /\ a.op = "spareValid" /\ b.op = "flush" /\ c.op = "refresh" /\ d.op = "abort"
  BY Steps DEF Op
<1> HIDE DEF a, b, c, d
<1>2. u \in Seq(Step) /\ v \in Seq(Step) /\ w \in Seq(Step)
  BY <1>1
<1> HIDE DEF u, v, w
<1>3. ((u \o v) \o w) \o s = u \o (v \o (w \o s))
  BY <1>2, SMTT(60)
<1> DEFINE x == w \o s
           y == v \o x
<1>4. x \in Seq(Step) /\ Starts(x, "refresh") /\ Tail(x) = s
  <2>1. x \in Seq(Step) /\ Starts(x, c.op) /\ Tail(x) = s
    BY <1>1, OneStep DEF w
  <2> QED
    BY <1>1, <2>1
<1> HIDE DEF x
<1>5. y \in Seq(Step) /\ ToRecover(y, None)
  <2>1. y \in Seq(Step) /\ Starts(y, c.op) /\ Starts(Tail(y), d.op) /\ Tail(Tail(y)) = x
    BY <1>1, <1>4, TwoSteps DEF v
  <2> QED
    BY <1>1, <1>4, <2>1 DEF ToRecover
<1> HIDE DEF y
<1>6. u \o y \in Seq(Step) /\ Reclaim5(u \o y, None, m)
  <2>1. /\ u \o y \in Seq(Step) /\ Starts(u \o y, a.op)
        /\ Starts(Tail(u \o y), b.op) /\ Tail(Tail(u \o y)) = y
    BY <1>1, <1>5, TwoSteps DEF u
  <2> QED
    BY <1>1, <1>5, <2>1 DEF Reclaim5, Reclaim6, AfterFlush
<1>7. ((u \o v) \o w) \o s = u \o y
  BY <1>3 DEF x, y
<1> DEFINE t == ((u \o v) \o w) \o s
<1>8. t \in Seq(Step) /\ Reclaim5(t, None, m)
  BY <1>6, <1>7
<1> QED
  BY <1>8 DEF a, b, c, d, u, v, w, FlushSpareBlockToWorkingBlock, AbortSteps

LEMMA StepValidate ==
  ASSUME OwnBlock, IInv, Validating, Validate
  PROVE  IInv' /\ Effect
<1>1. /\ ToValidate(todo) /\ request = None /\ ram.hdr = work.hdr /\ (Valid => Fresh)
  BY DEF Validating
<1>2. /\ Tail(todo) \in Seq(Step) /\ << >> \o Tail(todo) = Tail(todo) /\ ToAbortFirst(Tail(todo))
  BY <1>1, Popped DEF IInv, ToValidate
<1>3. /\ UNCHANGED flash /\ Goes /\ request' = None /\ lastHeader' = lastHeader
      /\ lastRecord' = lastRecord /\ work' = work /\ spare' = spare
  BY <1>1 DEF Validate, flash, Goes
<1>4. lastHeader' \in 0 .. Size /\ lastRecord' \in 0 .. Size
  BY <1>3 DEF IInv, TypeOK
<1>5. (Valid' <=> Valid) /\ (Calm' <=> Calm)
  BY <1>3, FlashKept DEF IInv
<1>6. CASE IsValidWorkSpace(ram.hdr) /\ Then(<< >>) /\ UNCHANGED ram
  <2>1. todo' = Tail(todo) /\ ram' = ram
    BY <1>2, <1>6 DEF Then
  <2>2. Fresh
    BY <1>1, <1>6 DEF Valid
  <2>3. Fresh'
    BY <1>3, <2>1, <2>2, MemoryKept DEF memory
  <2>4. Recovering'
    BY <1>2, <1>3, <2>1, <2>3 DEF Recovering
  <2>5. ram' \in [hdr : BlockHeader, cells : [1 .. Size -> Cell]]
    BY <2>1 DEF IInv, TypeOK
  <2> QED
    BY <1>2, <1>3, <1>4, <2>1, <2>4, <2>5, MemoryStep DEF Stage
<1>7. CASE /\ ~IsValidWorkSpace(ram.hdr) /\ IsValidWorkSpace(spare.hdr)
           /\ ram' = [hdr |-> spare.hdr, cells |-> spare.cells]
           /\ Then(FlushSpareBlockToWorkingBlock \o AbortSteps \o <<Do("refresh")>>)
  <2>1. todo' = ((FlushSpareBlockToWorkingBlock \o AbortSteps) \o <<Do("refresh")>>) \o Tail(todo)
    BY <1>7 DEF Then
  <2>2. todo' \in Seq(Step) /\ Reclaim5(todo', None, Memory')
    BY <1>2, <2>1, RecoverList
  <2>3. Calm' /\ spare'.cells = ErasedCells
    BY <1>1, <1>3, <1>5, <1>7, InvalidCalm DEF Valid, IInv, FlashOK
  <2>4. Reclaiming'
    BY <1>3, <2>2, <2>3 DEF Reclaiming
  <2>5. ram' \in [hdr : BlockHeader, cells : [1 .. Size -> Cell]]
    BY <1>7 DEF IInv, TypeOK, Image
  <2> QED
    BY <1>3, <1>4, <2>2, <2>4, <2>5, MemoryStep DEF Stage
<1>8. CASE /\ ~IsValidWorkSpace(ram.hdr)
           /\ ram' = [hdr |-> mWorkingBlockHeader, cells |-> ErasedCells]
           /\ Then(<<DoWith("reclaim", 0)>>)
  <2> DEFINE a == DoWith("reclaim", 0)
  <2>1. a \in Step /\ a.op = "reclaim" /\ a.arg = 0
    BY Steps, Sizes DEF Op
  <2>2. todo' = <<a>> \o Tail(todo)
    BY <1>8 DEF Then
  <2> HIDE DEF a
  <2>3. /\ todo' \in Seq(Step) /\ Starts(todo', "reclaim") /\ Head(todo') = a
        /\ Tail(todo') = Tail(todo)
    BY <1>2, <2>1, <2>2, OneStep
  <2>4. AfterReclaim(Tail(todo'), request')
    BY <1>2, <1>3, <2>3 DEF AfterReclaim
  <2>5. Calm'
    BY <1>1, <1>5, <1>8, InvalidCalm DEF Valid
  <2>6. Compacted(Now.arg = 1)' = ErasedCells
    <3>1. (Now.arg = 1)' = FALSE
      BY <2>1, <2>3 DEF Now
    <3> QED
      BY <3>1 DEF Compacted, ErasedCells
  <2>7. Reclaiming'
    BY <2>3, <2>4, <2>5, <2>6 DEF Reclaiming
  <2>8. ram' \in [hdr : BlockHeader, cells : [1 .. Size -> Cell]]
    BY <1>8, Headers, Erased
  <2> QED
    BY <1>3, <1>4, <2>3, <2>7, <2>8, MemoryStep DEF Stage
<1> QED
  BY <1>6, <1>7, <1>8 DEF Validate

(* FtwReclaimWorkSpace: the new work space goes to the spare block, from there
   to the working block, and the spare block is restored.                   *)
LEMMA ReclaimList ==
  ASSUME NEW img \in Image, img.cells = ErasedCells, spare \in Image, Harmless(spare),
         NEW s \in Seq(Step), NEW q, AfterReclaim(s, q)
  PROVE  LET t == ReclaimSteps(img) \o s
         IN  t \in Seq(Step) /\ Reclaim1(t, q, Reclaimed)
<1> DEFINE a == Do("spareValid")
           b == Do("workInvalid")
           c == Do("flush")
           u == SpareSteps(img)
           v == <<a, b>>
           w == <<a, c>>
           z == SpareSteps(spare)
           p == (u \o v) \o w
<1>1. /\ a \in Step /\ b \in Step /\ c \in Step
      /\ a.op = "spareValid" /\ b.op = "workInvalid" /\ c.op = "flush"
  BY Steps DEF Op
<1>2. ReclaimSteps(img) = p \o z
  BY DEF ReclaimSteps, FlushSpareBlockToWorkingBlock
<1> HIDE DEF a, b, c
<1>3. v \in Seq(Step) /\ w \in Seq(Step)
  BY <1>1
<1>4. u \in Seq(Step) /\ z \in Seq(Step)
  BY SpareList
<1> DEFINE x0 == z \o s
<1>5. x0 \in Seq(Step) /\ Restore1(x0, q)
  <2>1. /\ x0 \in Seq(Step) /\ Starts(x0, "spareTear")
        /\ Starts(Tail(x0), "sparePut") /\ Head(Tail(x0)).img = spare /\ Tail(Tail(x0)) = s
    BY SpareList
  <2> QED
    BY <2>1 DEF Restore1, Restore2
<1> HIDE DEF u, v, w, z
<1>6. p \in Seq(Step)
  <2>1. u \o v \in Seq(Step)
    BY <1>3, <1>4, ConcatProperties
  <2> QED
    BY <1>3, <2>1, ConcatProperties
<1>7. (p \o z) \o s = p \o x0
  <2> HIDE DEF p
  <2> QED
    BY <1>4, <1>6, Assoc
<1> HIDE DEF x0
<1>8. p \o x0 = u \o (v \o (w \o x0))
  BY <1>3, <1>4, <1>5, SMTT(60)
<1> DEFINE x == w \o x0
           y == v \o x
<1>9. x \in Seq(Step) /\ Reclaim5(x, q, Reclaimed)
  <2>1. x \in Seq(Step) /\ Starts(x, a.op) /\ Starts(Tail(x), c.op) /\ Tail(Tail(x)) = x0
    BY <1>1, <1>5, TwoSteps DEF w
  <2> QED
    BY <1>1, <1>5, <2>1 DEF Reclaim5, Reclaim6, AfterFlush
<1> HIDE DEF x
<1>10. y \in Seq(Step) /\ Reclaim3(y, q, Reclaimed)
  <2>1. y \in Seq(Step) /\ Starts(y, a.op) /\ Starts(Tail(y), b.op) /\ Tail(Tail(y)) = x
    BY <1>1, <1>9, TwoSteps DEF v
  <2> QED
    BY <1>1, <1>9, <2>1 DEF Reclaim3, Reclaim4
<1> HIDE DEF y
<1>11. u \o y \in Seq(Step) /\ Reclaim1(u \o y, q, Reclaimed)
  <2>1. /\ u \o y \in Seq(Step) /\ Starts(u \o y, "spareTear")
        /\ Starts(Tail(u \o y), "sparePut") /\ Head(Tail(u \o y)).img = img
        /\ Tail(Tail(u \o y)) = y
    BY <1>10, SpareList DEF u
  <2> QED
    BY <1>10, <2>1 DEF Reclaim1, Reclaim2
<1>12. p \o x0 = u \o y
  BY <1>8 DEF x, y
<1>13. ReclaimSteps(img) \o s = u \o y
  BY <1>2, <1>7, <1>12
<1> QED
  BY <1>11, <1>13

LEMMA StepReclaim ==
  ASSUME OwnBlock, IInv, Starts(todo, "reclaim"), AfterReclaim(Tail(todo), request), Calm,
         Compacted(Now.arg = 1) = ErasedCells, FtwReclaimWorkSpace
  PROVE  IInv' /\ Effect
<1> DEFINE hdr == [ram.hdr EXCEPT !.valid = FALSE, !.invalid = FALSE]
           img == WorkImage(hdr, ErasedCells, work.data)
<1>1. /\ ram' = [ram EXCEPT !.cells = ErasedCells]
      /\ lastHeader' = GetLastWriteHeader(ErasedCells).at
      /\ lastRecord' = GetLastWriteRecord(ErasedCells, GetLastWriteHeader(ErasedCells).at)
      /\ todo' = ReclaimSteps(img) \o Tail(todo)
      /\ Goes /\ UNCHANGED flash /\ request' = request
  BY DEF FtwReclaimWorkSpace, Then, Goes
<1>2. Log(ErasedCells, 1) /\ ErasedCells \in [1 .. Size -> Cell] /\ 1 < Size /\ 1 <= Size
  BY ErasedLog, Erased, Sizes
<1>3. GetLastWriteHeader(ErasedCells).at = 1
  BY <1>2, LastOfLog
<1>4. GetLastWriteRecord(ErasedCells, 1) = 2
  BY <1>2, RecordOfLog
<1>5. lastHeader' = 1 /\ lastRecord' = 2
  BY <1>1, <1>3, <1>4
<1>6. ram' \in [hdr : BlockHeader, cells : [1 .. Size -> Cell]] /\ ram'.cells = ErasedCells
  BY <1>1, Erased DEF IInv, TypeOK
<1>7. Memory' = Reclaimed
  BY <1>5, <1>6 DEF Memory, Reclaimed
<1>8. img \in Image /\ img.cells = ErasedCells
  <2>1. hdr \in BlockHeader
    BY DEF IInv, TypeOK, BlockHeader
  <2>2. work.data \in Data \cup {Torn}
    BY DEF IInv, TypeOK
  <2> HIDE DEF hdr
  <2> QED
    BY <2>1, <2>2, Erased, Images
<1>9. spare \in Image /\ Harmless(spare)
  BY DEF IInv, TypeOK, FlashOK, Harmless
<1>10. Tail(todo) \in Seq(Step)
  BY Popped DEF IInv
<1> HIDE DEF img
<1>11. todo' \in Seq(Step) /\ Reclaim1(todo', request, Reclaimed)
  BY <1>1, <1>8, <1>9, <1>10, ReclaimList
<1>12. Calm'
  BY <1>1, FlashKept DEF IInv
<1>13. Reclaiming'
  BY <1>1, <1>7, <1>11, <1>12 DEF Reclaiming
<1>14. lastHeader' \in 0 .. Size /\ lastRecord' \in 0 .. Size
  BY <1>5, Sizes
<1> QED
  BY <1>1, <1>6, <1>11, <1>13, <1>14, MemoryStep DEF Stage

-----------------------------------------------------------------------------
(* The spare block                                                          *)

(* Served, as the blocks tell.                                              *)
Holds(w, t, s, q) ==
  q # None => (IF FlyingIn(w, q.lba) THEN s.data ELSE t[q.lba]) = q.data

LEMMA ServedIs ==
  ASSUME OwnBlock, request \in [lba : Lba, data : Data] \cup {None}, request' = request
  PROVE  /\ Served <=> Holds(work, target, spare, request)
         /\ Served' <=> Holds(work', target', spare', request)
<1>1. request # None => request.lba # WorkLba
  BY DEF OwnBlock
<1>2. Served <=> Holds(work, target, spare, request)
  BY <1>1 DEF Served, Holds, Content, InFlight, FlyingIn
<1>3. Served' <=> Holds(work', target', spare', request)
  BY <1>1 DEF Served, Holds, Content, InFlight, FlyingIn
<1> QED
  BY <1>2, <1>3

(* A step on the spare block while nothing is in flight.                    *)
LEMMA SpareKept ==
  ASSUME OwnBlock, IInv, UNCHANGED <<target, work, memory>>, Goes, Calm
  PROVE  /\ (Fresh' <=> Fresh) /\ (Finished' <=> Finished) /\ (Settled' <=> Settled)
         /\ (Valid' <=> Valid) /\ Calm' /\ Memory' = Memory /\ Same
         /\ (Served => Served') /\ request' = request /\ work' = work
         /\ lastHeader' = lastHeader /\ lastRecord' = lastRecord
<1>1. UNCHANGED <<work, memory>> /\ target' = target /\ work' = work
      /\ lastHeader' = lastHeader /\ lastRecord' = lastRecord
  BY DEF memory
<1>2. /\ (Fresh' <=> Fresh) /\ (Finished' <=> Finished) /\ (Settled' <=> Settled)
      /\ (Valid' <=> Valid) /\ (Calm' <=> Calm) /\ Memory' = Memory
  BY <1>1, MemoryKept
<1>3. Same
  BY <1>1, <1>2, CalmSame
<1>4. request' = request
  BY DEF Goes
<1>5. Served => Served'
  <2>1. request \in [lba : Lba, data : Data] \cup {None}
    BY DEF IInv, TypeOK
  <2>2. request # None => ~FlyingIn(work, request.lba) /\ ~FlyingIn(work', request.lba)
    BY <1>2, <2>1, CalmIs
  <2>3. Holds(work, target, spare, request) => Holds(work', target', spare', request)
    BY <1>1, <2>2 DEF Holds
  <2> QED
    BY <1>4, <2>1, <2>3, ServedIs
<1> QED
  BY <1>1, <1>2, <1>3, <1>4, <1>5

LEMMA SpareStep ==
  ASSUME OwnBlock, IInv, UNCHANGED <<target, work, memory>>, Goes, Calm,
         spare' \in Image, Harmless(spare'), todo' \in Seq(Step), Stage'
  PROVE  IInv' /\ Effect
<1>1. Same /\ (Valid' <=> Valid) /\ work' = work
  BY SpareKept
<1>2. FlashOK'
  BY <1>1, FlashFrom DEF IInv, FlashOK
<1>3. TypeOK'
  BY DEF IInv, TypeOK, memory, Goes
<1> QED
  BY <1>1, <1>2, <1>3 DEF IInv, Effect, Goes

(* Nothing is in flight when the spare block is written.                    *)
LEMMA RecordedCalm ==
  ASSUME TypeOK, Recorded PROVE Calm /\ Valid
<1>1. Fresh /\ ~work.cells[lastRecord].spareComplete
  BY DEF Recorded
<1>2. Mirror /\ Position /\ Valid
  BY <1>1 DEF Fresh
<1>3. LastRecord = work.cells[lastRecord]
  BY <1>2, KnownCells
<1> QED
  BY <1>1, <1>2, <1>3, FreshCalm

LEMMA RestoringCalm ==
  ASSUME TypeOK, Restoring PROVE Calm /\ Valid /\ Fresh
<1>1. Valid /\ work.cells = ErasedCells /\ Memory = Reclaimed /\ work \in WorkType
  BY DEF Restoring, TypeOK, WorkType
<1> QED
  BY <1>1, ErasedFresh, SettledCalm

LEMMA StepSpareTear ==
  ASSUME OwnBlock, IInv, SpareTear,
         \/ Reclaim1(todo, request, Memory) /\ Calm
         \/ Restoring /\ Restore1(todo, request)
         \/ Ending /\ Put1(todo, request)
         \/ Recorded /\ Backup1(todo, request)
  PROVE  IInv' /\ Effect
<1>1. /\ UNCHANGED <<target, work, memory>> /\ Goes /\ spare' = Unreadable("torn")
      /\ todo' = << >> \o Tail(todo)
  BY DEF SpareTear, Then
<1>2. spare' \in Image /\ Harmless(spare')
  BY <1>1, Images, Headers DEF Harmless
<1>3. Calm
  BY RestoringCalm, FinishedSettled, RecordedCalm DEF IInv, Ending
<1>4. Starts(todo, "spareTear")
  BY DEF Reclaim1, Restore1, Put1, Backup1
<1>5. todo' = Tail(todo) /\ todo' \in Seq(Step)
  BY <1>1, <1>4, Popped DEF IInv
<1>6. /\ (Fresh' <=> Fresh) /\ (Finished' <=> Finished) /\ (Settled' <=> Settled)
      /\ (Valid' <=> Valid) /\ Calm' /\ Memory' = Memory
      /\ (Served => Served') /\ request' = request /\ work' = work
      /\ lastHeader' = lastHeader /\ lastRecord' = lastRecord
  BY <1>1, <1>3, SpareKept
<1>7. CASE Reclaim1(todo, request, Memory)
  <2>1. Reclaiming'
    BY <1>5, <1>6, <1>7 DEF Reclaiming, Reclaim1
  <2> QED
    BY <1>1, <1>2, <1>3, <1>5, <2>1, SpareStep DEF Stage
<1>8. CASE Restoring /\ Restore1(todo, request)
  <2>1. Restoring'
    BY <1>5, <1>6, <1>8 DEF Restoring, Restore1
  <2> QED
    BY <1>1, <1>2, <1>3, <1>5, <2>1, SpareStep DEF Stage
<1>9. CASE Ending /\ Put1(todo, request)
  <2>1. Ending'
    BY <1>5, <1>6, <1>9 DEF Ending, Put1
  <2> QED
    BY <1>1, <1>2, <1>3, <1>5, <2>1, SpareStep DEF Stage
<1>10. CASE Recorded /\ Backup1(todo, request)
  <2>1. Writing'
    BY <1>5, <1>6, <1>10 DEF Writing, Backup1, Recorded
  <2> QED
    BY <1>1, <1>2, <1>3, <1>5, <2>1, SpareStep DEF Stage
<1> QED
  BY <1>7, <1>8, <1>9, <1>10

LEMMA StepSparePut ==
  ASSUME OwnBlock, IInv, SparePut,
         \/ Reclaim2(todo, request, Memory) /\ Calm
         \/ Restoring /\ Restore2(todo, request)
         \/ Ending /\ Put2(todo, request)
         \/ Recorded /\ Backup2(todo, request)
  PROVE  IInv' /\ Effect
<1>1. /\ UNCHANGED <<target, work, memory>> /\ Goes /\ spare' = Now.img
      /\ todo' = << >> \o Tail(todo)
  BY DEF SparePut, Then
<1>2. Starts(todo, "sparePut") /\ Harmless(Now.img)
  BY DEF Reclaim2, Restore2, Put2, Backup2, Now, Harmless
<1>3. spare' \in Image /\ Harmless(spare') /\ spare' = Head(todo).img
  BY <1>1, <1>2, Popped DEF IInv, Step, Now
<1>4. Calm
  BY RestoringCalm, FinishedSettled, RecordedCalm DEF IInv, Ending
<1>5. todo' = Tail(todo) /\ todo' \in Seq(Step)
  BY <1>1, <1>2, Popped DEF IInv
<1>6. /\ (Fresh' <=> Fresh) /\ (Finished' <=> Finished) /\ (Settled' <=> Settled)
      /\ (Valid' <=> Valid) /\ Calm' /\ Memory' = Memory
      /\ (Served => Served') /\ request' = request /\ work' = work
      /\ lastHeader' = lastHeader /\ lastRecord' = lastRecord
  BY <1>1, <1>4, SpareKept
<1>7. CASE Reclaim2(todo, request, Memory)
  <2>1. Reclaiming'
    BY <1>3, <1>5, <1>6, <1>7 DEF Reclaiming, Reclaim2
  <2> QED
    BY <1>1, <1>3, <1>4, <1>5, <2>1, SpareStep DEF Stage
<1>8. CASE Restoring /\ Restore2(todo, request)
  <2>1. Fresh /\ Valid /\ work.cells = ErasedCells
    BY <1>8, RestoringCalm DEF IInv, Restoring
  <2>2. AfterReclaim(todo', request')
    BY <1>5, <1>6, <1>8 DEF Restore2
  <2>3. Rereading' \/ Recovering'
    BY <1>6, <2>1, <2>2 DEF AfterReclaim, Rereading, Recovering
  <2> QED
    BY <1>1, <1>3, <1>4, <1>5, <2>3, SpareStep DEF Stage
<1>9. CASE Ending /\ Put2(todo, request)
  <2>1. Finished /\ Served /\ Valid
    BY <1>9 DEF Ending, Finished
  <2>2. Put3(todo', request')
    BY <1>5, <1>6, <1>9 DEF Put2
  <2>3. CASE Single(todo', "success") /\ request' # None
    <3>1. Ending'
      BY <1>6, <2>1, <2>3 DEF Ending
    <3> QED
      BY <1>1, <1>3, <1>4, <1>5, <3>1, SpareStep DEF Stage
  <2>4. CASE Starts(todo', "refresh") /\ Single(Tail(todo'), "abort") /\ request' = None
    <3>1. ToAbort(Tail(todo'))
      BY <2>4 DEF ToAbort, Single, AfterAbort
    <3>2. Refreshing'
      BY <1>6, <2>1, <2>4, <3>1 DEF Refreshing, Rest, Before
    <3> QED
      BY <1>1, <1>3, <1>4, <1>5, <3>2, SpareStep DEF Stage
  <2> QED
    BY <2>2, <2>3, <2>4 DEF Put3
<1>10. CASE Recorded /\ Backup2(todo, request)
  <2>1. Writing'
    BY <1>3, <1>5, <1>6, <1>10 DEF Writing, Backup2, Recorded
  <2> QED
    BY <1>1, <1>3, <1>4, <1>5, <2>1, SpareStep DEF Stage
<1> QED
  BY <1>7, <1>8, <1>9, <1>10

LEMMA StepSpareValid ==
  ASSUME OwnBlock, IInv, SpareValid, Calm, spare.cells = ErasedCells,
         Reclaim3(todo, request, Memory) \/ Reclaim5(todo, request, Memory)
  PROVE  IInv' /\ Effect
<1>1. /\ UNCHANGED <<target, work, memory>> /\ Goes /\ spare' = [spare EXCEPT !.hdr.valid = TRUE]
      /\ todo' = << >> \o Tail(todo)
  BY DEF SpareValid, Then
<1>2. spare' \in Image /\ spare'.cells = ErasedCells
  BY <1>1 DEF IInv, TypeOK, Image, BlockHeader
<1>3. Harmless(spare')
  BY <1>2 DEF Harmless
<1>4. todo' = Tail(todo) /\ todo' \in Seq(Step)
  BY <1>1, Popped DEF IInv, Reclaim3, Reclaim5
<1>5. Calm' /\ Memory' = Memory /\ request' = request
  BY <1>1, SpareKept
<1>6. Reclaiming'
  BY <1>2, <1>4, <1>5 DEF Reclaiming, Reclaim3, Reclaim5
<1> QED
  BY <1>1, <1>2, <1>3, <1>4, <1>6, SpareStep DEF Stage

-----------------------------------------------------------------------------
(* The working block                                                        *)

(* A step on the working block with nothing in flight before and after it.  *)
LEMMA WorkStep ==
  ASSUME OwnBlock, IInv, Goes, target' = target, spare' = spare, Calm, Calm',
         work' \in WorkType, ram' \in [hdr : BlockHeader, cells : [1 .. Size -> Cell]],
         lastHeader' = lastHeader, lastRecord' = lastRecord, todo' \in Seq(Step),
         \/ \E h \in 1 .. Size + 1 : Log(work'.cells, h)
         \/ ~Valid' /\ Scratch(work'.cells),
         Stage'
  PROVE  IInv' /\ Effect
<1>1. Same
  BY CalmSame
<1>2. FlashOK'
  BY <1>1, FlashFrom DEF IInv, FlashOK, Harmless
<1>3. TypeOK'
  BY DEF IInv, TypeOK, WorkType, Goes
<1> QED
  BY <1>1, <1>2, <1>3 DEF IInv, Effect, Goes

LEMMA StepWorkInvalid ==
  ASSUME OwnBlock, IInv, WorkInvalid, Calm,
         \/ Reclaim4(todo, request, Memory) /\ spare.cells = ErasedCells
         \/ Flush1(todo, request, Memory)
  PROVE  IInv' /\ Effect
<1>1. /\ work' = [work EXCEPT !.hdr.invalid = TRUE] /\ ram' = [ram EXCEPT !.hdr.invalid = TRUE]
      /\ target' = target /\ spare' = spare /\ lastHeader' = lastHeader
      /\ lastRecord' = lastRecord /\ Goes /\ request' = request
      /\ todo' = << >> \o Tail(todo)
  BY DEF WorkInvalid, Then, Goes
<1>2. work' \in WorkType /\ work'.cells = work.cells /\ work'.hdr.invalid = TRUE
  BY <1>1 DEF IInv, TypeOK, WorkType, BlockHeader
<1>3. ram' \in [hdr : BlockHeader, cells : [1 .. Size -> Cell]] /\ ram'.cells = ram.cells
  BY <1>1 DEF IInv, TypeOK, BlockHeader
<1>4. ~Valid'
  BY <1>2 DEF Valid, IsValidWorkSpace, mWorkingBlockHeader
<1>5. Calm'
  BY <1>4, InvalidCalm
<1>6. Memory' = Memory
  BY <1>1, <1>3 DEF Memory
<1>7. todo' = Tail(todo) /\ todo' \in Seq(Step)
  BY <1>1, Popped DEF IInv, Reclaim4, Flush1
<1>8. Reclaiming' \/ Flushing'
  BY <1>1, <1>4, <1>5, <1>6, <1>7 DEF Reclaiming, Flushing, Reclaim4, Flush1
<1>9. \/ \E h \in 1 .. Size + 1 : Log(work'.cells, h)
      \/ ~Valid' /\ Scratch(work'.cells)
  BY <1>2, <1>4 DEF IInv, FlashOK
<1> QED
  BY <1>1, <1>2, <1>3, <1>5, <1>7, <1>8, <1>9, WorkStep DEF Stage

(* What an erase that stops after k cells leaves of a log.                  *)
LEMMA PartlyErased ==
  ASSUME NEW cells \in [1 .. Size -> Cell], NEW k \in 0 .. Size,
         Scratch(cells) \/ \E h \in 1 .. Size + 1 : Log(cells, h),
         NEW new, new = [i \in 1 .. Size |-> IF i <= k THEN ErasedCell ELSE cells[i]]
  PROVE  /\ new \in [1 .. Size -> Cell]
         /\ Scratch(new) \/ \E h \in 1 .. Size + 1 : Log(new, h)
<1>1. new \in [1 .. Size -> Cell]
  BY Erased
<1>2. CASE k = 0
  <2>1. new = cells
    BY <1>2
  <2> QED
    BY <1>1, <2>1
<1>3. CASE k # 0
  <2>1. 1 \in 1 .. Size /\ 3 \in 1 .. Size /\ 1 <= k
    BY <1>3, Sizes
  <2>2. new[1] = ErasedCell /\ (new[3] = ErasedCell \/ new[3] = cells[3])
    BY <2>1
  <2>3. ~cells[3].destComplete
    <3>1. CASE Scratch(cells)
      BY <3>1 DEF Scratch
    <3>2. ASSUME NEW h \in 1 .. Size + 1, Log(cells, h) PROVE ~cells[3].destComplete
      <4>1. Odd(3) /\ h \in Nat
        BY Sizes DEF Odd
      <4>2. CASE 3 < h
        BY <2>1, <3>2, <4>1, <4>2 DEF Log, Closed, Header
      <4>3. CASE 3 = h
        BY <2>1, <3>2, <4>3, Erased DEF Log, Open, Header
      <4>4. CASE h < 3
        <5>1. h + 2 <= 3
          BY <3>2, <4>1, <4>4, OddSteps DEF Log
        <5>2. 3 > h + 1
          BY <4>1, <5>1
        <5> QED
          BY <2>1, <3>2, <5>2, Erased DEF Log
      <4> QED
        BY <4>1, <4>2, <4>3, <4>4
    <3> QED
      BY <3>1, <3>2
  <2> QED
    BY <1>1, <2>2, <2>3, Erased DEF Scratch
<1> QED
  BY <1>2, <1>3

(* The second half of an erase or of a write.                               *)
LEMMA SecondHalf ==
  ASSUME NEW s \in Step
  PROVE  LET a == [s EXCEPT !.arg = 1]
         IN  a \in Step /\ a.op = s.op /\ a.img = s.img
<1>1. 1 \in 0 .. Size
  BY Sizes
<1> QED
  BY <1>1 DEF Step

LEMMA StepWorkErase ==
  ASSUME OwnBlock, IInv, WorkErase, Flush2(todo, request, Memory), ~Valid
  PROVE  IInv' /\ Effect
<1>1. PICK k \in 0 .. Size :
        /\ work' = [work EXCEPT !.hdr = ErasedHeader,
                      !.cells = [i \in 1 .. Size |-> IF i <= k THEN ErasedCell ELSE @[i]]]
        /\ todo' = (IF k = Size THEN << >> ELSE <<[Now EXCEPT !.arg = 1]>>) \o Tail(todo)
  <2>1. Size \in 0 .. Size
    BY Sizes
  <2> QED
    BY <2>1 DEF WorkErase, Then
<1>2. /\ target' = target /\ spare' = spare /\ ram' = ram /\ lastHeader' = lastHeader
      /\ lastRecord' = lastRecord /\ Goes /\ request' = request
  BY DEF WorkErase, memory, Goes
<1> DEFINE new == [i \in 1 .. Size |-> IF i <= k THEN ErasedCell ELSE work.cells[i]]
<1>3. work'.cells = new /\ work'.hdr = ErasedHeader /\ work'.data = work.data
      /\ work' = [hdr |-> ErasedHeader, cells |-> new, data |-> work.data]
  BY <1>1 DEF IInv, TypeOK
<1> HIDE DEF new
<1>4. new \in [1 .. Size -> Cell] /\ (Scratch(new) \/ \E h \in 1 .. Size + 1 : Log(new, h))
  BY PartlyErased DEF IInv, TypeOK, FlashOK, new
<1>5. work' \in WorkType /\ ram' \in [hdr : BlockHeader, cells : [1 .. Size -> Cell]]
  BY <1>2, <1>3, <1>4, Headers DEF IInv, TypeOK, WorkType
<1>6. ~Valid'
  BY <1>3, Headers DEF Valid
<1>7. Calm /\ Calm'
  BY <1>6, InvalidCalm
<1>8. Memory' = Memory
  BY <1>2 DEF Memory
<1>9. Now \in Step /\ Tail(todo) \in Seq(Step) /\ << >> \o Tail(todo) = Tail(todo)
      /\ Flush3(Tail(todo), request, Memory) /\ Now.op = "workErase"
  BY Popped DEF IInv, Flush2, Starts, Now
<1>10. todo' \in Seq(Step) /\ Flushing'
  <2>1. CASE k = Size
    <3>1. todo' = Tail(todo)
      BY <1>1, <1>9, <2>1
    <3>2. new = ErasedCells
      BY <2>1, Sizes DEF new, ErasedCells
    <3> QED
      BY <1>2, <1>3, <1>6, <1>8, <1>9, <3>1, <3>2 DEF Flushing
  <2>2. CASE k # Size
    <3> DEFINE a == [Now EXCEPT !.arg = 1]
    <3>1. a \in Step /\ a.op = "workErase"
      BY <1>9, SecondHalf
    <3>2. todo' = <<a>> \o Tail(todo)
      BY <1>1, <2>2
    <3> HIDE DEF a
    <3>3. todo' \in Seq(Step) /\ Starts(todo', "workErase") /\ Tail(todo') = Tail(todo)
      BY <1>9, <3>1, <3>2, OneStep
    <3> QED
      BY <1>2, <1>6, <1>8, <1>9, <3>3 DEF Flushing, Flush2
  <2> QED
    BY <2>1, <2>2
<1> QED
  BY <1>2, <1>3, <1>4, <1>5, <1>6, <1>7, <1>10, WorkStep DEF Stage

LEMMA StepWorkPut ==
  ASSUME OwnBlock, IInv, WorkPut, Flush3(todo, request, Memory), ~Valid, work.cells = ErasedCells
  PROVE  IInv' /\ Effect
<1> DEFINE hdr == [ErasedHeader EXCEPT !.signed = TRUE]
<1>1. PICK k \in 0 .. Size :
        /\ work' = [work EXCEPT !.hdr = hdr,
                      !.cells = [i \in 1 .. Size |-> IF i <= k THEN Now.img.cells[i] ELSE @[i]]]
        /\ todo' = (IF k = Size THEN << >> ELSE <<[Now EXCEPT !.arg = 1]>>) \o Tail(todo)
  <2>1. Size \in 0 .. Size
    BY Sizes
  <2> QED
    BY <2>1 DEF WorkPut, Then
<1>2. /\ target' = target /\ spare' = spare /\ ram' = ram /\ lastHeader' = lastHeader
      /\ lastRecord' = lastRecord /\ Goes /\ request' = request
  BY DEF WorkPut, memory, Goes
<1>3. /\ Now.img.cells = ErasedCells /\ Now.op = "workPut" /\ Now = Head(todo)
      /\ Flush4(Tail(todo), request, Memory)
  BY DEF Flush3, Now, Starts
<1>4. Now \in Step /\ Tail(todo) \in Seq(Step) /\ << >> \o Tail(todo) = Tail(todo)
  BY Popped DEF IInv, Flush3
<1> DEFINE new == [i \in 1 .. Size |-> IF i <= k THEN Now.img.cells[i] ELSE work.cells[i]]
<1>5. work' = [hdr |-> hdr, cells |-> new, data |-> work.data]
  BY <1>1 DEF IInv, TypeOK
<1>6. new = ErasedCells
  BY <1>3 DEF ErasedCells
<1>7. hdr \in BlockHeader /\ ~IsValidWorkSpace(hdr)
  BY DEF BlockHeader, ErasedHeader, IsValidWorkSpace, mWorkingBlockHeader
<1> HIDE DEF new, hdr
<1>8. work' \in WorkType /\ work'.cells = ErasedCells /\ work'.hdr = hdr
      /\ ram' \in [hdr : BlockHeader, cells : [1 .. Size -> Cell]]
  BY <1>2, <1>5, <1>6, <1>7, Erased DEF IInv, TypeOK, WorkType
<1>9. ~Valid'
  BY <1>7, <1>8 DEF Valid
<1>10. Calm /\ Calm'
  BY <1>9, InvalidCalm
<1>11. Memory' = Memory
  BY <1>2 DEF Memory
<1>12. todo' \in Seq(Step) /\ Flushing'
  <2>1. CASE k = Size
    <3>1. todo' = Tail(todo)
      BY <1>1, <1>4, <2>1
    <3> QED
      BY <1>2, <1>3, <1>4, <1>8, <1>11, <3>1 DEF Flushing, hdr
  <2>2. CASE k # Size
    <3> DEFINE a == [Now EXCEPT !.arg = 1]
    <3>1. a \in Step /\ a.op = "workPut" /\ a.img = Now.img
      BY <1>3, <1>4, SecondHalf
    <3>2. todo' = <<a>> \o Tail(todo)
      BY <1>1, <2>2
    <3> HIDE DEF a
    <3>3. /\ todo' \in Seq(Step) /\ Starts(todo', "workPut") /\ Head(todo') = a
          /\ Tail(todo') = Tail(todo)
      BY <1>4, <3>1, <3>2, OneStep
    <3> QED
      BY <1>2, <1>3, <1>8, <1>9, <1>11, <3>1, <3>3 DEF Flushing, Flush3
  <2> QED
    BY <2>1, <2>2
<1>13. \E h \in 1 .. Size + 1 : Log(work'.cells, h)
  BY <1>8, ErasedLog, Sizes
<1> QED
  BY <1>2, <1>8, <1>10, <1>12, <1>13, WorkStep DEF Stage

LEMMA StepWorkValid ==
  ASSUME OwnBlock, IInv, WorkValid, Flush4(todo, request, Memory), work.cells = ErasedCells,
         work.hdr = [ErasedHeader EXCEPT !.signed = TRUE]
  PROVE  IInv' /\ Effect
<1>1. /\ work' = [work EXCEPT !.hdr.valid = TRUE]
      /\ ram' = [ram EXCEPT !.hdr.valid = TRUE, !.hdr.invalid = FALSE]
      /\ target' = target /\ spare' = spare /\ lastHeader' = lastHeader
      /\ lastRecord' = lastRecord /\ Goes /\ request' = request
      /\ todo' = << >> \o Tail(todo)
  BY DEF WorkValid, Then, Goes
<1>2. todo' = Tail(todo) /\ todo' \in Seq(Step) /\ AfterFlush(todo', request, Memory)
  BY <1>1, Popped DEF IInv, Flush4
<1>3. work' \in WorkType /\ work'.cells = ErasedCells /\ Valid'
  <2>1. work' \in WorkType /\ work'.cells = ErasedCells
    BY <1>1 DEF IInv, TypeOK, WorkType, BlockHeader
  <2>2. work'.hdr = [signed |-> TRUE, valid |-> TRUE, invalid |-> FALSE]
    BY <1>1 DEF IInv, TypeOK, ErasedHeader
  <2> QED
    BY <2>1, <2>2 DEF Valid, IsValidWorkSpace, mWorkingBlockHeader
<1>4. ram' \in [hdr : BlockHeader, cells : [1 .. Size -> Cell]] /\ ram'.cells = ram.cells
  BY <1>1 DEF IInv, TypeOK, BlockHeader
<1>5. Memory' = Memory
  BY <1>1, <1>4 DEF Memory
<1>6. Calm
  <2>1. ~Valid
    BY DEF Valid, IsValidWorkSpace, mWorkingBlockHeader, ErasedHeader
  <2> QED
    BY <2>1, InvalidCalm
<1>7. Calm'
  <2>1. Log(work'.cells, 1) /\ IsValidWorkSpace(work'.hdr) /\ 1 \in 1 .. Size
    BY <1>3, ErasedLog, Sizes DEF Valid
  <2>2. ~Open(work'.cells[1])
    BY <1>3, <2>1, Erased DEF Open, Header
  <2>3. \A l \in Lba : ~FlyingIn(work', l)
    BY <1>3, <2>1, <2>2, FlyingLog
  <2> QED
    BY <2>3, CalmIs
<1>8. CASE Restore1(todo', request) /\ Memory = Reclaimed
  <2>1. Restoring'
    BY <1>1, <1>3, <1>5, <1>8 DEF Restoring
  <2>2. \E h \in 1 .. Size + 1 : Log(work'.cells, h)
    BY <1>3, ErasedLog, Sizes
  <2> QED
    BY <1>1, <1>2, <1>3, <1>4, <1>6, <1>7, <2>1, <2>2, WorkStep DEF Stage
<1>9. CASE ToRecover(todo', request)
  <2>1. Starts(todo', "refresh") /\ ToAbort(Tail(todo')) /\ request' = None
    BY <1>1, <1>9 DEF ToRecover, ToAbort, AfterAbort
  <2>2. Refreshing'
    BY <1>3, <1>7, <2>1 DEF Refreshing, Rest, Before
  <2>3. \E h \in 1 .. Size + 1 : Log(work'.cells, h)
    BY <1>3, ErasedLog, Sizes
  <2> QED
    BY <1>1, <1>2, <1>3, <1>4, <1>6, <1>7, <2>2, <2>3, WorkStep DEF Stage
<1> QED
  BY <1>2, <1>8, <1>9 DEF AfterFlush

-----------------------------------------------------------------------------
(* Headers and records                                                      *)

(* A record is programmed, or one of its bits.                              *)
LEMMA RecordCell ==
  ASSUME TypeOK, Fresh, Open(work.cells[lastHeader]), NEW c \in Cell, IsRecord(c),
         work' = [work EXCEPT !.cells[lastRecord] = c],
         ram' = [ram EXCEPT !.cells[lastRecord] = c],
         lastHeader' = lastHeader, lastRecord' = lastRecord
  PROVE  /\ Fresh' /\ work' \in WorkType
         /\ ram' \in [hdr : BlockHeader, cells : [1 .. Size -> Cell]]
         /\ work'.cells[lastRecord] = c /\ work'.cells[lastHeader] = work.cells[lastHeader]
         /\ \E h \in 1 .. Size + 1 : Log(work'.cells, h)
         /\ \A l : FlyingIn(work', l) <=> c.lba = l /\ c.spareComplete /\ ~c.destComplete
<1>1. Mirror /\ Position /\ Valid /\ Log(work.cells, lastHeader)
  BY FreshCells
<1>2. /\ lastHeader \in Nat /\ lastHeader \in 1 .. Size /\ lastHeader < Size
      /\ lastRecord \in 1 .. Size /\ lastRecord = lastHeader + 1 /\ Size \in Nat
      /\ work \in WorkType /\ work.cells \in [1 .. Size -> Cell] /\ ram.cells \in [1 .. Size -> Cell]
  BY <1>1, KnownCells
<1>3. /\ work' \in WorkType /\ work'.hdr = work.hdr
      /\ work'.cells = [work.cells EXCEPT ![lastRecord] = c]
  BY <1>2 DEF WorkType
<1>4. /\ ram' \in [hdr : BlockHeader, cells : [1 .. Size -> Cell]]
      /\ ram'.cells = [ram.cells EXCEPT ![lastRecord] = c]
  BY <1>2 DEF TypeOK
<1>5. /\ work'.cells[lastRecord] = c
      /\ \A i \in 1 .. Size : i # lastRecord => work'.cells[i] = work.cells[i]
  BY <1>2, <1>3
<1>6. /\ ram'.cells[lastRecord] = c
      /\ \A i \in 1 .. Size : i # lastRecord => ram'.cells[i] = ram.cells[i]
  BY <1>2, <1>4
<1>7. work'.cells[lastHeader] = work.cells[lastHeader] /\ Valid'
  BY <1>1, <1>2, <1>3, <1>5 DEF Valid
<1>8. Mirror'
  <2> SUFFICES ASSUME NEW i \in 1 .. Size
               PROVE  \/ ram'.cells[i] = work'.cells[i]
                      \/ /\ i = lastHeader
                         /\ ram'.cells[i] = [work'.cells[i] EXCEPT !.writesAllocated = FALSE]
    BY DEF Mirror
  <2>1. CASE i = lastRecord
    BY <1>5, <1>6, <2>1
  <2>2. CASE i # lastRecord
    BY <1>1, <1>5, <1>6, <2>2 DEF Mirror
  <2> QED
    BY <2>1, <2>2
<1>9. Log(work'.cells, lastHeader)
  <2>1. lastHeader \in 1 .. Size + 1 /\ Odd(lastHeader)
    BY <1>1 DEF Log
  <2>2. ASSUME NEW i \in 1 .. Size
        PROVE  /\ Odd(i) /\ i < lastHeader => Closed(work'.cells[i])
               /\ i > lastHeader + 1 => work'.cells[i] = ErasedCell
    BY <1>1, <1>2, <1>5 DEF Log
  <2>3. Open(work'.cells[lastHeader]) /\ lastHeader < Size /\ IsRecord(work'.cells[lastHeader + 1])
    BY <1>2, <1>5, <1>7
  <2> QED
    BY <2>1, <2>2, <2>3 DEF Log
<1>10. Position'
  BY <1>1 DEF Position
<1>11. Fresh'
  BY <1>7, <1>8, <1>9, <1>10 DEF Fresh
<1>12. \A l : FlyingIn(work', l) <=> c.lba = l /\ c.spareComplete /\ ~c.destComplete
  <2> SUFFICES ASSUME NEW l
               PROVE  FlyingIn(work', l) <=> c.lba = l /\ c.spareComplete /\ ~c.destComplete
    OBVIOUS
  <2>1. IsValidWorkSpace(work'.hdr)
    BY <1>7 DEF Valid
  <2>2. FlyingIn(work', l) <=>
          /\ lastHeader < Size /\ Open(work'.cells[lastHeader])
          /\ work'.cells[lastHeader + 1].lba = l
          /\ work'.cells[lastHeader + 1].spareComplete
          /\ ~work'.cells[lastHeader + 1].destComplete
    BY <1>3, <1>9, <2>1, FlyingLog
  <2> QED
    BY <1>2, <1>5, <1>7, <2>2
<1>13. lastHeader \in 1 .. Size + 1
  BY <1>2
<1> QED
  BY <1>3, <1>4, <1>5, <1>7, <1>9, <1>11, <1>12, <1>13

(* The last header is programmed, or one of its bits.                       *)
LEMMA HeaderCell ==
  ASSUME TypeOK, Fresh, work.cells[lastRecord] = ErasedCell, NEW c \in Cell, Open(c),
         NEW d, d = c \/ d = [c EXCEPT !.writesAllocated = FALSE],
         work' = [work EXCEPT !.cells[lastHeader] = c],
         ram'.cells = [ram.cells EXCEPT ![lastHeader] = d],
         lastHeader' = lastHeader, lastRecord' = lastRecord
  PROVE  /\ Fresh' /\ Settled' /\ Calm' /\ work' \in WorkType
         /\ work'.cells[lastHeader] = c
         /\ \E h \in 1 .. Size + 1 : Log(work'.cells, h)
<1>1. Mirror /\ Position /\ Valid /\ Log(work.cells, lastHeader)
  BY FreshCells
<1>2. /\ lastHeader \in Nat /\ lastHeader \in 1 .. Size /\ lastHeader < Size
      /\ lastRecord \in 1 .. Size /\ lastRecord = lastHeader + 1 /\ Size \in Nat
      /\ work \in WorkType /\ work.cells \in [1 .. Size -> Cell] /\ ram.cells \in [1 .. Size -> Cell]
  BY <1>1, KnownCells
<1>3. /\ work' \in WorkType /\ work'.hdr = work.hdr
      /\ work'.cells = [work.cells EXCEPT ![lastHeader] = c]
  BY <1>2 DEF WorkType
<1>4. /\ work'.cells[lastHeader] = c
      /\ \A i \in 1 .. Size : i # lastHeader => work'.cells[i] = work.cells[i]
  BY <1>2, <1>3
<1>5. /\ ram'.cells[lastHeader] = d
      /\ \A i \in 1 .. Size : i # lastHeader => ram'.cells[i] = ram.cells[i]
  BY <1>2
<1>6. work'.cells[lastHeader + 1] = ErasedCell /\ Valid'
  BY <1>1, <1>2, <1>3, <1>4 DEF Valid
<1>7. Mirror'
  <2> SUFFICES ASSUME NEW i \in 1 .. Size
               PROVE  \/ ram'.cells[i] = work'.cells[i]
                      \/ /\ i = lastHeader
                         /\ ram'.cells[i] = [work'.cells[i] EXCEPT !.writesAllocated = FALSE]
    BY DEF Mirror
  <2>1. CASE i = lastHeader
    BY <1>4, <1>5, <2>1
  <2>2. CASE i # lastHeader
    BY <1>1, <1>4, <1>5, <2>2 DEF Mirror
  <2> QED
    BY <2>1, <2>2
<1>8. Log(work'.cells, lastHeader) /\ lastHeader \in 1 .. Size + 1
  <2>1. lastHeader \in 1 .. Size + 1 /\ Odd(lastHeader)
    BY <1>1 DEF Log
  <2>2. ASSUME NEW i \in 1 .. Size
        PROVE  /\ Odd(i) /\ i < lastHeader => Closed(work'.cells[i])
               /\ i > lastHeader + 1 => work'.cells[i] = ErasedCell
    BY <1>1, <1>2, <1>4 DEF Log
  <2>3. Open(work'.cells[lastHeader]) /\ lastHeader < Size /\ IsRecord(work'.cells[lastHeader + 1])
    BY <1>2, <1>4, <1>6 DEF IsRecord
  <2> QED
    BY <2>1, <2>2, <2>3 DEF Log
<1>9. Position'
  BY <1>1 DEF Position
<1>10. Fresh'
  BY <1>6, <1>7, <1>8, <1>9 DEF Fresh
<1>11. Settled'
  BY <1>6, <1>8 DEF Settled
<1>12. Calm'
  <2>1. \A l \in Lba : ~FlyingIn(work', l)
    <3> SUFFICES ASSUME NEW l PROVE ~FlyingIn(work', l)
      OBVIOUS
    <3>1. IsValidWorkSpace(work'.hdr)
      BY <1>6 DEF Valid
    <3>2. FlyingIn(work', l) => work'.cells[lastHeader + 1].spareComplete
      BY <1>3, <1>8, <3>1, FlyingLog
    <3> QED
      BY <1>6, <3>2, Erased
  <2> QED
    BY <2>1, CalmIs
<1> QED
  BY <1>3, <1>4, <1>8, <1>10, <1>11, <1>12

LEMMA StepWriteHeader ==
  ASSUME OwnBlock, IInv, WriteHeader, Now.at = lastHeader, Now.arg = 1,
         Starts(todo, "header"), Starts(Tail(todo), "writesAllocated"),
         Head(Tail(todo)).at = lastHeader, AfterAllocate(Tail(Tail(todo)), request),
         Fresh, work.cells[lastHeader] = ErasedCell
  PROVE  IInv' /\ Effect
<1> DEFINE c == [LastHeader EXCEPT !.use = "header", !.allocated = TRUE,
                   !.writesAllocated = FALSE, !.complete = FALSE, !.n = 1]
<1>1. /\ work' = [work EXCEPT !.cells[lastHeader] = c] /\ ram' = [ram EXCEPT !.cells[lastHeader] = c]
      /\ target' = target /\ spare' = spare /\ lastHeader' = lastHeader
      /\ lastRecord' = lastRecord /\ Goes /\ request' = request
      /\ todo' = << >> \o Tail(todo)
  BY DEF WriteHeader, WorkCell, RamCell, Then, Goes
<1>2. todo' = Tail(todo) /\ todo' \in Seq(Step)
  BY <1>1, Popped DEF IInv
<1>3. ~Open(work.cells[lastHeader])
  BY Erased DEF Open, Header
<1>4. work.cells[lastRecord] = ErasedCell /\ Mirror /\ Position
  BY <1>3, FreshCells DEF IInv
<1>5. /\ LastHeader \in Cell /\ ~LastHeader.spareComplete /\ ~LastHeader.destComplete
      /\ ram.cells \in [1 .. Size -> Cell] /\ lastHeader \in 1 .. Size /\ work \in WorkType
  BY <1>4, KnownCells, Erased DEF IInv
<1>6. c \in Cell
  <2>1. 1 \in 0 .. Size
    BY Sizes
  <2> QED
    BY <1>5, <2>1 DEF Cell
<1>7. Open(c)
  BY <1>5 DEF Cell, Open, Header
<1> HIDE DEF c
<1>8. ram' \in [hdr : BlockHeader, cells : [1 .. Size -> Cell]]
      /\ ram'.cells = [ram.cells EXCEPT ![lastHeader] = c]
  BY <1>1, <1>5, <1>6 DEF IInv, TypeOK
<1>9. /\ Fresh' /\ Settled' /\ Calm' /\ work' \in WorkType
      /\ work'.cells[lastHeader] = c /\ \E h \in 1 .. Size + 1 : Log(work'.cells, h)
  BY <1>1, <1>4, <1>6, <1>7, <1>8, HeaderCell DEF IInv
<1>10. Calm
  BY <1>4, <1>5, FreshSettled, SettledCalm DEF IInv
<1>11. Allocating'
  BY <1>1, <1>2, <1>7, <1>9 DEF Allocating, Now
<1> QED
  BY <1>1, <1>2, <1>8, <1>9, <1>10, <1>11, WorkStep DEF Stage

LEMMA StepWritesAllocated ==
  ASSUME OwnBlock, IInv, WritesAllocated, Now.at = lastHeader,
         Starts(todo, "writesAllocated"), AfterAllocate(Tail(todo), request),
         Fresh, Settled, Open(work.cells[lastHeader])
  PROVE  IInv' /\ Effect
<1> DEFINE w == work.cells[lastHeader]
           c == [w EXCEPT !.writesAllocated = TRUE]
           d == ram.cells[lastHeader]
<1>1. /\ work' = [work EXCEPT !.cells[lastHeader].writesAllocated = TRUE] /\ ram' = ram
      /\ target' = target /\ spare' = spare /\ lastHeader' = lastHeader
      /\ lastRecord' = lastRecord /\ Goes /\ request' = request
      /\ todo' = << >> \o Tail(todo)
  BY DEF WritesAllocated, Then, Goes, memory
<1>2. todo' = Tail(todo) /\ todo' \in Seq(Step)
  BY <1>1, Popped DEF IInv
<1>3. work.cells[lastRecord] = ErasedCell /\ Mirror /\ Position
  BY FreshSettled DEF IInv, Fresh
<1>4. /\ ram.cells \in [1 .. Size -> Cell] /\ lastHeader \in 1 .. Size /\ work \in WorkType
      /\ w \in Cell
  BY <1>3, KnownCells DEF IInv
<1>5. work' = [work EXCEPT !.cells[lastHeader] = c]
  BY <1>1, <1>4 DEF WorkType
<1>6. d = w \/ d = [w EXCEPT !.writesAllocated = FALSE]
  BY <1>3, <1>4 DEF Mirror
<1>7. Open(w)
  OBVIOUS
<1> HIDE DEF w, d
<1>8. c \in Cell /\ Open(c)
  BY <1>4, <1>7 DEF Cell, Open, Header
<1>9. d = c \/ d = [c EXCEPT !.writesAllocated = FALSE]
  <2>1. CASE w.writesAllocated = TRUE
    <3>1. c = w
      BY <1>4, <2>1 DEF Cell
    <3> QED
      BY <1>6, <3>1
  <2>2. CASE w.writesAllocated = FALSE
    <3>1. [c EXCEPT !.writesAllocated = FALSE] = w
      BY <1>4, <2>2 DEF Cell
    <3>2. [w EXCEPT !.writesAllocated = FALSE] = w
      BY <1>4, <2>2 DEF Cell
    <3> QED
      BY <1>6, <3>1, <3>2
  <2> QED
    BY <1>4, <2>1, <2>2 DEF Cell
<1>10. ram'.cells = [ram.cells EXCEPT ![lastHeader] = d]
  BY <1>1, <1>4 DEF d
<1> HIDE DEF c
<1>11. /\ Fresh' /\ Settled' /\ Calm' /\ work' \in WorkType
       /\ work'.cells[lastHeader] = c /\ \E h \in 1 .. Size + 1 : Log(work'.cells, h)
  BY <1>1, <1>3, <1>5, <1>8, <1>9, <1>10, HeaderCell DEF IInv
<1>12. Calm
  BY <1>4, SettledCalm
<1>13. ram' \in [hdr : BlockHeader, cells : [1 .. Size -> Cell]]
  BY <1>1 DEF IInv, TypeOK
<1>14. Idle' \/ Writing'
  BY <1>1, <1>2, <1>8, <1>11 DEF AfterAllocate, Idle, Writing, Allocated
<1> QED
  BY <1>1, <1>2, <1>11, <1>12, <1>13, <1>14, WorkStep DEF Stage

LEMMA StepWriteRecord ==
  ASSUME OwnBlock, IInv, WriteRecord, Starts(todo, "record"), Single(Tail(todo), "backup"),
         Allocated
  PROVE  IInv' /\ Effect
<1> DEFINE c == [LastRecord EXCEPT !.use = "record", !.lba = request.lba]
<1>1. Fresh /\ Settled /\ Open(work.cells[lastHeader]) /\ request # None
  BY DEF Allocated
<1>2. /\ LastRecord = ErasedCell /\ LastRecord = work.cells[lastRecord] /\ Calm
  BY <1>1, SettledRecord DEF IInv
<1>3. work.cells[lastRecord].use = "erased"
  BY <1>2, Erased
<1>4. /\ work' = [work EXCEPT !.cells[lastRecord] = c] /\ ram' = [ram EXCEPT !.cells[lastRecord] = c]
  BY <1>3 DEF WriteRecord, WorkCell, RamCell
<1>5. /\ target' = target /\ spare' = spare /\ lastHeader' = lastHeader
      /\ lastRecord' = lastRecord /\ Goes /\ request' = request
      /\ todo' = << >> \o Tail(todo)
  BY DEF WriteRecord, Then, Goes
<1>6. todo' = Tail(todo) /\ todo' \in Seq(Step)
  BY <1>5, Popped DEF IInv
<1>7. request.lba \in Lba
  BY <1>1 DEF IInv, TypeOK
<1>8. /\ c \in Cell /\ c.use = "record" /\ c.lba = request.lba
      /\ ~c.spareComplete /\ ~c.destComplete
  BY <1>2, <1>7, Erased DEF Cell
<1>9. IsRecord(c)
  BY <1>7, <1>8 DEF IsRecord
<1> HIDE DEF c
<1>10. /\ Fresh' /\ work' \in WorkType
       /\ ram' \in [hdr : BlockHeader, cells : [1 .. Size -> Cell]]
       /\ work'.cells[lastRecord] = c /\ work'.cells[lastHeader] = work.cells[lastHeader]
       /\ \E h \in 1 .. Size + 1 : Log(work'.cells, h)
       /\ \A l : FlyingIn(work', l) <=> c.lba = l /\ c.spareComplete /\ ~c.destComplete
  BY <1>1, <1>4, <1>5, <1>8, <1>9, RecordCell DEF IInv
<1>11. Calm'
  BY <1>8, <1>10, CalmIs
<1>12. Writing'
  BY <1>1, <1>5, <1>6, <1>8, <1>10 DEF Writing, Recorded
<1> QED
  BY <1>2, <1>5, <1>6, <1>10, <1>11, <1>12, WorkStep DEF Stage

-----------------------------------------------------------------------------
(* The write in flight                                                      *)

LEMMA FlightNow ==
  ASSUME TypeOK, Fresh, Open(work.cells[lastHeader])
  PROVE  \A l : FlyingIn(work, l) <=> /\ work.cells[lastRecord].lba = l
                                      /\ work.cells[lastRecord].spareComplete
                                      /\ ~work.cells[lastRecord].destComplete
<1> SUFFICES ASSUME NEW l
             PROVE  FlyingIn(work, l) <=> /\ work.cells[lastRecord].lba = l
                                          /\ work.cells[lastRecord].spareComplete
                                          /\ ~work.cells[lastRecord].destComplete
  OBVIOUS
<1>1. Mirror /\ Position /\ Log(work.cells, lastHeader) /\ IsValidWorkSpace(work.hdr)
  BY DEF Fresh, Valid
<1>2. work \in WorkType /\ lastRecord = lastHeader + 1 /\ lastHeader < Size
  BY <1>1, KnownCells
<1>3. FlyingIn(work, l) <=>
        /\ lastHeader < Size /\ Open(work.cells[lastHeader])
        /\ work.cells[lastHeader + 1].lba = l
        /\ work.cells[lastHeader + 1].spareComplete
        /\ ~work.cells[lastHeader + 1].destComplete
  BY <1>1, <1>2, FlyingLog
<1> QED
  BY <1>2, <1>3

(* A step in which readers find no block changed.                           *)
LEMMA HiddenStep ==
  ASSUME OwnBlock, IInv, Same, Goes, TypeOK', Harmless(spare'),
         \E h \in 1 .. Size + 1 : Log(work'.cells, h), Stage'
  PROVE  IInv' /\ Effect
<1>1. FlashOK'
  BY FlashFrom DEF IInv
<1> QED
  BY <1>1 DEF IInv, Effect, Goes

(* SPARE_COMPLETED is what commits a write.                                 *)
LEMMA StepSpareComplete ==
  ASSUME OwnBlock, IInv, SpareComplete, Recorded, Backup3(todo, request),
         spare.data = request.data
  PROVE  IInv' /\ Effect
<1> DEFINE r == work.cells[lastRecord]
           c == [r EXCEPT !.spareComplete = TRUE]
<1>1. /\ Fresh /\ Open(work.cells[lastHeader]) /\ request # None
      /\ r.use = "record" /\ r.lba = request.lba /\ ~r.spareComplete /\ ~r.destComplete
  BY DEF Recorded
<1>2. request \in [lba : Lba, data : Data] /\ request.lba \in Lba /\ request.data \in Data
  BY <1>1 DEF IInv, TypeOK
<1>3. Mirror /\ Position
  BY <1>1 DEF Fresh
<1>4. /\ LastRecord = r /\ r \in Cell /\ lastRecord \in 1 .. Size /\ work \in WorkType
      /\ ram.cells \in [1 .. Size -> Cell]
  BY <1>3, KnownCells DEF IInv
<1>5. /\ work' = [work EXCEPT !.cells[lastRecord].spareComplete = TRUE]
      /\ ram' = [ram EXCEPT !.cells[lastRecord].spareComplete = TRUE]
      /\ target' = target /\ spare' = spare /\ lastHeader' = lastHeader
      /\ lastRecord' = lastRecord /\ Goes /\ request' = request /\ status' = status
      /\ todo' = << >> \o Tail(todo)
  BY DEF SpareComplete, Then, Goes
<1>6. /\ work' = [work EXCEPT !.cells[lastRecord] = c]
      /\ ram' = [ram EXCEPT !.cells[lastRecord] = c]
  BY <1>4, <1>5 DEF WorkType, LastRecord
<1> HIDE DEF r
<1>7. /\ c \in Cell /\ c.use = "record" /\ c.lba = request.lba /\ c.spareComplete
      /\ ~c.destComplete
  BY <1>1, <1>4 DEF Cell
<1>8. IsRecord(c)
  BY <1>2, <1>7 DEF IsRecord
<1> HIDE DEF c
<1>9. /\ Fresh' /\ work' \in WorkType
      /\ ram' \in [hdr : BlockHeader, cells : [1 .. Size -> Cell]]
      /\ work'.cells[lastRecord] = c /\ work'.cells[lastHeader] = work.cells[lastHeader]
      /\ \E h \in 1 .. Size + 1 : Log(work'.cells, h)
      /\ \A l : FlyingIn(work', l) <=> c.lba = l /\ c.spareComplete /\ ~c.destComplete
  BY <1>1, <1>5, <1>6, <1>7, <1>8, RecordCell DEF IInv
<1>10. todo' = Tail(todo) /\ todo' \in Seq(Step) /\ ToDestination(todo', request)
  BY <1>5, Popped DEF IInv, Backup3
<1>11. TypeOK'
  BY <1>5, <1>9, <1>10 DEF IInv, TypeOK, WorkType, Goes
<1>12. Calm
  BY RecordedCalm DEF IInv
<1>13. \A l \in Lba : Content(l)' = IF l = request.lba THEN request.data ELSE Content(l)
  <2> SUFFICES ASSUME NEW l \in Lba
               PROVE  Content(l)' = IF l = request.lba THEN request.data ELSE Content(l)
    OBVIOUS
  <2>1. Content(l)' = IF FlyingIn(work', l) THEN spare'.data ELSE target'[l]
    BY ContentIs
  <2>2. Content(l) = target[l]
    BY <1>12, ContentIs, CalmIs
  <2>3. FlyingIn(work', l) <=> l = request.lba
    BY <1>7, <1>9
  <2> QED
    BY <1>5, <2>1, <2>2, <2>3
<1>14. FlashOK'
  <2>1. \A l \in Lba : Content(l)' \in Data
    BY <1>2, <1>13 DEF IInv, FlashOK
  <2>2. IsValidWorkSpace(spare'.hdr) => spare'.cells = ErasedCells
    BY <1>5 DEF IInv, FlashOK
  <2> QED
    BY <1>9, <2>1, <2>2 DEF FlashOK
<1>15. Served'
  <2>1. Holds(work', target', spare', request)
    BY <1>5, <1>7, <1>9 DEF Holds
  <2> QED
    BY <1>2, <1>5, <2>1, ServedIs
<1>16. Flying'
  BY <1>1, <1>2, <1>5, <1>7, <1>9, <1>15 DEF Flying
<1>17. Storing'
  BY <1>5, <1>10, <1>16 DEF Storing
<1> QED
  BY <1>1, <1>5, <1>11, <1>13, <1>14, <1>17 DEF IInv, Stage, Effect

(* While the target block is written, readers find the spare block.         *)
LEMMA TargetStep ==
  ASSUME OwnBlock, IInv, Flying, UNCHANGED <<work, spare, memory>>, Goes,
         NEW d \in Data \cup {Torn}, target' = [target EXCEPT ![LastRecord.lba] = d]
  PROVE  /\ Same /\ Flying' /\ Harmless(spare') /\ \E h \in 1 .. Size + 1 : Log(work'.cells, h)
         /\ target' \in [Lba \ {WorkLba} -> Data \cup {Torn}]
         /\ target'[work'.cells[lastRecord'].lba] = d
<1> DEFINE r == work.cells[lastRecord]
<1>1. /\ Fresh /\ Open(work.cells[lastHeader]) /\ Served /\ r.lba \in Lba
      /\ r.spareComplete /\ ~r.destComplete
  BY DEF Flying
<1>2. Mirror /\ Position /\ Valid /\ Log(work.cells, lastHeader)
  BY <1>1 DEF Fresh
<1>3. LastRecord = r /\ lastHeader \in 1 .. Size + 1
  BY <1>2, KnownCells DEF IInv, Log
<1>4. \A l : FlyingIn(work, l) <=> r.lba = l
  BY <1>1, FlightNow DEF IInv
<1>5. work' = work /\ spare' = spare /\ lastRecord' = lastRecord /\ lastHeader' = lastHeader
      /\ request' = request
  BY DEF memory, Goes
<1>6. r.lba \in Lba \ {WorkLba} /\ target \in [Lba \ {WorkLba} -> Data \cup {Torn}]
  BY <1>1 DEF OwnBlock, IInv, TypeOK
<1> HIDE DEF r
<1>7. target' \in [Lba \ {WorkLba} -> Data \cup {Torn}] /\ target'[r.lba] = d
      /\ \A l \in Lba : l # r.lba => target'[l] = target[l]
  BY <1>3, <1>6 DEF OwnBlock
<1>8. Same
  <2> SUFFICES ASSUME NEW l \in Lba PROVE Content(l)' = Content(l)
    BY DEF Same
  <2>1. /\ Content(l)' = IF FlyingIn(work, l) THEN spare.data ELSE target'[l]
        /\ Content(l) = IF FlyingIn(work, l) THEN spare.data ELSE target[l]
    BY <1>5, ContentIs
  <2> QED
    BY <1>4, <1>7, <2>1
<1>9. Served'
  <2>1. request \in [lba : Lba, data : Data] \cup {None}
    BY DEF IInv, TypeOK
  <2>2. Holds(work, target, spare, request)
    BY <1>1, <1>5, <2>1, ServedIs
  <2>3. Holds(work', target', spare', request)
    BY <1>4, <1>5, <1>7, <2>1, <2>2 DEF Holds
  <2> QED
    BY <1>5, <2>1, <2>3, ServedIs
<1>10. Fresh'
  BY <1>1, MemoryKept
<1>11. Flying'
  BY <1>5, <1>9, <1>10 DEF Flying
<1> QED
  BY <1>2, <1>3, <1>5, <1>7, <1>8, <1>11 DEF IInv, FlashOK, Harmless, r

LEMMA StepTargetTear ==
  ASSUME OwnBlock, IInv, TargetTear, Flying, Target1(todo, request, spare.data)
  PROVE  IInv' /\ Effect
<1>1. /\ UNCHANGED <<work, spare, memory>> /\ Goes /\ target' = [target EXCEPT ![LastRecord.lba] = Torn]
      /\ todo' = << >> \o Tail(todo) /\ request' = request /\ spare' = spare
  BY DEF TargetTear, Then, Goes
<1>2. Torn \in Data \cup {Torn}
  OBVIOUS
<1>3. /\ Same /\ Flying' /\ Harmless(spare') /\ \E h \in 1 .. Size + 1 : Log(work'.cells, h)
      /\ target' \in [Lba \ {WorkLba} -> Data \cup {Torn}]
  BY <1>1, <1>2, TargetStep
<1>4. todo' = Tail(todo) /\ todo' \in Seq(Step) /\ Target2(todo', request', spare'.data)
  BY <1>1, Popped DEF IInv, Target1
<1>5. Storing'
  BY <1>3, <1>4 DEF Storing
<1>6. TypeOK'
  BY <1>1, <1>3, <1>4 DEF IInv, TypeOK, memory, Goes
<1> QED
  BY <1>1, <1>3, <1>5, <1>6, HiddenStep DEF Stage

LEMMA StepTargetPut ==
  ASSUME OwnBlock, IInv, TargetPut, Flying, Target2(todo, request, spare.data)
  PROVE  IInv' /\ Effect
<1>1. Now.img.data = spare.data /\ spare.data \in Data \cup {Torn}
  BY DEF Target2, Now, IInv, TypeOK, Image
<1>2. /\ UNCHANGED <<work, spare, memory>> /\ Goes
      /\ target' = [target EXCEPT ![LastRecord.lba] = spare.data]
      /\ todo' = << >> \o Tail(todo) /\ request' = request /\ spare' = spare
  BY <1>1 DEF TargetPut, Then, Goes
<1>3. /\ Same /\ Flying' /\ Harmless(spare') /\ \E h \in 1 .. Size + 1 : Log(work'.cells, h)
      /\ target' \in [Lba \ {WorkLba} -> Data \cup {Torn}]
      /\ target'[work'.cells[lastRecord'].lba] = spare.data
  BY <1>1, <1>2, TargetStep
<1>4. todo' = Tail(todo) /\ todo' \in Seq(Step) /\ Target3(todo', request')
  BY <1>2, Popped DEF IInv, Target2
<1>5. Storing'
  BY <1>2, <1>3, <1>4 DEF Storing
<1>6. TypeOK'
  BY <1>2, <1>3, <1>4 DEF IInv, TypeOK, memory, Goes
<1> QED
  BY <1>2, <1>3, <1>5, <1>6, HiddenStep DEF Stage

(* DEST_COMPLETED makes readers look at the target block, which holds the
   data by then.                                                            *)
LEMMA StepDestComplete ==
  ASSUME OwnBlock, IInv, DestComplete, Flying, Target3(todo, request),
         target[work.cells[lastRecord].lba] = spare.data
  PROVE  IInv' /\ Effect
<1> DEFINE r == work.cells[lastRecord]
           c == [r EXCEPT !.destComplete = TRUE]
<1>1. /\ Fresh /\ Open(work.cells[lastHeader]) /\ Served
      /\ r.use = "record" /\ r.lba \in Lba /\ r.spareComplete /\ ~r.destComplete
      /\ target[r.lba] = spare.data
  BY DEF Flying
<1>2. Mirror /\ Position
  BY <1>1 DEF Fresh
<1>3. /\ LastRecord = r /\ r \in Cell /\ lastRecord \in 1 .. Size /\ work \in WorkType
      /\ ram.cells \in [1 .. Size -> Cell]
  BY <1>2, KnownCells DEF IInv
<1>4. \A l : FlyingIn(work, l) <=> r.lba = l
  BY <1>1, FlightNow DEF IInv
<1>5. /\ work' = [work EXCEPT !.cells[lastRecord].destComplete = TRUE]
      /\ ram' = [ram EXCEPT !.cells[lastRecord].destComplete = TRUE]
      /\ target' = target /\ spare' = spare /\ lastHeader' = lastHeader
      /\ lastRecord' = lastRecord /\ Goes /\ request' = request
      /\ todo' = << >> \o Tail(todo)
  BY DEF DestComplete, Then, Goes
<1>6. /\ work' = [work EXCEPT !.cells[lastRecord] = c]
      /\ ram' = [ram EXCEPT !.cells[lastRecord] = c]
  BY <1>3, <1>5 DEF WorkType, LastRecord
<1> HIDE DEF r
<1>7. c \in Cell /\ c.use = "record" /\ c.lba \in Lba /\ c.destComplete
  BY <1>1, <1>3 DEF Cell
<1>8. IsRecord(c)
  BY <1>7 DEF IsRecord
<1> HIDE DEF c
<1>9. /\ Fresh' /\ work' \in WorkType
      /\ ram' \in [hdr : BlockHeader, cells : [1 .. Size -> Cell]]
      /\ work'.cells[lastHeader] = work.cells[lastHeader]
      /\ \E h \in 1 .. Size + 1 : Log(work'.cells, h)
      /\ \A l : FlyingIn(work', l) <=> c.lba = l /\ c.spareComplete /\ ~c.destComplete
  BY <1>1, <1>5, <1>6, <1>7, <1>8, RecordCell DEF IInv
<1>10. \A l : ~FlyingIn(work', l)
  BY <1>7, <1>9
<1>11. Calm'
  BY <1>10, CalmIs
<1>12. Same
  <2> SUFFICES ASSUME NEW l \in Lba PROVE Content(l)' = Content(l)
    BY DEF Same
  <2>1. /\ Content(l)' = target[l]
        /\ Content(l) = IF r.lba = l THEN spare.data ELSE target[l]
    BY <1>4, <1>5, <1>10, ContentIs
  <2> QED
    BY <1>1, <2>1
<1>13. Served'
  <2>1. request \in [lba : Lba, data : Data] \cup {None}
    BY DEF IInv, TypeOK
  <2>2. Holds(work, target, spare, request)
    BY <1>1, <1>5, <2>1, ServedIs
  <2>3. Holds(work', target', spare', request)
    BY <1>1, <1>4, <1>5, <1>10, <2>2 DEF Holds
  <2> QED
    BY <1>5, <2>1, <2>3, ServedIs
<1>14. /\ todo' = Tail(todo) /\ todo' \in Seq(Step) /\ Starts(todo', "complete")
       /\ Put1(Tail(todo'), request')
  BY <1>5, Popped DEF IInv, Target3, Target4
<1>15. Completing'
  BY <1>1, <1>5, <1>9, <1>11, <1>13, <1>14 DEF Completing
<1>16. TypeOK'
  BY <1>5, <1>9, <1>14 DEF IInv, TypeOK, WorkType, Goes
<1>17. Harmless(spare')
  BY <1>5 DEF IInv, FlashOK, Harmless
<1> QED
  BY <1>5, <1>9, <1>12, <1>15, <1>16, <1>17, HiddenStep DEF Stage

(* WRITES_COMPLETED closes the header.                                      *)
LEMMA ClosingCell ==
  ASSUME TypeOK, Fresh, Open(work.cells[lastHeader]),
         work' = [work EXCEPT !.cells[lastHeader].complete = TRUE],
         ram' = [ram EXCEPT !.cells[lastHeader].complete = TRUE],
         lastHeader' = lastHeader, lastRecord' = lastRecord
  PROVE  /\ Finished' /\ Settled' /\ Calm' /\ Valid' /\ work' \in WorkType
         /\ ram' \in [hdr : BlockHeader, cells : [1 .. Size -> Cell]]
         /\ \E h \in 1 .. Size + 1 : Log(work'.cells, h)
<1> DEFINE w == work.cells[lastHeader]
           c == [w EXCEPT !.complete = TRUE]
           d == ram.cells[lastHeader]
           e == [d EXCEPT !.complete = TRUE]
           h == lastHeader + 2
<1>1. /\ Mirror /\ Position /\ Valid /\ Log(work.cells, lastHeader)
      /\ \A i \in 1 .. Size : i > lastHeader + 1 => work.cells[i] = ErasedCell
  BY FreshCells
<1>2. /\ lastHeader \in Nat /\ lastHeader \in 1 .. Size /\ lastHeader < Size
      /\ lastRecord = lastHeader + 1 /\ Size \in Nat
      /\ work \in WorkType /\ work.cells \in [1 .. Size -> Cell] /\ ram.cells \in [1 .. Size -> Cell]
  BY <1>1, KnownCells
<1>3. w \in Cell /\ d \in Cell /\ Open(w)
  BY <1>2
<1>4. d = w \/ d = [w EXCEPT !.writesAllocated = FALSE]
  BY <1>1, <1>2 DEF Mirror
<1>5. work'.hdr = work.hdr /\ work'.cells = [work.cells EXCEPT ![lastHeader] = c]
      /\ work' = [work EXCEPT !.cells[lastHeader] = c]
  BY <1>2 DEF WorkType
<1>6. ram'.cells = [ram.cells EXCEPT ![lastHeader] = e]
      /\ ram' = [hdr |-> ram.hdr, cells |-> ram'.cells] /\ ram.hdr \in BlockHeader
  BY <1>2 DEF TypeOK
<1> HIDE DEF w, d
<1>7. c \in Cell /\ Closed(c) /\ e \in Cell
  BY <1>3 DEF Cell, Closed, Open, Header
<1>8. e = c \/ e = [c EXCEPT !.writesAllocated = FALSE]
  BY <1>3, <1>4 DEF Cell
<1> HIDE DEF c, e
<1>9. work' \in WorkType /\ ram' \in [hdr : BlockHeader, cells : [1 .. Size -> Cell]]
  <2>1. work' \in WorkType
    BY <1>2, <1>5, <1>7 DEF WorkType
  <2>2. ram' \in [hdr : BlockHeader, cells : [1 .. Size -> Cell]]
    <3>1. ram'.cells \in [1 .. Size -> Cell]
      BY <1>2, <1>6, <1>7
    <3> QED
      BY <1>6, <3>1
  <2> QED
    BY <2>1, <2>2
<1>10. /\ work'.cells[lastHeader] = c
       /\ \A i \in 1 .. Size : i # lastHeader => work'.cells[i] = work.cells[i]
  BY <1>2, <1>5
<1>11. /\ ram'.cells[lastHeader] = e
       /\ \A i \in 1 .. Size : i # lastHeader => ram'.cells[i] = ram.cells[i]
  BY <1>2, <1>6
<1>12. Mirror'
  <2> SUFFICES ASSUME NEW i \in 1 .. Size
               PROVE  \/ ram'.cells[i] = work'.cells[i]
                      \/ /\ i = lastHeader
                         /\ ram'.cells[i] = [work'.cells[i] EXCEPT !.writesAllocated = FALSE]
    BY DEF Mirror
  <2>1. CASE i = lastHeader
    BY <1>8, <1>10, <1>11, <2>1
  <2>2. CASE i # lastHeader
    BY <1>1, <1>10, <1>11, <2>2 DEF Mirror
  <2> QED
    BY <2>1, <2>2
<1>13. Valid' /\ Position'
  BY <1>1, <1>5 DEF Valid, Position
<1>14. \A i \in 1 .. Size : i > lastHeader + 1 => work'.cells[i] = ErasedCell
  BY <1>1, <1>2, <1>10
<1>15. h \in 1 .. Size + 1 /\ Odd(h) /\ h \in Nat
  BY <1>1, <1>2, OddSteps DEF Log
<1>16. Log(work'.cells, h) /\ (h < Size => work'.cells[h + 1] = ErasedCell)
       /\ (h <= Size => work'.cells[h] = ErasedCell)
  <2>1. ASSUME NEW i \in 1 .. Size, Odd(i), i < h PROVE Closed(work'.cells[i])
    <3>1. CASE i < lastHeader
      BY <1>1, <1>2, <1>10, <2>1, <3>1 DEF Log
    <3>2. CASE i = lastHeader
      BY <1>7, <1>10, <3>2
    <3>3. ~(i > lastHeader)
      BY <1>1, <1>2, <2>1, OddSteps DEF Log
    <3> QED
      BY <1>2, <3>1, <3>2, <3>3
  <2>2. \A i \in 1 .. Size : i > h + 1 => work'.cells[i] = ErasedCell
    BY <1>2, <1>14
  <2>3. (h < Size => work'.cells[h + 1] = ErasedCell) /\ (h <= Size => work'.cells[h] = ErasedCell)
    BY <1>2, <1>14
  <2> QED
    BY <1>15, <2>1, <2>2, <2>3 DEF Log
<1> HIDE DEF h
<1>17. Settled'
  BY <1>13, <1>15, <1>16 DEF Settled
<1>18. Calm'
  <2>1. \A l \in Lba : ~FlyingIn(work', l)
    <3> SUFFICES ASSUME NEW l PROVE ~FlyingIn(work', l)
      OBVIOUS
    <3>1. IsValidWorkSpace(work'.hdr)
      BY <1>13 DEF Valid
    <3>2. FlyingIn(work', l) => h < Size /\ work'.cells[h + 1].spareComplete
      BY <1>9, <1>16, <3>1, FlyingLog
    <3> QED
      BY <1>16, <3>2, Erased
  <2> QED
    BY <2>1, CalmIs
<1>19. Finished'
  BY <1>7, <1>10, <1>12, <1>13, <1>14, <1>16 DEF Finished, h
<1> QED
  BY <1>9, <1>13, <1>15, <1>16, <1>17, <1>18, <1>19

LEMMA StepComplete ==
  ASSUME OwnBlock, IInv, Complete, Completing
  PROVE  IInv' /\ Effect
<1>1. /\ Starts(todo, "complete") /\ Fresh /\ Calm /\ Open(work.cells[lastHeader])
      /\ \/ AfterAbort(Tail(todo)) /\ request = None
         \/ Put1(Tail(todo), request) /\ Served
  BY DEF Completing
<1>2. /\ work' = [work EXCEPT !.cells[lastHeader].complete = TRUE]
      /\ ram' = [ram EXCEPT !.cells[lastHeader].complete = TRUE]
      /\ target' = target /\ spare' = spare /\ lastHeader' = lastHeader
      /\ lastRecord' = lastRecord /\ Goes /\ request' = request
      /\ todo' = << >> \o Tail(todo)
  BY DEF Complete, Then, Goes
<1>3. todo' = Tail(todo) /\ todo' \in Seq(Step)
  BY <1>1, <1>2, Popped DEF IInv
<1>4. /\ Finished' /\ Settled' /\ Calm' /\ Valid' /\ work' \in WorkType
      /\ ram' \in [hdr : BlockHeader, cells : [1 .. Size -> Cell]]
      /\ \E h \in 1 .. Size + 1 : Log(work'.cells, h)
  BY <1>1, <1>2, ClosingCell DEF IInv
<1>5. Served => Served'
  <2>1. request \in [lba : Lba, data : Data] \cup {None}
    BY DEF IInv, TypeOK
  <2>2. request # None => ~FlyingIn(work, request.lba) /\ ~FlyingIn(work', request.lba)
    BY <1>1, <1>4, <2>1, CalmIs
  <2>3. Holds(work, target, spare, request) => Holds(work', target', spare', request)
    BY <1>2, <2>2 DEF Holds
  <2> QED
    BY <1>2, <2>1, <2>3, ServedIs
<1>6. Idle' \/ Recovering' \/ Refreshing' \/ Ending'
  <2>1. CASE AfterAbort(todo') /\ request' = None
    BY <1>4, <2>1 DEF AfterAbort, Idle, Recovering, Refreshing, Rest, Before
  <2>2. CASE Put1(todo', request') /\ Served'
    BY <1>4, <2>2 DEF Ending
  <2> QED
    BY <1>1, <1>2, <1>3, <1>5, <2>1, <2>2
<1> QED
  BY <1>1, <1>2, <1>3, <1>4, <1>6, WorkStep DEF Stage

LEMMA StepSuccess ==
  ASSUME OwnBlock, IInv, Success, Ending, request # None
  PROVE  IInv' /\ Effect
<1>1. Finished /\ Served
  BY DEF Ending
<1>2. /\ UNCHANGED <<flash, memory>> /\ todo' = << >> /\ request' = None
      /\ status' = "success" /\ calls' = calls
  BY DEF Success
<1>3. FlashOK' /\ Same /\ (Settled' <=> Settled)
  BY <1>2, FlashKept DEF IInv
<1>4. Finished'
  BY <1>1, <1>2, MemoryKept DEF flash
<1>5. Settled
  BY <1>1, FinishedSettled DEF IInv
<1>6. Idle'
  BY <1>2, <1>3, <1>4, <1>5 DEF Idle
<1>7. TypeOK'
  BY <1>2 DEF IInv, TypeOK, flash, memory
<1>8. Content(request.lba) = request.data
  BY <1>1 DEF Served
<1> QED
  BY <1>2, <1>3, <1>6, <1>7, <1>8 DEF IInv, Stage, Effect

-----------------------------------------------------------------------------
(* Calls and power failures                                                 *)

(* Between two calls the driver rests.                                      *)
LEMMA RestsIdle ==
  ASSUME IInv, todo = << >> PROVE Idle
<1>1. \A op : ~Starts(todo, op)
  BY DEF Starts
<1>2. ~Refreshing /\ ~Rereading /\ ~Allocating /\ ~Completing
  BY <1>1 DEF Refreshing, Rereading, Allocating, Completing
<1>3. ~Reclaiming /\ ~Flushing
  BY <1>1 DEF Reclaiming, Flushing, Reclaim1, Reclaim2, Reclaim3, Reclaim4, Reclaim5, Reclaim6,
              Flush1, Flush2, Flush3, Flush4
<1>4. ~Restoring /\ ~Validating /\ ~Recovering
  BY <1>1 DEF Restoring, Restore1, Restore2, Validating, ToValidate, Recovering, ToAbortFirst,
              ToAbortLast, ToTrailing, ToRestartLast, Single
<1>5. ~Calling /\ ~Writing
  BY <1>1 DEF Calling, Ready, ToAllocate, ToAbort, ToRestart, Single, Writing, Backup1, Backup2,
              Backup3
<1>6. ~Storing /\ ~Ending
  BY <1>1 DEF Storing, ToDestination, Target1, Target2, Target3, Ending, Put1, Put2, Single
<1> QED
  BY <1>2, <1>3, <1>4, <1>5, <1>6 DEF IInv, Stage

(* A list of two steps.                                                     *)
LEMMA Pair ==
  ASSUME NEW a \in Step, NEW b \in Step, todo' = <<a, b>>
  PROVE  /\ todo' \in Seq(Step) /\ Starts(todo', a.op) /\ Head(Tail(todo')) = b
         /\ Single(Tail(todo'), b.op) /\ Starts(Tail(todo'), b.op) /\ Tail(Tail(todo')) = << >>
<1> DEFINE u == <<a, b>>
<1>1. /\ u \in Seq(Step) /\ u # << >> /\ Head(u) = a
      /\ Tail(u) # << >> /\ Head(Tail(u)) = b /\ Tail(Tail(u)) = << >>
  OBVIOUS
<1>2. todo' = u
  OBVIOUS
<1> HIDE DEF u
<1> QED
  BY <1>1, <1>2 DEF Starts, Single

(* What a call finds.                                                       *)
LEMMA CallFinds ==
  ASSUME OwnBlock, IInv, todo = << >>, UNCHANGED <<flash, memory>>
  PROVE  /\ request = None /\ Settled' /\ Valid' /\ Calm' /\ FlashOK' /\ Same
<1>1. Idle
  BY RestsIdle
<1>2. request = None /\ Settled /\ Valid
  BY <1>1 DEF Idle, Settled
<1>3. Calm
  BY <1>2, SettledCalm DEF IInv, TypeOK, WorkType
<1> QED
  BY <1>2, <1>3, FlashKept DEF IInv

LEMMA StepAllocateCall ==
  ASSUME OwnBlock, SingleWrites, IInv, NEW n \in NumberOfWrites, Allocate(n)
  PROVE  IInv' /\ Effect
<1> DEFINE a == Do("refresh")
           b == DoWith("allocate", n)
<1>1. /\ todo = << >> /\ calls < MaxCalls /\ todo' = <<a, b>> /\ calls' = calls + 1
      /\ UNCHANGED <<flash, memory>> /\ request' = request /\ status' = status
  BY DEF Allocate
<1>2. n \in 1 .. Size /\ n \notin 2 .. Size - 1 /\ Size \in Nat
  BY FtwAssumption DEF SingleWrites
<1>3. n \in 0 .. Size /\ (n = 1 \/ TotalSize(n) > Size)
  BY <1>2 DEF TotalSize
<1>4. a \in Step /\ b \in Step /\ a.op = "refresh" /\ b.op = "allocate" /\ b.arg = n
  BY <1>3, Steps DEF Op
<1> HIDE DEF a, b
<1>5. /\ todo' \in Seq(Step) /\ Starts(todo', a.op) /\ Head(Tail(todo')) = b
      /\ Starts(Tail(todo'), b.op) /\ Tail(Tail(todo')) = << >>
  BY <1>1, <1>4, Pair
<1>6. request = None /\ Settled' /\ FlashOK' /\ Same
  BY <1>1, CallFinds
<1>7. ToAllocate(Tail(todo'), request')
  BY <1>1, <1>3, <1>4, <1>5, <1>6 DEF ToAllocate, AfterAllocate
<1>8. Refreshing'
  BY <1>4, <1>5, <1>6, <1>7 DEF Refreshing, Rest, Before, Ready
<1>9. calls' \in 0 .. MaxCalls
  BY <1>1, Sizes DEF IInv, TypeOK
<1>10. TypeOK'
  BY <1>1, <1>5, <1>9 DEF IInv, TypeOK, flash, memory
<1> QED
  BY <1>1, <1>6, <1>8, <1>10 DEF IInv, Stage, Effect

LEMMA StepWriteCall ==
  ASSUME OwnBlock, IInv, NEW l \in Lba, NEW d \in Data, Write(l, d)
  PROVE  IInv' /\ Effect
<1> DEFINE a == Do("refresh")
           b == Do("write")
<1>1. /\ todo = << >> /\ calls < MaxCalls /\ todo' = <<a, b>> /\ calls' = calls + 1
      /\ UNCHANGED <<flash, memory>> /\ request' = [lba |-> l, data |-> d] /\ status' = status
  BY DEF Write
<1>2. request' \in [lba : Lba, data : Data]
  BY <1>1
<1>3. request' # None
  BY <1>2, Sizes
<1>4. a \in Step /\ b \in Step /\ a.op = "refresh" /\ b.op = "write"
  BY Steps DEF Op
<1> HIDE DEF a, b
<1>5. todo' \in Seq(Step) /\ Starts(todo', a.op) /\ Single(Tail(todo'), b.op)
  BY <1>1, <1>4, Pair
<1>6. request = None /\ Settled' /\ FlashOK' /\ Same
  BY <1>1, CallFinds
<1>7. Refreshing'
  BY <1>3, <1>4, <1>5, <1>6 DEF Refreshing, Rest, Before, Ready
<1>8. calls' \in 0 .. MaxCalls
  BY <1>1, Sizes DEF IInv, TypeOK
<1>9. TypeOK'
  BY <1>1, <1>2, <1>5, <1>8 DEF IInv, TypeOK, flash, memory
<1> QED
  BY <1>1, <1>2, <1>6, <1>7, <1>9 DEF IInv, Stage, Effect

LEMMA StepCall ==
  ASSUME OwnBlock, IInv, NEW op \in {"restart", "abort", "lastWrite"}, Call(op)
  PROVE  IInv' /\ Effect
<1> DEFINE a == Do("refresh")
           b == Do(op)
<1>1. /\ todo = << >> /\ todo' = <<a, b>> /\ Goes /\ UNCHANGED <<flash, memory>>
      /\ request' = request
  BY DEF Call, Goes
<1>2. a \in Step /\ b \in Step /\ a.op = "refresh" /\ b.op = op
  BY Steps DEF Op
<1> HIDE DEF a, b
<1>3. todo' \in Seq(Step) /\ Starts(todo', a.op) /\ Single(Tail(todo'), b.op)
  BY <1>1, <1>2, Pair
<1>4. request = None /\ Settled' /\ Valid' /\ Calm'
  BY <1>1, CallFinds
<1>5. Refreshing'
  <2>1. CASE op = "abort"
    <3>1. ToAbort(Tail(todo'))
      BY <1>2, <1>3, <2>1 DEF ToAbort, AfterAbort, Single
    <3> QED
      BY <1>1, <1>2, <1>3, <1>4, <3>1 DEF Refreshing, Rest, Before
  <2>2. CASE op # "abort"
    <3>1. Ready(Tail(todo'), request')
      BY <1>1, <1>2, <1>3, <1>4, <2>2 DEF Ready
    <3> QED
      BY <1>2, <1>3, <1>4, <3>1 DEF Refreshing, Rest, Before
  <2> QED
    BY <2>1, <2>2
<1> QED
  BY <1>1, <1>3, <1>5, Decision DEF Stage

(* The list InitFtwProtocol starts with.                                    *)
LEMMA BootList ==
  Boot \in Seq(Step) /\ Starts(Boot, "refresh") /\ ToValidate(Tail(Boot))
<1> DEFINE a == Do("refresh")
           b == Do("validate")
           c == Do("abortFirst")
           d == Do("abortLast")
           e == Do("trailing")
           f == Do("restartLast")
           u == <<a, b, c, d, e, f>>
<1>1. /\ a \in Step /\ b \in Step /\ c \in Step /\ d \in Step /\ e \in Step /\ f \in Step
      /\ a.op = "refresh" /\ b.op = "validate" /\ c.op = "abortFirst" /\ d.op = "abortLast"
      /\ e.op = "trailing" /\ f.op = "restartLast"
  BY Steps DEF Op
<1> HIDE DEF a, b, c, d, e, f
<1>2. /\ u \in Seq(Step) /\ u # << >> /\ Head(u) = a
      /\ Tail(u) # << >> /\ Head(Tail(u)) = b
      /\ Tail(Tail(u)) # << >> /\ Head(Tail(Tail(u))) = c
      /\ Tail(Tail(Tail(u))) # << >> /\ Head(Tail(Tail(Tail(u)))) = d
      /\ Tail(Tail(Tail(Tail(u)))) # << >> /\ Head(Tail(Tail(Tail(Tail(u))))) = e
      /\ Tail(Tail(Tail(Tail(Tail(u))))) # << >> /\ Head(Tail(Tail(Tail(Tail(Tail(u)))))) = f
      /\ Tail(Tail(Tail(Tail(Tail(Tail(u)))))) = << >>
  BY <1>1
<1>3. Boot = u
  BY DEF Boot, a, b, c, d, e, f
<1> HIDE DEF u
<1> QED
  BY <1>1, <1>2, <1>3 DEF Starts, Single, ToValidate, ToAbortFirst, ToAbortLast, ToTrailing,
                          ToRestartLast

LEMMA StepCrash ==
  ASSUME OwnBlock, IInv, Crash
  PROVE  IInv' /\ Effect
<1>1. /\ ram' = [hdr |-> ErasedHeader, cells |-> ErasedCells]
      /\ lastHeader' = 0 /\ lastRecord' = 0 /\ todo' = Boot
      /\ request' = None /\ status' = "error" /\ UNCHANGED flash /\ calls' = calls
  BY DEF Crash
<1>2. FlashOK' /\ Same
  BY <1>1, FlashKept DEF IInv
<1>3. todo' \in Seq(Step) /\ Starts(todo', "refresh") /\ ToValidate(Tail(todo'))
  BY <1>1, BootList
<1>4. Refreshing'
  BY <1>1, <1>3 DEF Refreshing, Rest, Before
<1>5. 0 \in 0 .. Size /\ ram' \in [hdr : BlockHeader, cells : [1 .. Size -> Cell]]
  BY <1>1, Sizes, Erased, Headers
<1>6. TypeOK'
  BY <1>1, <1>3, <1>5 DEF IInv, TypeOK, flash
<1> QED
  BY <1>1, <1>2, <1>4, <1>6 DEF IInv, Stage, Effect

LEMMA StepStutter ==
  ASSUME OwnBlock, IInv, UNCHANGED vars
  PROVE  IInv' /\ Effect
<1>1. /\ UNCHANGED <<flash, memory>> /\ Goes /\ todo' = todo /\ request' = request
  BY DEF vars, flash, memory, Goes
<1>2. /\ (Fresh' <=> Fresh) /\ (Finished' <=> Finished) /\ (Settled' <=> Settled)
      /\ (Valid' <=> Valid) /\ (Calm' <=> Calm) /\ (Served => Served')
      /\ (FirstNotStarted' <=> FirstNotStarted) /\ (LastWritten' <=> LastWritten)
      /\ Memory' = Memory /\ work' = work /\ spare' = spare /\ target' = target /\ ram' = ram
      /\ lastHeader' = lastHeader /\ lastRecord' = lastRecord
  BY <1>1, Unmoved
<1>3. Now' = Now /\ Compacted(Now.arg = 1)' = Compacted(Now.arg = 1)
  BY <1>1, <1>2 DEF Now, Compacted
<1>4. Idle => Idle'
  BY <1>1, <1>2 DEF Idle
<1>5. (Refreshing => Refreshing') /\ (Rereading => Rereading')
  BY <1>1, <1>2 DEF Refreshing, Rereading, Before
<1>6. Reclaiming => Reclaiming'
  BY <1>1, <1>2, <1>3 DEF Reclaiming
<1>7. (Flushing => Flushing') /\ (Restoring => Restoring')
  BY <1>1, <1>2 DEF Flushing, Restoring
<1>8. (Validating => Validating') /\ (Recovering => Recovering') /\ (Calling => Calling')
  BY <1>1, <1>2 DEF Validating, Recovering, Calling
<1>9. Allocating => Allocating'
  BY <1>1, <1>2, <1>3 DEF Allocating
<1>10. Writing => Writing'
  BY <1>1, <1>2 DEF Writing, Allocated, Recorded
<1>11. Storing => Storing'
  BY <1>1, <1>2 DEF Storing, Flying
<1>12. (Completing => Completing') /\ (Ending => Ending')
  BY <1>1, <1>2 DEF Completing, Ending
<1>13. Stage'
  BY <1>4, <1>5, <1>6, <1>7, <1>8, <1>9, <1>10, <1>11, <1>12 DEF IInv, Stage
<1> QED
  BY <1>1, <1>13, Decision DEF IInv, TypeOK

-----------------------------------------------------------------------------
(* Every step keeps the invariant                                           *)

LEMMA ReclaimingStep ==
  ASSUME OwnBlock, IInv, Proceed, Reclaiming
  PROVE  IInv' /\ Effect
<1>1. CASE /\ Starts(todo, "reclaim") /\ AfterReclaim(Tail(todo), request) /\ Calm
           /\ Compacted(Now.arg = 1) = ErasedCells
  BY <1>1, Acts, StepReclaim
<1>2. CASE Reclaim1(todo, request, Memory) /\ Calm
  <2>1. SpareTear
    BY <1>2, Acts DEF Reclaim1
  <2> QED
    BY <1>2, <2>1, StepSpareTear
<1>3. CASE Reclaim2(todo, request, Memory) /\ Calm
  <2>1. SparePut
    BY <1>3, Acts DEF Reclaim2
  <2> QED
    BY <1>3, <2>1, StepSparePut
<1>4. CASE Reclaim3(todo, request, Memory) /\ Calm /\ spare.cells = ErasedCells
  <2>1. SpareValid
    BY <1>4, Acts DEF Reclaim3
  <2> QED
    BY <1>4, <2>1, StepSpareValid
<1>5. CASE Reclaim4(todo, request, Memory) /\ Calm /\ spare.cells = ErasedCells
  <2>1. WorkInvalid
    BY <1>5, Acts DEF Reclaim4
  <2> QED
    BY <1>5, <2>1, StepWorkInvalid
<1>6. CASE Reclaim5(todo, request, Memory) /\ Calm /\ spare.cells = ErasedCells
  <2>1. SpareValid
    BY <1>6, Acts DEF Reclaim5
  <2> QED
    BY <1>6, <2>1, StepSpareValid
<1>7. CASE Reclaim6(todo, request, Memory) /\ Calm /\ spare.cells = ErasedCells
  <2>1. Flush
    BY <1>7, Acts DEF Reclaim6
  <2> QED
    BY <1>7, <2>1, StepFlush
<1> QED
  BY <1>1, <1>2, <1>3, <1>4, <1>5, <1>6, <1>7 DEF Reclaiming

LEMMA FlushingStep ==
  ASSUME OwnBlock, IInv, Proceed, Flushing
  PROVE  IInv' /\ Effect
<1>1. CASE Flush1(todo, request, Memory) /\ Calm
  <2>1. WorkInvalid
    BY <1>1, Acts DEF Flush1
  <2> QED
    BY <1>1, <2>1, StepWorkInvalid
<1>2. CASE Flush2(todo, request, Memory) /\ ~Valid
  <2>1. WorkErase
    BY <1>2, Acts DEF Flush2
  <2> QED
    BY <1>2, <2>1, StepWorkErase
<1>3. CASE Flush3(todo, request, Memory) /\ ~Valid /\ work.cells = ErasedCells
  <2>1. WorkPut
    BY <1>3, Acts DEF Flush3
  <2> QED
    BY <1>3, <2>1, StepWorkPut
<1>4. CASE /\ Flush4(todo, request, Memory) /\ work.cells = ErasedCells
           /\ work.hdr = [ErasedHeader EXCEPT !.signed = TRUE]
  <2>1. WorkValid
    BY <1>4, Acts DEF Flush4
  <2> QED
    BY <1>4, <2>1, StepWorkValid
<1> QED
  BY <1>1, <1>2, <1>3, <1>4 DEF Flushing

LEMMA RestoringStep ==
  ASSUME OwnBlock, IInv, Proceed, Restoring
  PROVE  IInv' /\ Effect
<1>1. CASE Restore1(todo, request)
  <2>1. SpareTear
    BY <1>1, Acts DEF Restore1
  <2> QED
    BY <1>1, <2>1, StepSpareTear
<1>2. CASE Restore2(todo, request)
  <2>1. SparePut
    BY <1>2, Acts DEF Restore2
  <2> QED
    BY <1>2, <2>1, StepSparePut
<1> QED
  BY <1>1, <1>2 DEF Restoring

LEMMA RecoveringStep ==
  ASSUME OwnBlock, IInv, Proceed, Recovering
  PROVE  IInv' /\ Effect
<1>1. request = None
  BY DEF Recovering
<1>2. CASE ToAbortFirst(todo) /\ Fresh
  <2>1. AbortFirst
    BY <1>2, Acts DEF ToAbortFirst
  <2> QED
    BY <1>1, <1>2, <2>1, StepAbortFirst
<1>3. CASE ToAbortLast(todo) /\ ((Fresh /\ ~FirstNotStarted) \/ Finished)
  <2>1. AbortLast
    BY <1>3, Acts DEF ToAbortLast
  <2> QED
    BY <1>1, <1>3, <2>1, StepAbortLast
<1>4. CASE ToTrailing(todo) /\ ((Fresh /\ ~FirstNotStarted /\ ~LastWritten) \/ Finished)
  <2>1. Trailing
    BY <1>4, Acts DEF ToTrailing
  <2> QED
    BY <1>1, <1>4, <2>1, StepTrailing
<1>5. CASE ToRestartLast(todo) /\ ((Fresh /\ ~FirstNotStarted /\ ~LastWritten) \/ Finished)
  <2>1. RestartLast
    BY <1>5, Acts DEF ToRestartLast, Single
  <2> QED
    BY <1>1, <1>5, <2>1, StepRestartLast
<1> QED
  BY <1>2, <1>3, <1>4, <1>5 DEF Recovering

LEMMA CallingStep ==
  ASSUME OwnBlock, IInv, Proceed, Calling
  PROVE  IInv' /\ Effect
<1>1. CASE Ready(todo, request) /\ Fresh /\ Settled
  <2>1. CASE Single(todo, "restart") /\ request = None
    <3>1. FtwRestart
      BY <2>1, Acts DEF Single
    <3> QED
      BY <1>1, <2>1, <3>1, StepRestartIdle
  <2>2. CASE Single(todo, "lastWrite") /\ request = None
    <3>1. FtwGetLastWrite
      BY <2>2, Acts DEF Single
    <3> QED
      BY <1>1, <2>2, <3>1, StepLastWrite
  <2>3. CASE Single(todo, "write") /\ request # None
    <3>1. FtwWrite
      BY <2>3, Acts DEF Single
    <3> QED
      BY <1>1, <2>3, <3>1, StepWrite
  <2>4. CASE ToAllocate(todo, request)
    <3>1. FtwAllocate
      BY <2>4, Acts DEF ToAllocate
    <3> QED
      BY <1>1, <2>4, <3>1, StepAllocate
  <2> QED
    BY <1>1, <2>1, <2>2, <2>3, <2>4 DEF Ready
<1>2. CASE ToAbort(todo) /\ Fresh /\ Calm /\ request = None
  <2>1. FtwAbort
    BY <1>2, Acts DEF ToAbort
  <2> QED
    BY <1>2, <2>1, StepAbort
<1>3. CASE ToRestart(todo) /\ Fresh /\ request = None
  <2>1. FtwRestart
    BY <1>3, Acts DEF ToRestart
  <2> QED
    BY <1>3, <2>1, StepRestart
<1> QED
  BY <1>1, <1>2, <1>3 DEF Calling

LEMMA AllocatingStep ==
  ASSUME OwnBlock, IInv, Proceed, Allocating
  PROVE  IInv' /\ Effect
<1>1. CASE Starts(todo, "header")
  <2>1. WriteHeader
    BY <1>1, Acts
  <2>2. ~Starts(todo, "writesAllocated")
    BY <1>1 DEF Starts
  <2> QED
    BY <2>1, <2>2, StepWriteHeader DEF Allocating
<1>2. CASE Starts(todo, "writesAllocated")
  <2>1. WritesAllocated
    BY <1>2, Acts
  <2>2. ~Starts(todo, "header")
    BY <1>2 DEF Starts
  <2> QED
    BY <2>1, <2>2, StepWritesAllocated DEF Allocating
<1> QED
  BY <1>1, <1>2 DEF Allocating

LEMMA WritingStep ==
  ASSUME OwnBlock, IInv, Proceed, Writing
  PROVE  IInv' /\ Effect
<1>1. CASE Single(todo, "check") /\ Allocated
  <2>1. CheckRecord
    BY <1>1, Acts DEF Single
  <2> QED
    BY <1>1, <2>1, StepCheck
<1>2. CASE Starts(todo, "record") /\ Single(Tail(todo), "backup") /\ Allocated
  <2>1. WriteRecord
    BY <1>2, Acts
  <2> QED
    BY <1>2, <2>1, StepWriteRecord
<1>3. CASE Single(todo, "backup") /\ Recorded
  <2>1. Backup
    BY <1>3, Acts DEF Single
  <2> QED
    BY <1>3, <2>1, StepBackup
<1>4. CASE Recorded /\ Backup1(todo, request)
  <2>1. SpareTear
    BY <1>4, Acts DEF Backup1
  <2> QED
    BY <1>4, <2>1, StepSpareTear
<1>5. CASE Recorded /\ Backup2(todo, request)
  <2>1. SparePut
    BY <1>5, Acts DEF Backup2
  <2> QED
    BY <1>5, <2>1, StepSparePut
<1>6. CASE Recorded /\ Backup3(todo, request) /\ spare.data = request.data
  <2>1. SpareComplete
    BY <1>6, Acts DEF Backup3
  <2> QED
    BY <1>6, <2>1, StepSpareComplete
<1> QED
  BY <1>1, <1>2, <1>3, <1>4, <1>5, <1>6 DEF Writing

LEMMA StoringStep ==
  ASSUME OwnBlock, IInv, Proceed, Storing
  PROVE  IInv' /\ Effect
<1>1. CASE ToDestination(todo, request) /\ Flying
  <2>1. FtwWriteRecord
    BY <1>1, Acts DEF ToDestination
  <2> QED
    BY <1>1, <2>1, StepDestination
<1>2. CASE Target1(todo, request, spare.data) /\ Flying
  <2>1. TargetTear
    BY <1>2, Acts DEF Target1
  <2> QED
    BY <1>2, <2>1, StepTargetTear
<1>3. CASE Target2(todo, request, spare.data) /\ Flying
  <2>1. TargetPut
    BY <1>3, Acts DEF Target2
  <2> QED
    BY <1>3, <2>1, StepTargetPut
<1>4. CASE /\ Target3(todo, request) /\ Flying
           /\ target[work.cells[lastRecord].lba] = spare.data
  <2>1. DestComplete
    BY <1>4, Acts DEF Target3
  <2> QED
    BY <1>4, <2>1, StepDestComplete
<1> QED
  BY <1>1, <1>2, <1>3, <1>4 DEF Storing

LEMMA EndingStep ==
  ASSUME OwnBlock, IInv, Proceed, Ending
  PROVE  IInv' /\ Effect
<1>1. CASE Put1(todo, request)
  <2>1. SpareTear
    BY <1>1, Acts DEF Put1
  <2> QED
    BY <1>1, <2>1, StepSpareTear
<1>2. CASE Put2(todo, request)
  <2>1. SparePut
    BY <1>2, Acts DEF Put2
  <2> QED
    BY <1>2, <2>1, StepSparePut
<1>3. CASE Single(todo, "success") /\ request # None
  <2>1. Success
    BY <1>3, Acts DEF Single
  <2> QED
    BY <1>3, <2>1, StepSuccess
<1> QED
  BY <1>1, <1>2, <1>3 DEF Ending

LEMMA ProceedStep ==
  ASSUME OwnBlock, IInv, Proceed
  PROVE  IInv' /\ Effect
<1>1. CASE Idle
  BY <1>1, Acts DEF Idle
<1>2. CASE Refreshing
  <2>1. Refresh
    BY <1>2, Acts DEF Refreshing
  <2> QED
    BY <1>2, <2>1, StepRefresh
<1>3. CASE Rereading
  <2>1. Reread
    BY <1>3, Acts DEF Rereading
  <2> QED
    BY <1>3, <2>1, StepReread
<1>4. CASE Validating
  <2>1. Validate
    BY <1>4, Acts DEF Validating, ToValidate
  <2> QED
    BY <1>4, <2>1, StepValidate
<1>5. CASE Completing
  <2>1. Complete
    BY <1>5, Acts DEF Completing
  <2> QED
    BY <1>5, <2>1, StepComplete
<1> QED
  BY <1>1, <1>2, <1>3, <1>4, <1>5, ReclaimingStep, FlushingStep, RestoringStep, RecoveringStep,
     CallingStep, AllocatingStep, WritingStep, StoringStep, EndingStep DEF IInv, Stage

LEMMA NextStep ==
  ASSUME OwnBlock, SingleWrites, IInv, [Next]_vars
  PROVE  IInv' /\ Effect
<1>1. CASE UNCHANGED vars
  BY <1>1, StepStutter
<1>2. CASE Proceed
  BY <1>2, ProceedStep
<1>3. CASE Crash
  BY <1>3, StepCrash
<1>4. CASE \E n \in NumberOfWrites : Allocate(n)
  BY <1>4, StepAllocateCall
<1>5. CASE \E l \in Lba, d \in Data : Write(l, d)
  BY <1>5, StepWriteCall
<1>6. CASE \E op \in {"restart", "abort", "lastWrite"} : Call(op)
  BY <1>6, StepCall
<1> QED
  BY <1>1, <1>2, <1>3, <1>4, <1>5, <1>6 DEF Next, Calls

-----------------------------------------------------------------------------
(* The theorems                                                             *)

(* The first start of the driver finds an erased working block.             *)
LEMMA InitIInv ==
  ASSUME OwnBlock, Init
  PROVE  IInv
<1>1. /\ target \in [Lba \ {WorkLba} -> Data] /\ spare = Unreadable("erased")
      /\ work \in [hdr : {ErasedHeader}, cells : {ErasedCells}, data : {Torn}]
      /\ ram = [hdr |-> ErasedHeader, cells |-> ErasedCells]
      /\ lastHeader = 0 /\ lastRecord = 0 /\ todo = Boot
      /\ request = None /\ status = "error" /\ calls = 0
  BY DEF Init, OwnBlock
<1>2. work.hdr = ErasedHeader /\ work.cells = ErasedCells /\ work \in WorkType
  BY <1>1, Erased, Headers DEF WorkType
<1>3. spare \in Image /\ spare.hdr = ErasedHeader
  BY <1>1, Images
<1>4. ~Valid /\ Calm
  <2>1. ~Valid
    BY <1>2, Headers DEF Valid
  <2> QED
    BY <2>1, InvalidCalm
<1>5. TypeOK
  <2>1. /\ ram \in [hdr : BlockHeader, cells : [1 .. Size -> Cell]]
        /\ 0 \in 0 .. Size /\ 0 \in 0 .. MaxCalls
    BY <1>1, Sizes, Erased, Headers
  <2>2. target \in [Lba \ {WorkLba} -> Data \cup {Torn}]
    BY <1>1
  <2> QED
    BY <1>1, <1>2, <1>3, <2>1, <2>2, BootList DEF TypeOK, WorkType
<1>6. \A l \in Lba : Content(l) \in Data
  <2> TAKE l \in Lba
  <2>1. ~FlyingIn(work, l)
    BY <1>4, CalmIs
  <2>2. target[l] \in Data
    BY <1>1 DEF OwnBlock
  <2> QED
    BY <2>1, <2>2, ContentIs
<1>7. FlashOK
  <2>1. 1 \in 1 .. Size + 1 /\ Log(work.cells, 1)
    BY <1>2, ErasedLog, Sizes
  <2>2. ~IsValidWorkSpace(spare.hdr)
    BY <1>3, Headers
  <2> QED
    BY <1>6, <2>1, <2>2 DEF FlashOK
<1>8. Refreshing
  BY <1>1, BootList DEF Refreshing, Rest, Before
<1> QED
  BY <1>5, <1>7, <1>8 DEF IInv, Stage

(* The steps of the driver are those of BlockStore.                         *)
LEMMA EffectStep ==
  ASSUME IInv, Effect
  PROVE  [Store!Next]_<<[l \in Lba |-> Content(l)], request, status>>
<1> DEFINE content == [l \in Lba |-> Content(l)]
<1>1. Same => content' = content
  BY DEF Same
<1>2. request \in [lba : Lba, data : Data] \cup {None}
  BY DEF IInv, TypeOK
<1>3. CASE Same /\ request' = request /\ status' = status
  BY <1>1, <1>3
<1>4. CASE Same /\ request' = None /\ status' = "error"
  <2>1. Store!Fail
    BY <1>1, <1>4 DEF Store!Fail
  <2> QED
    BY <2>1 DEF Store!Next
<1>5. CASE /\ Same /\ request # None /\ Content(request.lba) = request.data
           /\ request' = None /\ status' = "success"
  <2>1. request.lba \in Lba
    BY <1>2, <1>5
  <2>2. content[request.lba] = request.data
    BY <1>5, <2>1
  <2>3. Store!Succeed
    BY <1>1, <1>5, <2>2 DEF Store!Succeed
  <2> QED
    BY <2>3 DEF Store!Next
<1>6. CASE Same /\ request = None /\ request' \in [lba : Lba, data : Data] /\ status' = status
  <2>1. PICK l \in Lba, d \in Data : request' = [lba |-> l, data |-> d]
    BY <1>6
  <2>2. Store!Request(l, d)
    BY <1>1, <1>6, <2>1 DEF Store!Request
  <2> QED
    BY <2>2 DEF Store!Next
<1>7. CASE /\ request # None /\ request' = request /\ status' = status
           /\ \A l \in Lba : Content(l)' = IF l = request.lba THEN request.data ELSE Content(l)
  <2>1. content' = [content EXCEPT ![request.lba] = request.data]
    BY <1>7
  <2>2. Store!Commit
    BY <1>7, <2>1 DEF Store!Commit
  <2> QED
    BY <2>2 DEF Store!Next
<1> QED
  BY <1>3, <1>4, <1>5, <1>6, <1>7 DEF Effect

(* What is in flash, and what the steps still to do rely on, is kept by every
   step of the driver, by every call and by a power failure after any of
   them.                                                                    *)
THEOREM Inductive ==
  ASSUME OwnBlock, SingleWrites
  PROVE  Spec => []IInv
<1>1. Init => IInv
  BY InitIInv
<1>2. IInv /\ [Next]_vars => IInv'
  BY NextStep
<1> QED
  BY <1>1, <1>2, PTL DEF Spec

(* Flash, the copy of the work space in memory, the positions in it and the
   steps still to do have the types of the driver's structures.             *)
THEOREM TypeCorrect ==
  ASSUME OwnBlock, SingleWrites
  PROVE  Spec => []TypeOK
<1>1. IInv => TypeOK
  BY DEF IInv
<1> QED
  BY <1>1, Inductive, PTL

(* FtwWrite, its recovery by InitFtwProtocol and the reclaim of the work space,
   interrupted by any number of power failures, change blocks as BlockStore
   says: a block goes from its old to its new contents in one step, and a
   write that returned EFI_SUCCESS has taken effect.                        *)
THEOREM AtomicWritesHolds ==
  ASSUME OwnBlock, SingleWrites
  PROVE  Spec => AtomicWrites
<1>1. Init => Store!Init
  <2> SUFFICES ASSUME Init PROVE Store!Init
    OBVIOUS
  <2>1. \A l \in Lba : Content(l) \in Data
    BY InitIInv DEF IInv, FlashOK
  <2>2. request = None /\ status = "error"
    BY DEF Init
  <2> QED
    BY <2>1, <2>2 DEF Store!Init
<1>2. IInv /\ [Next]_vars => [Store!Next]_<<[l \in Lba |-> Content(l)], request, status>>
  BY NextStep, EffectStep
<1> QED
  BY <1>1, <1>2, Inductive, PTL DEF Spec, AtomicWrites, Store!Spec

(* A reader never finds a block that is neither old nor new, whether FtwWrite
   completed, failed or was cut off by a power failure.                     *)
THEOREM DataAvailableHolds ==
  ASSUME OwnBlock, SingleWrites
  PROVE  Spec => []DataAvailable
<1>1. IInv => DataAvailable
  BY Sizes DEF IInv, FlashOK, DataAvailable
<1> QED
  BY <1>1, Inductive, PTL

(* Whenever the driver waits for a call its work space is valid, and all of it
   after the last write is erased: WorkSpaceRefresh, FtwReclaimWorkSpace and
   InitFtwProtocol leave room the next header can be programmed in.         *)
THEOREM WorkSpaceReadyHolds ==
  ASSUME OwnBlock, SingleWrites
  PROVE  Spec => []WorkSpaceReady
<1>1. ASSUME IInv, todo = << >>
      PROVE  /\ IsValidWorkSpace(work.hdr)
             /\ LET last == GetLastWriteHeader(work.cells)
                IN  last.ok => \A i \in After(work.cells, last.at) : work.cells[i] = ErasedCell
  <2>1. Settled /\ work.cells \in [1 .. Size -> Cell]
    BY <1>1, RestsIdle DEF Idle, IInv, TypeOK
  <2>2. PICK h \in 1 .. Size + 1 :
          Log(work.cells, h) /\ (h < Size => work.cells[h + 1] = ErasedCell)
    BY <2>1 DEF Settled
  <2>3. h \in Nat /\ Size \in Nat
    BY Sizes
  <2> DEFINE last == GetLastWriteHeader(work.cells)
  <2>4. last.ok => h <= Size /\ last.at = h
    BY <2>1, <2>2, <2>3, LastOfLog
  <2>5. CASE h <= Size
    <3>1. CASE Open(work.cells[h])
      <4>1. After(work.cells, h) \subseteq {i \in 1 .. Size : i >= h + 2}
        BY <2>3, <3>1 DEF After, Open, Header, Writes, TotalSize
      <4>2. \A i \in After(work.cells, h) : work.cells[i] = ErasedCell
        BY <2>2, <2>3, <4>1 DEF Log
      <4> QED
        BY <2>1, <2>4, <4>2 DEF Settled, Valid
    <3>2. CASE ~Open(work.cells[h])
      <4>1. work.cells[h] = ErasedCell
        BY <2>2, <2>5, <3>2 DEF Log
      <4>2. After(work.cells, h) = {i \in 1 .. Size : i >= h}
        BY <4>1, Erased DEF After
      <4>3. \A i \in 1 .. Size : i >= h => work.cells[i] = ErasedCell
        BY <2>2, <2>3, <4>1 DEF Log
      <4> QED
        BY <2>1, <2>4, <4>2, <4>3 DEF Settled, Valid
    <3> QED
      BY <3>1, <3>2
  <2> QED
    BY <2>1, <2>4, <2>5 DEF Settled, Valid
<1>2. IInv => WorkSpaceReady
  BY <1>1 DEF WorkSpaceReady
<1> QED
  BY <1>2, Inductive, PTL

(* The steps before FtwAllocate's header and FtwWrite's record are programmed
   are in one stage each.                                                   *)
LEMMA Programming ==
  ASSUME IInv
  PROVE  /\ At("header") => Allocating
         /\ At("record") => Writing
<1>1. CASE Idle
  BY <1>1 DEF Idle, At
<1>2. CASE Refreshing \/ Rereading \/ Validating \/ Recovering \/ Completing
  BY <1>2 DEF Refreshing, Rereading, Validating, Recovering, Completing, At, Starts, Single,
              ToValidate, ToAbortFirst, ToAbortLast, ToTrailing, ToRestartLast
<1>3. CASE Reclaiming
  BY <1>3 DEF Reclaiming, Reclaim1, Reclaim2, Reclaim3, Reclaim4, Reclaim5, Reclaim6, At, Starts
<1>4. CASE Flushing \/ Restoring
  BY <1>4 DEF Flushing, Flush1, Flush2, Flush3, Flush4, Restoring, Restore1, Restore2, At, Starts
<1>5. CASE Calling
  BY <1>5 DEF Calling, Ready, ToAbort, ToRestart, ToAllocate, Single, At, Starts
<1>6. CASE Storing \/ Ending
  BY <1>6 DEF Storing, ToDestination, Target1, Target2, Target3, Ending, Put1, Put2, Single, At,
              Starts
<1>7. CASE Allocating
  BY <1>7 DEF Allocating, At, Starts
<1>8. CASE Writing
  BY <1>8 DEF Writing, Backup1, Backup2, Backup3, Single, At, Starts
<1> QED
  BY <1>1, <1>2, <1>3, <1>4, <1>5, <1>6, <1>7, <1>8 DEF IInv, Stage

(* FtwAllocate programs its header and FtwWrite its record over erased flash
   only, whatever was left by the writes and the power failures before it.  *)
THEOREM ErasedWhenProgrammedHolds ==
  ASSUME OwnBlock, SingleWrites
  PROVE  Spec => []ErasedWhenProgrammed
<1>1. ASSUME IInv, At("header") PROVE work.cells[Now.at] = ErasedCell
  <2>1. Allocating
    BY <1>1, Programming
  <2> QED
    BY <1>1, <2>1 DEF Allocating, Starts, At
<1>2. ASSUME IInv, At("record") PROVE work.cells[lastRecord] = ErasedCell
  <2>1. Writing
    BY <1>2, Programming
  <2>2. Allocated
    BY <1>2, <2>1 DEF Writing, Backup1, Backup2, Backup3, Single, At, Starts
  <2>3. LastRecord = ErasedCell /\ LastRecord = work.cells[lastRecord]
    BY <1>2, <2>2, SettledRecord DEF Allocated, IInv
  <2> QED
    BY <2>3
<1>3. IInv => ErasedWhenProgrammed
  BY <1>1, <1>2 DEF ErasedWhenProgrammed
<1> QED
  BY <1>3, Inductive, PTL
=============================================================================
