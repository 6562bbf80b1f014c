-------------------------------- MODULE Ftw ---------------------------------
(***************************************************************************)
(* The fault tolerant write driver                                         *)
(* (MdeModulePkg/Universal/FaultTolerantWriteDxe).                         *)
(*                                                                         *)
(* Flash holds the target blocks, the working block, whose work space lists*)
(* the writes and how far each one got, and the spare block.  Power may    *)
(* fail between any two flash operations: what is in memory is lost, a     *)
(* block that was being erased or programmed holds neither its old nor its *)
(* new contents, and InitFtwProtocol recovers.                             *)
(*                                                                         *)
(* An operation is a list of steps still to do, one for each flash access  *)
(* and one for each decision taken on what was read.  A function that      *)
(* calls another puts the callee's steps in front of its own.              *)
(*                                                                         *)
(* FVB drivers are external: erasing and programming a block take effect   *)
(* in ascending order, a state bit is set by programming one byte, and a   *)
(* header or a record is programmed at once.                               *)
(***************************************************************************)
EXTENDS Integers, Sequences, FiniteSets

CONSTANTS
  Lba,            \* the target blocks
  WorkLba,        \* the part of the working block around the work space; a
                  \* member of Lba if that block holds other data
  Data, Torn,     \* contents of a block; contents that are neither old nor new
  None,
  Size,           \* the work space, in cells of a write header or a record
  NumberOfWrites, \* the arguments callers pass to FtwAllocate
  PrivateData,    \* whether callers pass private data: they must allocate first
  MaxCalls        \* bound: calls of FtwAllocate and FtwWrite

ASSUME FtwAssumption ==
  /\ Torn \notin Data /\ None \notin Lba /\ Data # {}
  /\ None \notin [lba : Lba, data : Data]
  /\ Size \in Nat /\ Size >= 4 /\ MaxCalls \in Nat
  /\ NumberOfWrites \subseteq 1 .. Size
  /\ PrivateData \subseteq BOOLEAN

VARIABLES
  target,         \* the target blocks, but for the working block
  work,           \* the working block: work space header, cells, other data
  spare,          \* the spare block
  ram,            \* FtwWorkSpace: the work space as read into memory
  lastHeader,     \* FtwLastWriteHeader, a position in the work space
  lastRecord,     \* FtwLastWriteRecord
  todo,           \* the steps the operation in progress has still to do
  request,        \* the FtwWrite in progress
  status,         \* what the last FtwWrite returned
  calls           \* the number of calls of FtwAllocate and FtwWrite

flash  == <<target, work, spare>>
memory == <<ram, lastHeader, lastRecord>>
vars   == <<target, work, spare, ram, lastHeader, lastRecord, todo, request,
            status, calls>>

-----------------------------------------------------------------------------
(* The work space                                                           *)

(* EFI_FAULT_TOLERANT_WORKING_BLOCK_HEADER: Signature, size and Crc, then
   the bits WorkingBlockValid and WorkingBlockInvalid.                      *)
BlockHeader == [signed : BOOLEAN, valid : BOOLEAN, invalid : BOOLEAN]
ErasedHeader == [signed |-> FALSE, valid |-> FALSE, invalid |-> FALSE]
mWorkingBlockHeader == [signed |-> TRUE, valid |-> TRUE, invalid |-> FALSE]

IsValidWorkSpace(h) == h = mWorkingBlockHeader

(* A cell holds EFI_FAULT_TOLERANT_WRITE_HEADER (allocated, writesAllocated,
   complete, n) or EFI_FAULT_TOLERANT_WRITE_RECORD (lba, spareComplete,
   destComplete).                                                           *)
Cell == [use : {"erased", "header", "record"},
         allocated : BOOLEAN, writesAllocated : BOOLEAN, complete : BOOLEAN,
         n : 0 .. Size, lba : Lba \cup {None},
         spareComplete : BOOLEAN, destComplete : BOOLEAN]
ErasedCell == [use |-> "erased",
               allocated |-> FALSE, writesAllocated |-> FALSE, complete |-> FALSE,
               n |-> 0, lba |-> None,
               spareComplete |-> FALSE, destComplete |-> FALSE]
ErasedCells == [i \in 1 .. Size |-> ErasedCell]

(* FTW_WRITE_TOTAL_SIZE: a header and its records.                          *)
RecordsOnly(n) == n                                            \* mutant
TotalSize(n) == 1 + n

(* NumberOfWrites of a header; all ones if it is erased.                    *)
Writes(c) == IF c.use = "header" THEN c.n ELSE Size

(* FtwGetLastWriteHeader: the first header that is not complete, or an error
   if the headers fill the work space.                                      *)
NextHeader(cells, o) == o + TotalSize(Writes(cells[o]))
HeaderWalk(cells) ==
  LET walk[o \in 1 .. Size] ==
        IF ~cells[o].complete              THEN [ok |-> TRUE, at |-> o]
        ELSE IF NextHeader(cells, o) > Size THEN [ok |-> FALSE, at |-> o]
        ELSE walk[NextHeader(cells, o)]
  IN  walk
GetLastWriteHeader(cells) == HeaderWalk(cells)[1]

(* FtwGetLastWriteRecord: the first record of the header at h that is not
   written to its destination, or the last one.                             *)
GetLastWriteRecord(cells, h) ==
  LET open == {i \in 1 .. Writes(cells[h]) :
                 h + i <= Size /\ ~cells[h + i].destComplete}
  IN  IF open = {} THEN h + Writes(cells[h])
                   ELSE h + (CHOOSE i \in open : \A j \in open : i <= j)

IsFirstRecordOfWrites(h, r) == r = h + 1
IsLastRecordOfWrites(h, r)  == r = h + Writes(ram.cells[h])

-----------------------------------------------------------------------------
(* Images of a block, and steps                                             *)

Image == [kind : {"erased", "torn", "data", "work"}, data : Data \cup {Torn},
          hdr : BlockHeader, cells : [1 .. Size -> Cell]]
Unreadable(kind) == [kind |-> kind, data |-> Torn, hdr |-> ErasedHeader,
                     cells |-> ErasedCells]
DataImage(d) == [Unreadable("data") EXCEPT !.data = d]
WorkImage(h, cells, d) == [kind |-> "work", data |-> d, hdr |-> h, cells |-> cells]

Op == {"refresh", "reread", "reclaim", "spareTear", "sparePut", "spareValid",
       "spareRecord", "flush", "workInvalid", "workEraseData", "workErase",
       "workPutData", "workPut", "workValid", "targetTear", "targetPut",
       "allocate", "header", "writesAllocated", "write", "check", "record",
       "backup", "spareComplete", "destination", "destComplete", "complete",
       "success", "restart", "abort", "lastWrite", "validate", "abortFirst",
       "abortLast", "trailing", "restartLast"}
Step == [op : Op, at : 0 .. Size, arg : 0 .. Size, img : Image]

Do(op)         == [op |-> op, at |-> 0, arg |-> 0, img |-> Unreadable("erased")]
DoAt(op, i)    == [Do(op) EXCEPT !.at = i]
DoWith(op, n)  == [Do(op) EXCEPT !.arg = n]
DoPut(op, img) == [Do(op) EXCEPT !.img = img]

At(op) == todo # << >> /\ Head(todo).op = op
Now    == Head(todo)

Then(steps) == todo' = steps \o Tail(todo)
Goes        == UNCHANGED <<request, status, calls>>

(* The operation returns an error to its caller.                            *)
Quit == todo' = << >> /\ request' = None /\ status' = "error" /\ UNCHANGED calls

(* FtwUpdateFvState of the cell at i in the working block.                  *)
WorkCell(i, c) == [work EXCEPT !.cells[i] = c]
RamCell(i, c)  == [ram EXCEPT !.cells[i] = c]

-----------------------------------------------------------------------------
(* Spare block and working block                                            *)

(* InitFtwProtocol from its first WorkSpaceRefresh on.                      *)
Boot == <<Do("refresh"), Do("validate"), Do("abortFirst"), Do("abortLast"),
          Do("trailing"), Do("restartLast")>>

Init ==
  /\ target \in [Lba \ {WorkLba} -> Data]
  /\ work \in [hdr : {ErasedHeader}, cells : {ErasedCells},
               data : IF WorkLba \in Lba THEN Data ELSE {Torn}]
  /\ spare = Unreadable("erased")
  /\ ram = [hdr |-> ErasedHeader, cells |-> ErasedCells]
  /\ lastHeader = 0 /\ lastRecord = 0
  /\ todo = Boot
  /\ request = None /\ status = "error" /\ calls = 0

(* The power fails: memory is lost and the driver is loaded again.          *)
Crash ==
  /\ ram' = [hdr |-> ErasedHeader, cells |-> ErasedCells]
  /\ lastHeader' = 0 /\ lastRecord' = 0
  /\ todo' = Boot
  /\ request' = None /\ status' = "error"
  /\ UNCHANGED <<flash, calls>>

(* FtwEraseSpareBlock, and the writes that follow it: between the two the
   spare block holds nothing that can be used.                              *)
SpareTear ==
  /\ At("spareTear")
  /\ spare' = Unreadable("torn")
  /\ Then(<< >>) /\ Goes /\ UNCHANGED <<target, work, memory>>

SparePut ==
  /\ At("sparePut")
  /\ spare' = Now.img
  /\ Then(<< >>) /\ Goes /\ UNCHANGED <<target, work, memory>>

SpareSteps(img) == <<Do("spareTear"), DoPut("sparePut", img)>>

SpareValid ==
  /\ At("spareValid")
  /\ spare' = [spare EXCEPT !.hdr.valid = TRUE]
  /\ Then(<< >>) /\ Goes /\ UNCHANGED <<target, work, memory>>

(* FtwWriteRecord sets SPARE_COMPLETED in the copy of the work space that is
   in the spare block.                                                      *)
SpareRecord ==
  /\ At("spareRecord")
  /\ spare' = [spare EXCEPT !.cells[Now.at].spareComplete = TRUE]
  /\ Then(<< >>) /\ Goes /\ UNCHANGED <<target, work, memory>>

(* FlushSpareBlockToWorkingBlock.  The work space is in the last of the
   working blocks: other data comes before it, and is erased and written
   before it.                                                               *)
FlushSteps(img) ==
  LET other(s) == IF WorkLba \in Lba THEN <<s>> ELSE << >>
  IN  <<Do("workInvalid")>> \o other(Do("workEraseData")) \o <<Do("workErase")>>
        \o other(DoPut("workPutData", img)) \o <<DoPut("workPut", img), Do("workValid")>>

Flush ==
  /\ At("flush")
  /\ Then(FlushSteps(spare))
  /\ Goes /\ UNCHANGED <<flash, memory>>

FlushSpareBlockToWorkingBlock == <<Do("spareValid"), Do("flush")>>

WorkInvalid ==
  /\ At("workInvalid")
  /\ work' = [work EXCEPT !.hdr.invalid = TRUE]
  /\ ram' = [ram EXCEPT !.hdr.invalid = TRUE]
  /\ Then(<< >>) /\ Goes /\ UNCHANGED <<target, spare, lastHeader, lastRecord>>

WorkEraseData ==
  /\ At("workEraseData")
  /\ work' = [work EXCEPT !.data = Torn]
  /\ Then(<< >>) /\ Goes /\ UNCHANGED <<target, spare, memory>>

(* The block is erased from its start: for a while only k cells are.        *)
WorkErase ==
  /\ At("workErase")
  /\ \E k \in IF Now.arg = 0 THEN 0 .. Size ELSE {Size} :
       /\ work' = [work EXCEPT !.hdr = ErasedHeader,
                     !.cells = [i \in 1 .. Size |-> IF i <= k THEN ErasedCell ELSE @[i]]]
       /\ Then(IF k = Size THEN << >> ELSE <<[Now EXCEPT !.arg = 1]>>)
  /\ Goes /\ UNCHANGED <<target, spare, memory>>

WorkPutData ==
  /\ At("workPutData")
  /\ work' = [work EXCEPT !.data = Now.img.data]
  /\ Then(<< >>) /\ Goes /\ UNCHANGED <<target, spare, memory>>

(* InitWorkSpaceHeader signs the header of the buffer, and the state bits are
   cleared.                                                                 *)
WorkPut ==
  /\ At("workPut")
  /\ \E k \in IF Now.arg = 0 THEN 0 .. Size ELSE {Size} :
       /\ work' = [work EXCEPT !.hdr = [ErasedHeader EXCEPT !.signed = TRUE],
                     !.cells = [i \in 1 .. Size |->
                                  IF i <= k THEN Now.img.cells[i] ELSE @[i]]]
       /\ Then(IF k = Size THEN << >> ELSE <<[Now EXCEPT !.arg = 1]>>)
  /\ Goes /\ UNCHANGED <<target, spare, memory>>

ValidInMemory ==                                               \* mutant
  /\ At("workValid")
  /\ ram' = [ram EXCEPT !.hdr.valid = TRUE, !.hdr.invalid = FALSE]
  /\ Then(<< >>) /\ Goes /\ UNCHANGED <<flash, lastHeader, lastRecord>>
WorkValid ==
  /\ At("workValid")
  /\ work' = [work EXCEPT !.hdr.valid = TRUE]
  /\ ram' = [ram EXCEPT !.hdr.valid = TRUE, !.hdr.invalid = FALSE]
  /\ Then(<< >>) /\ Goes /\ UNCHANGED <<target, spare, lastHeader, lastRecord>>

-----------------------------------------------------------------------------
(* WorkSpaceRefresh and FtwReclaimWorkSpace                                 *)

(* Whether a header and a record fit at the last write header.              *)
EnoughSpace(last) == last.ok /\ last.at + TotalSize(1) - 1 <= Size

Refresh ==
  /\ At("refresh")
  /\ LET last == GetLastWriteHeader(work.cells)
     IN  /\ ram' = [hdr |-> work.hdr, cells |-> work.cells]
         /\ lastHeader' = last.at
         /\ \/ /\ EnoughSpace(last)
               /\ lastRecord' = GetLastWriteRecord(work.cells, last.at)
               /\ Then(<< >>)
            \/ /\ ~EnoughSpace(last)
               /\ Then(<<DoWith("reclaim", 1), Do("reread")>>)
               /\ UNCHANGED lastRecord
  /\ Goes /\ UNCHANGED flash

(* Its error return cannot happen: FtwReclaimWorkSpace leaves no complete
   header behind.                                                           *)
Reread ==
  /\ At("reread")
  /\ LET last == GetLastWriteHeader(work.cells)
     IN  /\ last.ok
         /\ ram' = [hdr |-> work.hdr, cells |-> work.cells]
         /\ lastHeader' = last.at
         /\ lastRecord' = GetLastWriteRecord(work.cells, last.at)
  /\ Then(<< >>) /\ Goes /\ UNCHANGED flash

(* The work space without the completed writes: the last write header, if it
   is in use, and its records.                                              *)
Compacted(preserve) ==
  LET last == GetLastWriteHeader(ram.cells)
      kept == /\ preserve /\ last.ok
              /\ ram.cells[last.at].allocated
  IN  [i \in 1 .. Size |->
         IF kept /\ i <= TotalSize(Writes(ram.cells[last.at])) /\ last.at + i - 1 <= Size
         THEN ram.cells[last.at + i - 1]
         ELSE ErasedCell]

ReclaimSteps(img) ==
  SpareSteps(img) \o <<Do("spareValid"), Do("workInvalid")>>
    \o FlushSpareBlockToWorkingBlock \o SpareSteps(spare)

FtwReclaimWorkSpace ==
  /\ At("reclaim")
  /\ LET new  == Compacted(Now.arg = 1)
         last == GetLastWriteHeader(new)
         hdr  == [ram.hdr EXCEPT !.valid = FALSE, !.invalid = FALSE]
     IN  /\ ram' = [ram EXCEPT !.cells = new]
         /\ lastHeader' = last.at
         /\ lastRecord' = GetLastWriteRecord(new, last.at)
         /\ Then(ReclaimSteps(WorkImage(hdr, new, work.data)))
  /\ Goes /\ UNCHANGED flash

-----------------------------------------------------------------------------
(* FtwAllocate                                                              *)

LastHeader == ram.cells[lastHeader]
LastRecord == ram.cells[lastRecord]

Allocate(n) ==
  /\ todo = << >> /\ calls < MaxCalls
  /\ todo' = <<Do("refresh"), DoWith("allocate", n)>>
  /\ calls' = calls + 1
  /\ UNCHANGED <<flash, memory, request, status>>

(* Offset is computed before the work space is reclaimed, and the header is
   written there; FtwHeader is read again after it.                         *)
AllocateSteps(offset, n) ==
  (IF offset + TotalSize(n) - 1 > Size THEN <<DoWith("reclaim", 1)>> ELSE << >>)
    \o <<[DoAt("header", offset) EXCEPT !.arg = n], DoAt("writesAllocated", offset)>>

FtwAllocate ==
  /\ At("allocate")
  /\ \/ /\ TotalSize(Now.arg) > Size \/ LastHeader.allocated \/ LastHeader.writesAllocated
        /\ Quit
     \/ /\ TotalSize(Now.arg) <= Size /\ ~LastHeader.allocated /\ ~LastHeader.writesAllocated
        /\ Then(AllocateSteps(lastHeader, Now.arg)) /\ Goes
  /\ UNCHANGED <<flash, memory>>

WriteHeader ==
  /\ At("header")
  /\ LET header == [LastHeader EXCEPT !.use = "header", !.allocated = TRUE,
                      !.writesAllocated = FALSE, !.complete = FALSE, !.n = Now.arg]
     IN  /\ ram' = RamCell(lastHeader, header)
         /\ work' = WorkCell(Now.at, header)
  /\ Then(<< >>) /\ Goes /\ UNCHANGED <<target, spare, lastHeader, lastRecord>>

WritesAllocated ==
  /\ At("writesAllocated")
  /\ work' = [work EXCEPT !.cells[Now.at].writesAllocated = TRUE]
  /\ Then(<< >>) /\ Goes /\ UNCHANGED <<target, spare, memory>>

-----------------------------------------------------------------------------
(* FtwWrite and FtwWriteRecord                                              *)

Write(l, d) ==
  /\ todo = << >> /\ calls < MaxCalls
  /\ todo' = <<Do("refresh"), Do("write")>>
  /\ request' = [lba |-> l, data |-> d]
  /\ calls' = calls + 1
  /\ UNCHANGED <<flash, memory, status>>

FtwWrite ==
  /\ At("write")
  /\ \/ /\ LastHeader.use # "erased"
        /\ Then(<<Do("check")>>) /\ Goes
     \/ /\ LastHeader.use = "erased" /\ FALSE \in PrivateData
        /\ Then(<<Do("refresh"), DoWith("allocate", 1), Do("check")>>) /\ Goes
     \/ /\ LastHeader.use = "erased" /\ TRUE \in PrivateData
        /\ Quit
  /\ UNCHANGED <<flash, memory>>

(* Header and Record, read before FtwAllocate is called, are still the last
   header and record after it.                                              *)
WriteRefused ==
  \/ lastRecord > lastHeader + Writes(LastHeader)
  \/ LastHeader.complete
  \/ LastRecord.destComplete
  \/ LastRecord.spareComplete

CheckRecord ==
  /\ At("check")
  /\ IF WriteRefused THEN Quit ELSE Then(<<Do("record"), Do("backup")>>) /\ Goes
  /\ UNCHANGED <<flash, memory>>

(* Programming only clears bits: over a record that is there already, the
   result is neither of the two.                                            *)
WriteRecord ==
  /\ At("record")
  /\ LET record(l) == [LastRecord EXCEPT !.use = "record", !.lba = l]
         old == work.cells[lastRecord]
     IN  /\ ram' = RamCell(lastRecord, record(request.lba))
         /\ \E l \in IF old.use = "erased" \/ old = record(request.lba)
                      THEN {request.lba} ELSE Lba \cup {None} :
              work' = WorkCell(lastRecord, record(l))
  /\ Then(<< >>) /\ Goes /\ UNCHANGED <<target, spare, lastHeader, lastRecord>>

(* The block with the new data: callers that write to the working block write
   the whole of it but for the work space, which is copied as it is.        *)
BlockWithoutWorkSpace(l, d) == DataImage(d)                    \* mutant
NewBlock(l, d) ==
  IF l = WorkLba THEN WorkImage(work.hdr, work.cells, d) ELSE DataImage(d)

MarkedBeforeBackup(img) ==                                     \* mutant
  <<Do("spareComplete")>> \o SpareSteps(img) \o <<Do("destination")>>
    \o SpareSteps(spare) \o <<Do("success")>>
WriteSteps(img) ==
  SpareSteps(img) \o <<Do("spareComplete"), Do("destination")>>
    \o SpareSteps(spare) \o <<Do("success")>>

Backup ==
  /\ At("backup")
  /\ Then(WriteSteps(NewBlock(request.lba, request.data)))
  /\ Goes /\ UNCHANGED <<flash, memory>>

SpareComplete ==
  /\ At("spareComplete")
  /\ work' = [work EXCEPT !.cells[lastRecord].spareComplete = TRUE]
  /\ ram' = [ram EXCEPT !.cells[lastRecord].spareComplete = TRUE]
  /\ Then(<< >>) /\ Goes /\ UNCHANGED <<target, spare, lastHeader, lastRecord>>

FtwWriteRecord ==
  /\ At("destination")
  /\ Then((IF LastRecord.lba = WorkLba
           THEN <<DoAt("spareRecord", lastRecord)>> \o FlushSpareBlockToWorkingBlock
           ELSE <<Do("targetTear"), DoPut("targetPut", spare)>>)
            \o <<Do("destComplete")>>
            \o (IF IsLastRecordOfWrites(lastHeader, lastRecord)
                THEN <<Do("complete")>> ELSE << >>))
  /\ Goes /\ UNCHANGED <<flash, memory>>

(* FlushSpareBlockToTargetBlock.                                            *)
TargetTear ==
  /\ At("targetTear")
  /\ target' = [target EXCEPT ![LastRecord.lba] = Torn]
  /\ Then(<< >>) /\ Goes /\ UNCHANGED <<work, spare, memory>>

TargetPut ==
  /\ At("targetPut")
  /\ target' = [target EXCEPT ![LastRecord.lba] = Now.img.data]
  /\ Then(<< >>) /\ Goes /\ UNCHANGED <<work, spare, memory>>

DestComplete ==
  /\ At("destComplete")
  /\ work' = [work EXCEPT !.cells[lastRecord].destComplete = TRUE]
  /\ ram' = [ram EXCEPT !.cells[lastRecord].destComplete = TRUE]
  /\ Then(<< >>) /\ Goes /\ UNCHANGED <<target, spare, lastHeader, lastRecord>>

(* WRITES_COMPLETED, set by FtwWriteRecord and by FtwAbort.                 *)
Complete ==
  /\ At("complete")
  /\ work' = [work EXCEPT !.cells[lastHeader].complete = TRUE]
  /\ ram' = [ram EXCEPT !.cells[lastHeader].complete = TRUE]
  /\ Then(<< >>) /\ Goes /\ UNCHANGED <<target, spare, lastHeader, lastRecord>>

Success ==
  /\ At("success")
  /\ todo' = << >> /\ request' = None /\ status' = "success"
  /\ UNCHANGED <<flash, memory, calls>>

-----------------------------------------------------------------------------
(* FtwRestart, FtwAbort, FtwGetLastWrite                                    *)

Call(op) ==
  /\ todo = << >>
  /\ todo' = <<Do("refresh"), Do(op)>>
  /\ Goes /\ UNCHANGED <<flash, memory>>

RestartSteps == <<Do("destination")>> \o SpareSteps(Unreadable("erased"))

FtwRestart ==
  /\ At("restart")
  /\ Then(IF LastHeader.complete \/ LastRecord.destComplete \/ ~LastRecord.spareComplete
          THEN << >> ELSE RestartSteps)
  /\ Goes /\ UNCHANGED <<flash, memory>>

FtwAbort ==
  /\ At("abort")
  /\ Then(IF ~LastHeader.allocated \/ LastHeader.complete THEN << >>
          ELSE <<Do("complete")>>)
  /\ Goes /\ UNCHANGED <<flash, memory>>

AbortSteps == <<Do("refresh"), Do("abort")>>

FirstNotStarted ==
  LastHeader.allocated /\ ~LastRecord.spareComplete
    /\ IsFirstRecordOfWrites(lastHeader, lastRecord)
LastWritten ==
  ~LastHeader.complete /\ LastRecord.destComplete
    /\ IsLastRecordOfWrites(lastHeader, lastRecord)

(* A record that is not the first has one before it to report.              *)
FtwGetLastWrite ==
  /\ At("lastWrite")
  /\ Then(IF LastWritten \/ FirstNotStarted THEN AbortSteps ELSE << >>)
  /\ Goes /\ UNCHANGED <<flash, memory>>

-----------------------------------------------------------------------------
(* InitFtwProtocol                                                          *)

Validate ==
  /\ At("validate")
  /\ \/ /\ IsValidWorkSpace(ram.hdr)
        /\ Then(<< >>) /\ UNCHANGED ram
     \/ /\ ~IsValidWorkSpace(ram.hdr) /\ IsValidWorkSpace(spare.hdr)
        /\ ram' = [hdr |-> spare.hdr, cells |-> spare.cells]
        /\ Then(FlushSpareBlockToWorkingBlock \o AbortSteps \o <<Do("refresh")>>)
     \/ /\ ~IsValidWorkSpace(ram.hdr) /\ ~IsValidWorkSpace(spare.hdr)
        /\ ram' = [hdr |-> mWorkingBlockHeader, cells |-> ErasedCells]
        /\ Then(<<DoWith("reclaim", 0)>>)
  /\ Goes /\ UNCHANGED <<flash, lastHeader, lastRecord>>

AbortFirst ==
  /\ At("abortFirst")
  /\ Then(IF FirstNotStarted THEN AbortSteps ELSE << >>)
  /\ Goes /\ UNCHANGED <<flash, memory>>

AbortLast ==
  /\ At("abortLast")
  /\ Then(IF LastWritten THEN AbortSteps ELSE << >>)
  /\ Goes /\ UNCHANGED <<flash, memory>>

(* The work space after the last write header and its records.              *)
After(cells, h) ==
  {i \in 1 .. Size : i >= IF cells[h].use = "erased" THEN h
                          ELSE h + TotalSize(Writes(cells[h]))}

Trailing ==
  /\ At("trailing")
  /\ Then(IF \A i \in After(ram.cells, lastHeader) : ram.cells[i] = ErasedCell
          THEN << >> ELSE <<DoWith("reclaim", 1)>>)
  /\ Goes /\ UNCHANGED <<flash, memory>>

NoRestart ==                                                   \* mutant
  At("restartLast") /\ Then(<< >>) /\ Goes /\ UNCHANGED <<flash, memory>>
RestartLast ==
  /\ At("restartLast")
  /\ Then(IF ~LastHeader.complete /\ LastRecord.spareComplete
          THEN <<Do("refresh"), Do("restart")>> \o AbortSteps ELSE << >>)
  /\ Goes /\ UNCHANGED <<flash, memory>>

-----------------------------------------------------------------------------
Calls ==
  \/ \E n \in NumberOfWrites : Allocate(n)
  \/ \E l \in Lba, d \in Data : Write(l, d)
  \/ \E op \in {"restart", "abort", "lastWrite"} : Call(op)

Proceed ==
  \/ SpareTear \/ SparePut \/ SpareValid \/ SpareRecord
  \/ Flush \/ WorkInvalid \/ WorkEraseData \/ WorkErase
  \/ WorkPutData \/ WorkPut \/ WorkValid
  \/ Refresh \/ Reread \/ FtwReclaimWorkSpace
  \/ FtwAllocate \/ WriteHeader \/ WritesAllocated
  \/ FtwWrite \/ CheckRecord \/ WriteRecord \/ Backup \/ SpareComplete
  \/ FtwWriteRecord \/ TargetTear \/ TargetPut \/ DestComplete
  \/ Complete \/ Success \/ FtwRestart \/ FtwAbort \/ FtwGetLastWrite
  \/ Validate \/ AbortFirst \/ AbortLast \/ Trailing \/ RestartLast

Next == Calls \/ Proceed \/ Crash

Spec == Init /\ [][Next]_vars

(* The driver runs to completion when it is called; nothing makes callers
   call it.                                                                 *)
FairSpec == Spec /\ WF_vars(Proceed)

-----------------------------------------------------------------------------
(* Properties                                                               *)

TypeOK ==
  /\ target \in [Lba \ {WorkLba} -> Data \cup {Torn}]
  /\ work \in [hdr : BlockHeader, cells : [1 .. Size -> Cell], data : Data \cup {Torn}]
  /\ spare \in Image
  /\ ram \in [hdr : BlockHeader, cells : [1 .. Size -> Cell]]
  /\ lastHeader \in 0 .. Size /\ lastRecord \in 0 .. Size
  /\ todo \in Seq(Step)
  /\ request \in [lba : Lba, data : Data] \cup {None}
  /\ status \in {"success", "error"}
  /\ calls \in 0 .. MaxCalls

(* A write is in flight if its data is in the spare block, and the work space
   says so.                                                                 *)
InFlight(l) ==
  /\ IsValidWorkSpace(work.hdr)
  /\ LET last == GetLastWriteHeader(work.cells)
         r    == GetLastWriteRecord(work.cells, last.at)
     IN  /\ last.ok /\ work.cells[last.at].allocated
         /\ work.cells[r].lba = l
         /\ work.cells[r].spareComplete /\ ~work.cells[r].destComplete

(* What a reader finds in a block once the driver has recovered.            *)
Content(l) ==
  IF \/ InFlight(l)
     \/ l = WorkLba /\ ~IsValidWorkSpace(work.hdr) /\ IsValidWorkSpace(spare.hdr)
  THEN spare.data
  ELSE IF l = WorkLba THEN work.data ELSE target[l]

Store == INSTANCE BlockStore WITH content <- [l \in Lba |-> Content(l)]

(* FtwWrite completes "in a recoverable manner, ensuring at all times that
   either the original contents or the modified contents are available"
   (FaultTolerantWrite.c:282-284): whatever power failures interrupt the
   driver and its recovery, blocks change as BlockStore says.               *)
AtomicWrites == Store!Spec

(* The same, as what a reader may find: no block is neither old nor new.    *)
DataAvailable == \A l \in Lba : Content(l) # Torn

(* When the driver is ready its work space is valid and everything after the
   last write is erased, so the next header and record can be programmed
   (the check at the end of InitFtwProtocol, the reclaim of FtwAllocate and
   WorkSpaceRefresh).                                                       *)
WorkSpaceReady ==
  todo = << >> =>
    /\ IsValidWorkSpace(work.hdr)
    /\ LET last == GetLastWriteHeader(work.cells)
       IN  last.ok => \A i \in After(work.cells, last.at) : work.cells[i] = ErasedCell

(* "enables the protocol to ensure that enough space exists to track
   information about the upcoming writes" (FaultTolerantWrite.c:48-52): once
   FtwAllocate has returned, the header it keeps in memory is in flash.     *)
AllocateRecorded ==
  todo = << >> /\ LastHeader.allocated => work.cells[lastHeader].allocated

(* Headers and records are programmed where flash is erased: "the caller must
   ensure that all the bits of the specified range to write are in the
   EFI_FVB_ERASE_POLARITY state" (FirmwareVolumeBlock.h:204-208).           *)
ErasedWhenProgrammed ==
  /\ At("header") => work.cells[Now.at] = ErasedCell
  /\ At("record") => work.cells[lastRecord] = ErasedCell

(* A write whose data is in the spare block gets to its destination, unless
   power keeps failing.                                                     *)
WriteFinished ==
  []<><<Crash>>_vars \/ \A l \in Lba : InFlight(l) ~> ~InFlight(l)

=============================================================================
