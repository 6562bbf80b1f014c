--------------------------- MODULE VariableStore ----------------------------
(***************************************************************************)
(* The non-volatile variable store of the UEFI variable driver             *)
(* (MdeModulePkg/Universal/Variable/RuntimeDxe): SetVariable, garbage      *)
(* collection, and the initialisation that follows a power failure.        *)
(*                                                                         *)
(* The store is a log.  A variable is a header and its data; a header has  *)
(* a state byte whose bits are programmed one after the other, so that     *)
(* power may fail between any two flash accesses.  The driver works on a   *)
(* copy of the flash in memory.                                            *)
(*                                                                         *)
(* The FVB driver is external: programming an erased range takes effect    *)
(* in ascending order, one byte at once, and programming a range that is   *)
(* not erased spoils it.  Garbage collection replaces the whole store with *)
(* a fault tolerant write, which is atomic (BlockStore).                   *)
(***************************************************************************)
EXTENDS Integers, Sequences, FiniteSets, SequencesExt

CONSTANTS
  Names,             \* variables: a name and a vendor GUID
  RuntimeNames,      \* those with EFI_VARIABLE_RUNTIME_ACCESS
  Values,            \* contents of a variable
  DataSize,          \* the cells a value takes
  Erased, Torn,      \* an erased cell; one that holds neither old nor new
  None,
  Size,              \* CommonVariableSpace, in cells
  RuntimeSpace,      \* CommonRuntimeVariableSpace
  MaxVariableSize,
  FvbErrors,         \* whether the FVB driver may report errors
  FtwErrors,         \* whether the fault tolerant write may report errors
  MaxCalls,          \* bound: calls of SetVariable
  MaxFailures        \* bound: power failures and errors of the FVB driver

ASSUME VariableAssumption ==
  /\ RuntimeNames \subseteq Names
  /\ DataSize \in [Values -> Nat \ {0}]
  /\ {Erased, Torn, None} \cap (Values \cup Names) = {}
  /\ Size \in Nat /\ RuntimeSpace \in 0 .. Size
  /\ MaxVariableSize \in Nat
  /\ FvbErrors \in BOOLEAN /\ FtwErrors \in BOOLEAN
  /\ MaxCalls \in Nat /\ MaxFailures \in Nat

VARIABLES
  flash,       \* the variable store in flash
  cache,       \* mNvVariableCache
  lastOffset,  \* NonVolatileLastVariableOffset
  phase,       \* "off", "read" (no write service yet), "boot" or "runtime"
  reclaimed,   \* ReclaimForOS has run
  op,          \* the call of SetVariable in progress, or None
  fault,       \* history: an error has left the free area other than erased,
               \* or the runtime cache behind the store
  calls,       \* the calls of SetVariable so far
  failures     \* the power failures and errors so far

vars == <<flash, cache, lastOffset, phase, reclaimed, op, fault, calls, failures>>

-----------------------------------------------------------------------------
(* The layout of a store                                                    *)

(* VARIABLE_HEADER.  The state byte is the set of its programmed bits:
   VAR_HEADER_VALID_ONLY, VAR_ADDED, VAR_IN_DELETED_TRANSITION and
   VAR_DELETED program one bit more each.                                   *)
Bit    == {"header", "added", "transition", "deleted"}
Header == [name : Names, size : Nat, state : SUBSET Bit]

VAR_HEADER_VALID_ONLY == {"header"}
VAR_ADDED             == {"header", "added"}
IN_TRANSITION         == VAR_ADDED \cup {"transition"}

Place == 1 .. Size
Blank == [i \in Place |-> Erased]

(* IsValidVariableHeader                                                    *)
IsHeader(s, p) == p \in Place /\ s[p] \notin Values \cup {Erased, Torn}

(* GetNextVariablePtr: a header whose state byte is blank has no size.      *)
NextVariablePtr(s, p) == p + 1 + (IF s[p].state = {} THEN 0 ELSE s[p].size)

(* A walk of the store: where the pointer is after k rounds of the loop, which
   stops at what is no header; the headers visited, and where the walk ends. *)
Advance(s, p) == IF IsHeader(s, p) THEN NextVariablePtr(s, p) ELSE p
Pointers(s) ==
  LET ptr[k \in 0 .. Size] == IF k = 0 THEN 1 ELSE Advance(s, ptr[k - 1])
  IN  ptr
Walk(s)      == {p \in Range(Pointers(s)) : IsHeader(s, p)}
EndOfWalk(s) == Pointers(s)[Size]

Added(s)        == {p \in Walk(s) : s[p].state = VAR_ADDED}
InTransition(s) == {p \in Walk(s) : s[p].state = IN_TRANSITION}
Copies(s, n)    == {p \in Walk(s) : /\ s[p].name = n
                                    /\ s[p].state \in {VAR_ADDED, IN_TRANSITION}}

(* FindVariableEx: the first ADDED copy and the last copy in transition
   before it; without an ADDED copy, the last one in transition.            *)
FindVariable(s, n) ==
  LET copies == Copies(s, n)
      added  == {p \in copies : s[p].state = VAR_ADDED}
      curr   == IF added # {} THEN Min(added) ELSE Max(copies \cup {0})
  IN  [curr  |-> curr,
       trans |-> IF added = {} THEN 0 ELSE Max({p \in copies : p < curr} \cup {0})]

(* What GetVariable returns for n from a store: its data, or None.          *)
Value(s, n) ==
  LET p == FindVariable(s, n).curr
  IN  IF p = 0 THEN None
      ELSE IF \A i \in 1 .. s[p].size : s[p + i] = s[p + 1] THEN s[p + 1]
      ELSE Torn

NewHeader(n, v, state) == [name |-> n, size |-> DataSize[v], state |-> state]
VarSize(v) == 1 + DataSize[v]

-----------------------------------------------------------------------------
(* Programming the flash                                                    *)

(* Bits are only ever cleared: a header over a copy of itself adds the bits
   of its state byte.                                                       *)
Program(old, new) ==
  CASE old \in {Erased, new} -> new
    [] new \in Header /\ old \in {[new EXCEPT !.state = b] : b \in SUBSET Bit} ->
         [new EXCEPT !.state = @ \cup old.state]
    [] OTHER -> Torn

(* UpdateVariableStore, for a header or data, and for a state byte.         *)
ProgramRange(s, first, size, c) ==
  [i \in Place |-> IF i \in first .. first + size - 1
                   THEN Program(s[i], c) ELSE s[i]]
ProgramState(s, p, bits) ==
  [s EXCEPT ![p] = IF IsHeader(s, p)
                   THEN [s[p] EXCEPT !.state = @ \cup bits] ELSE Torn]

-----------------------------------------------------------------------------
(* Garbage collection                                                       *)

SameName(s, p, q) == s[p].name = s[q].name

(* The copies in transition Reclaim promotes: it meets them in order, and
   skips one whose variable is in the buffer already.                       *)
Promoted(s, added, trans) ==
  {p \in trans : /\ \A q \in added : ~SameName(s, p, q)
                 /\ \A q \in trans : q < p => ~SameName(s, p, q)}

Copied(s, p) == <<[s[p] EXCEPT !.state = VAR_ADDED]>>
                  \o SubSeq(s, p + 1, p + s[p].size)

(* One of its loops: the variables at the places in kept are copied, in the
   order in which the store has them, behind what is in the buffer.         *)
Gather(s, kept, buffer) ==
  LET gather[p \in 0 .. Size] ==
        IF p = 0 THEN buffer
        ELSE gather[p - 1] \o (IF p \in kept THEN Copied(s, p) ELSE <<>>)
  IN  gather[Size]

(* Reclaim: the variables it writes, given the pointers of the variable that
   is being updated: the ADDED ones, then the promoted ones.                *)
ValidBuffer(s, updating) ==
  LET added == Added(s) \ {updating.curr}
      trans == InTransition(s) \ {updating.curr, updating.trans}
  IN  Gather(s, Promoted(s, added, trans), Gather(s, added, <<>>))

NoUpdate == [curr |-> 0, trans |-> 0]
Fill(buffer) ==
  [i \in Place |-> IF i <= Len(buffer) THEN buffer[i] ELSE Erased]

(* The end of Reclaim: the fault tolerant write succeeds, or reports an error
   and has taken effect or not.  The copy in memory is read back.           *)
ReclaimDone(buffer) ==
  /\ flash' = Fill(buffer)
  /\ cache' = flash'
  /\ lastOffset' = Len(buffer) + 1
ReclaimFailed(buffer) ==
  /\ FtwErrors /\ failures < MaxFailures
  /\ flash' \in {flash, Fill(buffer)}
  /\ cache' = flash'
  /\ lastOffset' = EndOfWalk(flash')
  /\ failures' = failures + 1

-----------------------------------------------------------------------------
(* SetVariable                                                              *)

Op == [name : Names, value : Values \cup {None}, curr : 0 .. Size,
       trans : 0 .. Size,
       pc : {"mark", "write", "valid", "data", "added",
             "deleteTrans", "deleteCurr", "done"}]

(* A cell holds one thing, and None is no call.                             *)
ASSUME CellAssumption ==
  /\ Erased # Torn
  /\ (Values \cup {Erased, Torn}) \cap Header = {}
  /\ None \notin Op

Continue(pc) == op' = [op EXCEPT !.pc = pc]
At(pc) == op # None /\ op.pc = pc

OnlyCurrent(f) == IF f.curr = 0 THEN "done" ELSE "deleteCurr"  \* mutant
(* What follows when the new variable is in place, or there is none.        *)
RemoveOld(f) == CASE f.curr = 0                -> "done"
                  [] f.curr # 0 /\ f.trans # 0 -> "deleteTrans"
                  [] f.curr # 0 /\ f.trans = 0 -> "deleteCurr"

(* VariableServiceSetVariable and the start of UpdateVariable, for a variable
   that may be set now.  To set None is to delete.                          *)
SetVariable(n, v) ==
  LET f == FindVariable(cache, n)
  IN  /\ phase \in {"boot", "runtime"} /\ op = None /\ calls < MaxCalls
      /\ phase = "runtime" => n \in RuntimeNames
      /\ v = None => f.curr # 0
      /\ op' = [name |-> n, value |-> v, curr |-> f.curr, trans |-> f.trans,
                pc |-> CASE v = None                                -> RemoveOld(f)
                         [] v # None /\ v = Value(cache, n)         -> "done"
                         [] v # None /\ v # Value(cache, n) /\ f.curr # 0 -> "mark"
                         [] v # None /\ f.curr = 0                  -> "write"]
      /\ calls' = calls + 1
      /\ UNCHANGED <<flash, cache, lastOffset, phase, reclaimed, fault, failures>>

(* A state byte programmed in flash, then in the copy in memory.            *)
UpdateState(p, bit) ==
  /\ flash' = ProgramState(flash, p, {bit})
  /\ cache' = ProgramState(cache, p, {bit})
  /\ UNCHANGED <<lastOffset, phase, reclaimed, fault, calls, failures>>

MarkDeleted ==                                                 \* mutant
  At("mark") /\ UpdateState(op.curr, "deleted") /\ Continue("write")
MarkInTransition ==
  At("mark") /\ UpdateState(op.curr, "transition") /\ Continue("write")
DeleteTransition ==
  At("deleteTrans") /\ UpdateState(op.trans, "deleted") /\ Continue("deleteCurr")
DeleteCurrent == At("deleteCurr") /\ UpdateState(op.curr, "deleted") /\ Continue("done")

(* CommonVariableTotalSize: without hardware error records, what precedes
   the free area.                                                           *)
CommonVariableTotalSize == lastOffset - 1

Fits == VarSize(op.value) + CommonVariableTotalSize
          <= (IF phase = "runtime" THEN RuntimeSpace ELSE Size)

(* The four steps that write a new variable.                                *)
WriteHeader ==
  /\ At("write") /\ Fits
  /\ flash' = ProgramRange(flash, lastOffset, 1, NewHeader(op.name, op.value, {}))
  /\ Continue("valid")
  /\ UNCHANGED <<cache, lastOffset, phase, reclaimed, fault, calls, failures>>

SetHeaderValid ==
  /\ At("valid")
  /\ flash' = ProgramState(flash, lastOffset, VAR_HEADER_VALID_ONLY)
  /\ Continue("data")
  /\ UNCHANGED <<cache, lastOffset, phase, reclaimed, fault, calls, failures>>

WriteData ==
  /\ At("data")
  /\ flash' = ProgramRange(flash, lastOffset + 1, DataSize[op.value], op.value)
  /\ Continue("added")
  /\ UNCHANGED <<cache, lastOffset, phase, reclaimed, fault, calls, failures>>

(* The last step, the copy in memory and the new end of the log.            *)
SetAdded ==
  /\ At("added")
  /\ flash' = ProgramState(flash, lastOffset, VAR_ADDED)
  /\ cache' = [i \in Place |->
                 IF i = lastOffset THEN NewHeader(op.name, op.value, VAR_ADDED)
                 ELSE IF i \in lastOffset + 1 .. lastOffset + DataSize[op.value]
                 THEN op.value ELSE cache[i]]
  /\ lastOffset' = lastOffset + VarSize(op.value)
  /\ Continue(RemoveOld(op))
  /\ UNCHANGED <<phase, reclaimed, fault, calls, failures>>

OutOfResourcesAtRuntime ==
  /\ At("write") /\ ~Fits /\ phase = "runtime"
  /\ op' = None
  /\ UNCHANGED <<flash, cache, lastOffset, phase, reclaimed, fault, calls, failures>>

(* At boot time Reclaim makes room and integrates the new variable.         *)
ReclaimForVariable ==
  LET buffer == ValidBuffer(flash, op)
      whole  == buffer \o <<NewHeader(op.name, op.value, VAR_ADDED)>>
                  \o [i \in 1 .. DataSize[op.value] |-> op.value]
  IN  /\ At("write") /\ ~Fits /\ phase = "boot"
      /\ \/ /\ Len(whole) > Size
            /\ cache' = flash /\ op' = None
            /\ UNCHANGED <<flash, lastOffset, failures>>
         \/ /\ Len(whole) <= Size
            /\ ReclaimDone(whole)
            /\ op' = [op EXCEPT !.curr = IF @ = 0 THEN 0 ELSE Len(buffer) + 1,
                                !.trans = 0, !.pc = "done"]
            /\ UNCHANGED failures
         \/ /\ Len(whole) <= Size
            /\ ReclaimFailed(whole) /\ op' = None
      /\ UNCHANGED <<phase, reclaimed, fault, calls>>

(* SetVariable returns EFI_SUCCESS.                                         *)
Return ==
  /\ At("done")
  /\ op' = None
  /\ UNCHANGED <<flash, cache, lastOffset, phase, reclaimed, fault, calls, failures>>

-----------------------------------------------------------------------------
(* Errors, power failures and initialisation                                *)

(* What a write that was stopped on the way leaves.                         *)
Interrupted ==
  {flash} \cup
    (IF At("write") /\ Fits THEN {ProgramRange(flash, lastOffset, 1, Torn)}
     ELSE IF At("data")
     THEN {ProgramRange(flash, lastOffset + 1, DataSize[op.value], Torn)}
     ELSE {})

(* UpdateVariable returns the error of UpdateVariableStore.                 *)
FvbError ==
  /\ FvbErrors /\ failures < MaxFailures
  /\ op # None /\ op.pc # "done"
  /\ At("write") => Fits
  /\ flash' \in Interrupted
  /\ fault' = \/ fault
              \/ \E i \in lastOffset .. Size : flash'[i] # Erased
              \/ op.value # None /\ op.pc \in {"deleteTrans", "deleteCurr"}
  /\ op' = None
  /\ failures' = failures + 1
  /\ UNCHANGED <<cache, lastOffset, phase, reclaimed, calls>>

PowerFailure ==
  /\ phase # "off" /\ failures < MaxFailures
  /\ flash' \in Interrupted
  /\ cache' = Blank /\ lastOffset' = 1 /\ reclaimed' = FALSE
  /\ phase' = "off" /\ op' = None
  /\ failures' = failures + 1
  /\ UNCHANGED <<fault, calls>>

(* InitNonVolatileVariableStore                                             *)
Boot ==
  /\ phase = "off"
  /\ cache' = flash
  /\ lastOffset' = EndOfWalk(flash)
  /\ phase' = "read"
  /\ UNCHANGED <<flash, reclaimed, op, fault, calls, failures>>

(* VariableWriteServiceInitialize: the write service is installed whether or
   not the reclaim succeeds.                                                *)
AssumedFree == TRUE                                            \* mutant
FreeAreaIsFree == \A i \in lastOffset .. Size : cache[i] = Erased

WriteServiceInitialize ==
  LET buffer == ValidBuffer(flash, NoUpdate)
  IN  /\ phase = "read"
      /\ \/ /\ FreeAreaIsFree
            /\ UNCHANGED <<flash, cache, lastOffset, fault, failures>>
         \/ /\ ~FreeAreaIsFree
            /\ ReclaimDone(buffer)
            /\ UNCHANGED <<fault, failures>>
         \/ /\ ~FreeAreaIsFree
            /\ ReclaimFailed(buffer)
            /\ fault' = (fault \/ \E i \in lastOffset' .. Size : flash'[i] # Erased)
      /\ phase' = "boot"
      /\ UNCHANGED <<reclaimed, op, calls>>

(* ReclaimForOS, at EndOfDxe or ReadyToBoot.                                *)
ReclaimForOS ==
  LET remaining == IF RuntimeSpace < CommonVariableTotalSize THEN 0
                   ELSE RuntimeSpace - CommonVariableTotalSize
      buffer    == ValidBuffer(flash, NoUpdate)
  IN  /\ phase = "boot" /\ op = None /\ ~reclaimed
      /\ reclaimed' = TRUE
      /\ \/ /\ remaining >= MaxVariableSize
            /\ UNCHANGED <<flash, cache, lastOffset, failures>>
         \/ /\ remaining < MaxVariableSize
            /\ ReclaimDone(buffer)
            /\ UNCHANGED failures
         \/ /\ remaining < MaxVariableSize
            /\ ReclaimFailed(buffer)
      /\ UNCHANGED <<phase, op, fault, calls>>

ExitBootServices ==
  /\ phase = "boot" /\ op = None
  /\ phase' = "runtime"
  /\ UNCHANGED <<flash, cache, lastOffset, reclaimed, op, fault, calls, failures>>

-----------------------------------------------------------------------------

Init ==
  /\ flash = Blank /\ cache = Blank /\ lastOffset = 1
  /\ phase = "off" /\ reclaimed = FALSE /\ op = None
  /\ fault = FALSE /\ calls = 0 /\ failures = 0

(* Steps of SetVariable that leave the runtime cache alone.                 *)
UpdateStep ==
  \/ \E n \in Names, v \in Values \cup {None} : SetVariable(n, v)
  \/ MarkInTransition \/ WriteHeader \/ SetHeaderValid \/ WriteData \/ SetAdded
  \/ DeleteTransition \/ DeleteCurrent
  \/ OutOfResourcesAtRuntime \/ FvbError
  \/ ExitBootServices

(* Steps at whose end the runtime cache is synchronised.                    *)
SyncStep ==
  \/ ReclaimForVariable \/ Return \/ WriteServiceInitialize \/ ReclaimForOS

Next == UpdateStep \/ SyncStep \/ Boot \/ PowerFailure

Spec == Init /\ [][Next]_vars

-----------------------------------------------------------------------------
(* Properties                                                               *)

Cell == Values \cup {Erased, Torn} \cup
        [name : Names, size : {DataSize[v] : v \in Values}, state : SUBSET Bit]
Store == [Place -> Cell]

(* Type correctness of the flash, the copy in memory and the call in
   progress.                                                                *)
TypeOK ==
  /\ flash \in Store /\ cache \in Store /\ lastOffset \in 1 .. Size + 1
  /\ phase \in {"off", "read", "boot", "runtime"}
  /\ reclaimed \in BOOLEAN /\ fault \in BOOLEAN
  /\ op \in Op \cup {None}
  /\ calls \in 0 .. MaxCalls /\ failures \in 0 .. MaxFailures

(* The live copies of a variable that a search of a store does not report.
   Two copies in transition make one (README).                              *)
Unreported(s, n) == LET f == FindVariable(s, n)
                    IN  Copies(s, n) \ {f.curr, f.trans}

(* A live copy of a variable whose pointer the call in progress, or the next
   call, does not have.                                                     *)
NewCopy == IF op.value # None /\ op.pc \in {"deleteTrans", "deleteCurr", "done"}
           THEN lastOffset - VarSize(op.value) ELSE 0
Orphan(n) == (IF op # None /\ op.name = n
              THEN Copies(flash, n) \ {op.curr, op.trans, NewCopy}
              ELSE Unreported(flash, n)) # {}

(* What is stored changes by SetVariable alone: a power failure at any point,
   an interrupted write, garbage collection and initialisation leave every
   variable with the value it had, or, the one that is being set, with the
   new one.                                                                 *)
OnlySetChanges ==
  [][\A n \in Names :
       Value(flash', n) # Value(flash, n) /\ ~Orphan(n) /\ ~fault' =>
         op # None /\ op.name = n /\ Value(flash', n) = op.value]_vars

(* A call of SetVariable that returns success has stored the value, or
   removed the variable, in flash.                                          *)
SetDone ==
  At("done") => fault \/ Orphan(op.name) \/ Value(flash, op.name) = op.value

(* Between calls the copy in memory is what is in flash, its walk ends at the
   next place to write, and the area from there on is erased: no call writes
   over what an interrupted one left behind.                                *)
InSync ==
  phase \in {"boot", "runtime"} /\ op = None =>
    /\ cache = flash /\ lastOffset = EndOfWalk(cache)
    /\ \A i \in lastOffset .. Size : flash[i] = Erased
InSyncWithoutFault == ~fault => InSync

(* "Setting a data variable with no access, or zero DataSize attributes
   causes it to be deleted" (UpdateVariable): after a successful delete the
   variable is gone.                                                        *)
DeleteDeletes == At("done") /\ op.value = None => Value(flash, op.name) = None
=============================================================================
