--------------------------- MODULE VariableCache ----------------------------
(***************************************************************************)
(* The runtime cache of the SMM variable driver (VariableRuntimeCache.c)   *)
(* and the reads the runtime driver serves from it without an SMI          *)
(* (VariableSmmRuntimeDxe.c), composed with the variable store.            *)
(*                                                                         *)
(* SetVariable runs in SMM, where it stops the reader: a reader's step     *)
(* never falls between two steps of a call, but a whole call, made by a    *)
(* driver in SMM, falls between any two steps of the reader.               *)
(***************************************************************************)
EXTENDS VariableStore

(* None is no store.                                                        *)
ASSUME RuntimeCacheAssumption == None \notin Store

VARIABLES
  rt,       \* VariableRuntimeNvCache.Store, or None before it is allocated
  pending,  \* PendingUpdate
  reader    \* the GetVariable in progress, or None

cacheVars == <<rt, pending, reader>>
allVars   == <<vars, cacheVars>>

(* seen collects what the variable was from the beginning of the read on.   *)
Reader == [name : Names, pc : {"sync", "check", "copy", "return"},
           ptr : 0 .. Size, size : 0 .. Size, got : Seq(Values \cup {Torn}),
           missed : BOOLEAN, seen : SUBSET (Values \cup {None, Torn})]

ReadLock == reader # None

(* FlushPendingRuntimeVariableCacheUpdates                                  *)
FlushNothing(store) == pending' = FALSE /\ UNCHANGED rt        \* mutant
Flush(store) == rt' = store /\ pending' = FALSE

(* SynchronizeRuntimeVariableCache, with the copy in memory as it is then.  *)
SyncAnyway ==                                                  \* mutant
  IF rt = None THEN UNCHANGED <<rt, pending>> ELSE Flush(cache')
SynchronizeRuntimeVariableCache ==
  \/ rt = None /\ UNCHANGED <<rt, pending>>
  \/ rt # None /\ ReadLock /\ pending' = TRUE /\ UNCHANGED rt
  \/ rt # None /\ ~ReadLock /\ Flush(cache')

(* A read in progress sees what a call that ends has stored.                *)
Observe ==
  reader' = IF reader = None \/ op' # None THEN reader
            ELSE [reader EXCEPT !.seen = @ \cup {Value(cache', reader.name)}]

(* SMM_VARIABLE_FUNCTION_INIT_RUNTIME_VARIABLE_CACHE_CONTEXT                *)
InitRuntimeCache ==
  /\ phase = "boot" /\ op = None /\ ~reclaimed /\ rt = None
  /\ rt' = Blank /\ pending' = TRUE
  /\ UNCHANGED <<reader, vars>>

-----------------------------------------------------------------------------
(* FindVariableInRuntimeCache                                               *)

Reading(pc) ==
  phase \in {"boot", "runtime"} /\ op = None /\ reader # None /\ reader.pc = pc

BeginRead(n) ==
  /\ phase \in {"boot", "runtime"} /\ op = None /\ rt # None /\ reader = None
  /\ phase = "runtime" => n \in RuntimeNames
  /\ reader' = [name |-> n, pc |-> "sync", ptr |-> 0, size |-> 0,
                got |-> <<>>, missed |-> FALSE, seen |-> {Value(cache, n)}]
  /\ UNCHANGED <<rt, pending, vars>>

(* CheckForRuntimeCacheSync: an SMI if an update is pending.                *)
CheckForRuntimeCacheSync ==
  /\ Reading("sync")
  /\ \/ pending /\ Flush(cache)
     \/ ~pending /\ UNCHANGED <<rt, pending>>
  /\ reader' = [reader EXCEPT !.pc = "check"]
  /\ UNCHANGED vars

(* An update that became pending since ends the read: EFI_NOT_FOUND.        *)
FindInCache ==
  LET p == FindVariable(rt, reader.name).curr
  IN  /\ Reading("check")
      /\ \/ /\ pending
            /\ reader' = [reader EXCEPT !.pc = "return", !.missed = TRUE]
         \/ /\ ~pending /\ p = 0
            /\ reader' = [reader EXCEPT !.pc = "return"]
         \/ /\ ~pending /\ p # 0
            /\ reader' = [reader EXCEPT !.pc = "copy", !.ptr = p,
                                          !.size = rt[p].size]
      /\ UNCHANGED <<rt, pending, vars>>

CopyCell ==
  /\ Reading("copy")
  /\ LET got == Append(reader.got, rt[reader.ptr + Len(reader.got) + 1])
     IN  reader' = [reader EXCEPT !.got = got,
                    !.pc = IF Len(got) = reader.size THEN "return" ELSE "copy"]
  /\ UNCHANGED <<rt, pending, vars>>

EndRead ==
  /\ Reading("return")
  /\ reader' = None
  /\ UNCHANGED <<rt, pending, vars>>

-----------------------------------------------------------------------------

CacheInit == Init /\ rt = None /\ pending = FALSE /\ reader = None

Restart == PowerFailure /\ rt' = None /\ pending' = FALSE /\ reader' = None

CacheNext ==
  \/ UpdateStep /\ Observe /\ UNCHANGED <<rt, pending>>
  \/ SyncStep /\ SynchronizeRuntimeVariableCache /\ Observe
  \/ Boot /\ UNCHANGED cacheVars
  \/ Restart
  \/ InitRuntimeCache
  \/ \E n \in Names : BeginRead(n)
  \/ CheckForRuntimeCacheSync \/ FindInCache \/ CopyCell \/ EndRead

CacheSpec == CacheInit /\ [][CacheNext]_allVars

-----------------------------------------------------------------------------
(* Properties                                                               *)

(* Type correctness of the runtime cache and the read in progress.          *)
CacheTypeOK ==
  /\ TypeOK
  /\ rt \in Store \cup {None} /\ pending \in BOOLEAN
  /\ reader # None => reader \in Reader

Result == IF reader.got = <<>> THEN None
          ELSE IF \A i \in DOMAIN reader.got : reader.got[i] = reader.got[1]
          THEN reader.got[1] ELSE Torn

(* A read without an SMI returns what the variable was at some time between
   its beginning and its end, whole, whatever drivers in SMM store meanwhile:
   the read lock keeps the runtime cache as it is.  The one exception is an
   update that becomes pending between the SMI and the search.              *)
ReadConsistent ==
  /\ reader # None /\ reader.pc = "return" /\ ~reader.missed /\ ~fault
  /\ Unreported(rt, reader.name) = {}
  => Result \in reader.seen

(* Whenever no update is pending and no call is in progress, the runtime
   cache gives for every variable what the store gives.  Left out are variables
   with a copy that no search reports: an update that marks the copy it found
   and then fails for want of space changes what the next search finds, and
   does not synchronise.                                                    *)
RuntimeCacheCurrent ==
  phase \in {"boot", "runtime"} /\ op = None /\ rt # None /\ ~pending /\ ~fault =>
    \A n \in Names : Unreported(rt, n) = {} => Value(rt, n) = Value(cache, n)
=============================================================================
