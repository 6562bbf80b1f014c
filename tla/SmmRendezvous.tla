--------------------------- MODULE SmmRendezvous ----------------------------
(***************************************************************************)
(* The rendezvous of the processors in System Management Mode              *)
(* (UefiCpuPkg/PiSmmCpuDxeSmm/MpService.c).                                *)
(*                                                                         *)
(* An SMI brings the processors into SMM one by one, in any order and with *)
(* any delay.  One of them is the BSP: it gathers the others, runs the SMI *)
(* handlers, which may start procedures on the other processors, and lets  *)
(* all leave together.  The processors share a counter of those that have  *)
(* checked in, a Run semaphore and a Busy lock each, and a few flags.      *)
(*                                                                         *)
(* A step is one access to shared memory.  Two are merged: WaitForAllAPs,  *)
(* which takes as many from the BSP's own semaphore as there are APs (only *)
(* the BSP takes from it), and a loop over the processors.  Timers may     *)
(* expire at any time.  The platform hooks are external: an SMI sets a     *)
(* status bit, PlatformValidSmi reads it and ClearTopLevelSmiStatus clears *)
(* it; the platform leaves the election of the BSP to the default.         *)
(***************************************************************************)
EXTENDS Integers, FiniteSets

CONSTANTS
  Cpus,
  None,
  SyncModes,       \* the values of EffectiveSyncMode: "tradition", "relaxed"
  BroadcastModes,  \* those in which handlers call SmmStartupAllAPs
  Elections,       \* the values of PcdCpuSmmEnableBspElection
  ConfigureMtrrs,  \* the values of SmmCpuFeaturesNeedConfigureMtrrs
  BlockStartups,   \* the values of PcdCpuSmmBlockStartupThisAp
  MaxSmi,          \* bound: SMIs
  MaxProcedures    \* bound: procedures the handlers start

ASSUME SmmAssumption ==
  /\ IsFiniteSet(Cpus) /\ Cpus # {}
  /\ None \notin Cpus /\ None \notin Int /\ \A S \in SUBSET Cpus : None # S
  /\ None \notin [cpu : Cpus, proc : Int]
  /\ SyncModes \subseteq {"tradition", "relaxed"} /\ BroadcastModes \subseteq SyncModes
  /\ Elections \subseteq BOOLEAN /\ ConfigureMtrrs \subseteq BOOLEAN
  /\ BlockStartups \subseteq BOOLEAN
  /\ MaxSmi \in Nat /\ MaxProcedures \in Nat

VARIABLES
  config,     \* EffectiveSyncMode, and the settings the build and the platform make
  smi,        \* SMIs so far, the status bit, and whom an SMI is pending for
  pc, valid,  \* where a processor is; its ValidSmi and BspInProgress
  sync,       \* mSmmMpSyncData: Counter, InsideSmm, AllCpusInSync, BspIndex
  cpu,        \* mSmmMpSyncData->CpuData: Run, Busy, Present, Procedure
  bsp,        \* the BSP's ApCount, whose Busy lock it waits for, and for which
              \* procedure
  mtrr,       \* history: whose MTRRs a processor has, and if it saved them
  token,      \* RunningApCount of the token of each procedure
  assigned,   \* history: who has still to run each procedure
  wrap        \* ApWrapperFunc; history: the call of SmmStartupThisAp in progress,
              \* the procedures it started, and those overwritten before their call

vars == <<config, smi, pc, valid, sync, cpu, bsp, mtrr, token, assigned, wrap>>

NumberOfCpus == Cardinality(Cpus)
Procedures == 1 .. MaxProcedures
started == {k \in Procedures : assigned[k] # None}

(* SmmCpuSyncModeTradition, or MTRRs to configure: the BSP gathers the APs
   before it runs the handlers; else after.                                 *)
GatherFirst == config.mode = "tradition" \/ config.mtrrs

Goto(c, next) == pc' = [pc EXCEPT ![c] = next]
Step(c, from, next) == pc[c] = from /\ Goto(c, next)

-----------------------------------------------------------------------------
(* Semaphores                                                               *)

Run(c)     == cpu[c].run
IsPresentAp(b, c) == c # b /\ cpu[c].present

(* ReleaseSemaphore and WaitForSemaphore on a Run semaphore.                *)
Released(data, c) == [data EXCEPT ![c].run = @ + 1]
Taken(data, c)    == [data EXCEPT ![c].run = @ - 1]

ReleasedOthers(b) ==                                           \* mutant
  [c \in Cpus |-> IF c # b THEN [cpu[c] EXCEPT !.run = @ + 1] ELSE cpu[c]]
(* ReleaseAllAPs                                                            *)
ReleasedAPs(b) ==
  [c \in Cpus |-> IF IsPresentAp(b, c) THEN [cpu[c] EXCEPT !.run = @ + 1] ELSE cpu[c]]

(* WaitForAllAPs: what the BSP takes before it goes on.                     *)
Gathered(b) == Run(b) >= bsp.apCount
Gather(data, b) == [data EXCEPT ![b].run = @ - bsp.apCount]

(* The counter is locked down at -1.                                        *)
Locked == -1

-----------------------------------------------------------------------------
(* SmiRendezvous                                                            *)

Smi ==
  /\ smi.count < MaxSmi
  /\ smi' = [count |-> smi.count + 1, status |-> TRUE, pending |-> Cpus]
  /\ UNCHANGED <<config, pc, valid, sync, cpu, bsp, mtrr, token, assigned, wrap>>

SendSmiIpi(targets) == smi' = [smi EXCEPT !.pending = @ \cup targets]

(* A processor enters SMM and samples ValidSmi, ...                         *)
Enter(c) ==
  /\ c \in smi.pending
  /\ Step(c, "out", "sample")
  /\ smi' = [smi EXCEPT !.pending = @ \ {c}]
  /\ valid' = [valid EXCEPT ![c].smi = smi.status]
  /\ UNCHANGED <<config, sync, cpu, bsp, mtrr, token, assigned, wrap>>

(* ... then BspInProgress; with neither there is nothing to do.             *)
Sample(c) ==
  /\ Step(c, "sample", IF sync.inside \/ valid[c].smi THEN "checkin" ELSE "out")
  /\ valid' = [valid EXCEPT ![c].bsp = sync.inside]
  /\ UNCHANGED <<config, smi, sync, cpu, bsp, mtrr, token, assigned, wrap>>

CheckIn(c) ==
  /\ \/ /\ sync.counter = Locked
        /\ Step(c, "checkin", "leave")
        /\ UNCHANGED <<sync, cpu>>
     \/ /\ sync.counter # Locked
        /\ Step(c, "checkin", IF valid[c].bsp THEN "waitBsp" ELSE "elect")
        /\ sync' = [sync EXCEPT !.counter = @ + 1]
        /\ cpu' = [cpu EXCEPT ![c].busy = FALSE]
  /\ UNCHANGED <<config, smi, valid, bsp, mtrr, token, assigned, wrap>>

ElectLast(c) ==                                                \* mutant
  /\ pc[c] = "elect"
  /\ sync' = IF config.election THEN [sync EXCEPT !.bsp = c] ELSE sync
  /\ Goto(c, IF sync'.bsp = c THEN "bspInside" ELSE "waitBsp")
  /\ UNCHANGED <<config, smi, valid, cpu, bsp, mtrr, token, assigned, wrap>>
(* With BSP election the first to come is the BSP.                          *)
Elect(c) ==
  /\ pc[c] = "elect"
  /\ sync' = IF config.election /\ sync.bsp = None THEN [sync EXCEPT !.bsp = c] ELSE sync
  /\ Goto(c, IF sync'.bsp = c THEN "bspInside" ELSE "waitBsp")
  /\ UNCHANGED <<config, smi, valid, cpu, bsp, mtrr, token, assigned, wrap>>

(* All wait for the end of the run.                                         *)
Leave(c) ==
  /\ ~sync.allInSync
  /\ Step(c, "leave", "out")
  /\ UNCHANGED <<config, smi, valid, sync, cpu, bsp, mtrr, token, assigned, wrap>>

-----------------------------------------------------------------------------
(* BSPHandler                                                               *)

BspInside(c) ==
  /\ Step(c, "bspInside", "bspPresent")
  /\ sync' = [sync EXCEPT !.inside = TRUE]
  /\ UNCHANGED <<config, smi, valid, cpu, bsp, mtrr, token, assigned, wrap>>

(* Present, then ClearTopLevelSmiStatus.                                    *)
BspPresent(c) ==
  /\ Step(c, "bspPresent", IF GatherFirst THEN "arrival" ELSE "handlers")
  /\ cpu' = [cpu EXCEPT ![c].present = TRUE]
  /\ smi' = [smi EXCEPT !.status = FALSE]
  /\ UNCHANGED <<config, valid, sync, bsp, mtrr, token, assigned, wrap>>

ArrivalWithoutIpi(c) ==                                        \* mutant
  /\ Step(c, "arrival", IF sync.counter < NumberOfCpus THEN "arrivalAgain" ELSE "lock")
  /\ UNCHANGED <<config, smi, valid, sync, cpu, bsp, mtrr, token, assigned, wrap>>
(* SmmWaitForApArrival: both waits end when all are in, or by a timeout.     *)
Arrival(c) ==
  /\ \/ /\ sync.counter < NumberOfCpus
        /\ Step(c, "arrival", "arrivalAgain")
        /\ SendSmiIpi({d \in Cpus : ~cpu[d].present})
     \/ /\ sync.counter >= NumberOfCpus
        /\ Step(c, "arrival", "lock")
        /\ UNCHANGED smi
  /\ UNCHANGED <<config, valid, sync, cpu, bsp, mtrr, token, assigned, wrap>>
ArrivalAgain(c) ==
  /\ Step(c, "arrivalAgain", "lock")
  /\ UNCHANGED <<config, smi, valid, sync, cpu, bsp, mtrr, token, assigned, wrap>>

(* AllCpusInSync, then LockdownSemaphore.                                   *)
SetAllInSync(c) ==
  /\ Step(c, "lock", "lockdown")
  /\ sync' = [sync EXCEPT !.allInSync = TRUE]
  /\ UNCHANGED <<config, smi, valid, cpu, bsp, mtrr, token, assigned, wrap>>

LockdownEarly(c) ==                                            \* mutant
  /\ Step(c, "lockdown", IF GatherFirst THEN "gather" ELSE "exit")
  /\ sync' = [sync EXCEPT !.counter = Locked]
  /\ bsp' = [bsp EXCEPT !.apCount = sync.counter - 1]
  /\ UNCHANGED <<config, smi, valid, cpu, mtrr, token, assigned, wrap>>
Lockdown(c) ==
  /\ Step(c, "lockdown", IF GatherFirst THEN "gather" ELSE "allPresent")
  /\ sync' = [sync EXCEPT !.counter = Locked]
  /\ bsp' = [bsp EXCEPT !.apCount = sync.counter - 1]
  /\ UNCHANGED <<config, smi, valid, cpu, mtrr, token, assigned, wrap>>

(* WaitForAllAPs, and ReleaseAllAPs where it follows.                       *)
GatherNext(p) ==
  CASE p = "gather"       -> IF config.mtrrs THEN "mtrrSave" ELSE "handlers"
    [] p = "mtrrSaved"    -> "mtrrSet"
    [] p = "mtrrDone"     -> "handlers"
    [] p = "gatherExit"   -> IF config.mtrrs THEN "mtrrRestore" ELSE "reset"
    [] p = "mtrrRestored" -> "reset"
ReleasesAfter(p) == GatherNext(p) # "handlers"
WaitForAllAPs(c) ==
  /\ pc[c] \in {"gather", "mtrrSaved", "mtrrDone", "gatherExit", "mtrrRestored"}
  /\ Gathered(c)
  /\ cpu' = Gather(IF ReleasesAfter(pc[c]) THEN ReleasedAPs(c) ELSE cpu, c)
  /\ Goto(c, GatherNext(pc[c]))
  /\ UNCHANGED <<config, smi, valid, sync, bsp, mtrr, token, assigned, wrap>>

MtrrsAtOnce(c) ==                                              \* mutant
  /\ \/ Step(c, "mtrrSave", "mtrrSaved") /\ mtrr' = [mtrr EXCEPT ![c] = "smm"]
     \/ Step(c, "mtrrSet", "mtrrDone") /\ UNCHANGED mtrr
     \/ Step(c, "mtrrRestore", "mtrrRestored") /\ mtrr' = [mtrr EXCEPT ![c] = "os"]
  /\ UNCHANGED <<config, smi, valid, sync, cpu, bsp, token, assigned, wrap>>
(* The BSP's own MTRRs, while the APs see to theirs.                        *)
BspMtrrs(c) ==
  /\ \/ Step(c, "mtrrSave", "mtrrSaved") /\ mtrr' = [mtrr EXCEPT ![c] = "saved"]
     \/ Step(c, "mtrrSet", "mtrrDone") /\ mtrr' = [mtrr EXCEPT ![c] = "smm"]
     \/ Step(c, "mtrrRestore", "mtrrRestored") /\ mtrr' = [mtrr EXCEPT ![c] = "os"]
  /\ UNCHANGED <<config, smi, valid, sync, cpu, bsp, token, assigned, wrap>>

(* The handlers are done: WaitForAllAPsNotBusy.                             *)
HandlersDone(c) ==
  /\ wrap.call = None
  /\ Step(c, "handlers", "drain")
  /\ bsp' = [bsp EXCEPT !.waitFor = {d \in Cpus : IsPresentAp(c, d)}]
  /\ UNCHANGED <<config, smi, valid, sync, cpu, mtrr, token, assigned, wrap>>
NotWaitedFor == TRUE                                           \* mutant
NotBusy == \A d \in bsp.waitFor : ~cpu[d].busy
Drained(c) ==
  /\ NotBusy
  /\ Step(c, "drain", IF GatherFirst THEN "exit" ELSE "lock")
  /\ UNCHANGED <<config, smi, valid, sync, cpu, bsp, mtrr, token, assigned, wrap>>

(* Relaxed mode: every AP that checked in has its Present flag set.         *)
AllPresent(c) ==
  /\ Cardinality({d \in Cpus : cpu[d].present}) > bsp.apCount
  /\ Step(c, "allPresent", "exit")
  /\ UNCHANGED <<config, smi, valid, sync, cpu, bsp, mtrr, token, assigned, wrap>>

ClearAtExit(c) ==                                              \* mutant
  /\ Step(c, "exit", "release")
  /\ sync' = [sync EXCEPT !.inside = FALSE]
  /\ smi' = [smi EXCEPT !.status = FALSE]
  /\ UNCHANGED <<config, valid, cpu, bsp, mtrr, token, assigned, wrap>>
BspExit(c) ==
  /\ Step(c, "exit", "release")
  /\ sync' = [sync EXCEPT !.inside = FALSE]
  /\ UNCHANGED <<config, smi, valid, cpu, bsp, mtrr, token, assigned, wrap>>
ReleaseToExit(c) ==
  /\ Step(c, "release", "gatherExit")
  /\ cpu' = ReleasedAPs(c)
  /\ UNCHANGED <<config, smi, valid, sync, bsp, mtrr, token, assigned, wrap>>

BspAbsent(c) ==
  /\ Step(c, "reset", "gatherEnd")
  /\ cpu' = [cpu EXCEPT ![c].present = FALSE]
  /\ UNCHANGED <<config, smi, valid, sync, bsp, mtrr, token, assigned, wrap>>
GatherEnd(c) ==
  /\ Gathered(c)
  /\ Step(c, "gatherEnd", "reopen")
  /\ cpu' = Gather(cpu, c)
  /\ sync' = IF config.election THEN [sync EXCEPT !.bsp = None] ELSE sync
  /\ UNCHANGED <<config, smi, valid, bsp, mtrr, token, assigned, wrap>>

(* Counter, then AllCpusInSync: processors may check in again.              *)
Reopen(c) ==
  /\ \/ Step(c, "reopen", "unsync") /\ sync' = [sync EXCEPT !.counter = 0]
     \/ Step(c, "unsync", "leave") /\ sync' = [sync EXCEPT !.allInSync = FALSE]
  /\ UNCHANGED <<config, smi, valid, cpu, bsp, mtrr, token, assigned, wrap>>

-----------------------------------------------------------------------------
(* Procedures the handlers start                                            *)

NewProcedure(k) == k \notin started /\ \A j \in Procedures : j < k => j \in started

StartupBusyAp(b, c, k, blocking) ==                            \* mutant
  /\ pc[b] = "handlers" /\ IsPresentAp(b, c) /\ NewProcedure(k)
  /\ cpu' = [cpu EXCEPT ![c].busy = TRUE, ![c].proc = k, ![c].run = @ + 1]
  /\ token' = [token EXCEPT ![k] = IF blocking THEN None ELSE 1]
  /\ assigned' = [assigned EXCEPT ![k] = {c}]
  /\ bsp' = [bsp EXCEPT !.waitFor = {c}]
  /\ Goto(b, IF blocking THEN "blocked" ELSE "handlers")
  /\ UNCHANGED <<config, smi, valid, sync, mtrr>>
(* InternalSmmStartupThisAp, from the wait for Busy on.  token[k] is None when
   the call blocks; one without a token has here the count it would have.   *)
InternalSmmStartupThisAp(b, c, k, blocking) ==
  /\ pc[b] = "handlers" /\ IsPresentAp(b, c) /\ ~cpu[c].busy /\ NewProcedure(k)
  /\ cpu' = [cpu EXCEPT ![c].busy = TRUE, ![c].proc = k, ![c].run = @ + 1]
  /\ token' = [token EXCEPT ![k] = IF blocking THEN None ELSE 1]
  /\ assigned' = [assigned EXCEPT ![k] = {c}]
  /\ bsp' = [bsp EXCEPT !.waitFor = {c}]
  /\ Goto(b, IF blocking THEN "blocked" ELSE "handlers")
  /\ UNCHANGED <<config, smi, valid, sync, mtrr>>

(* SmmBlockingStartupThisAp, and the MM MP protocol, with a token or without. *)
StartupThisAp(b, c, k, blocking) ==
  /\ wrap.call = None
  /\ InternalSmmStartupThisAp(b, c, k, blocking)
  /\ UNCHANGED wrap

(* SmmStartupThisAp: the procedure goes to ApWrapperFunc[c], whoever may still
   have to read it there; then the wrapper is started like a procedure.  (Of a
   call that is rejected, c not being a present AP, nobody reads what it
   stores.)                                                                 *)
Unread(c) == {j \in wrap.calls : c \in assigned[j]}
StoreWrapper(b, c, k) ==
  /\ pc[b] = "handlers" /\ wrap.call = None
  /\ IsPresentAp(b, c) /\ NewProcedure(k)
  /\ wrap' = [wrap EXCEPT !.func[c] = k, !.call = [cpu |-> c, proc |-> k],
                          !.lost = @ \cup Unread(c)]
  /\ UNCHANGED <<config, smi, pc, valid, sync, cpu, bsp, mtrr, token, assigned>>
SmmStartupThisAp(b, c, k) ==
  /\ wrap.call = [cpu |-> c, proc |-> k]
  /\ InternalSmmStartupThisAp(b, c, k, config.block)
  /\ wrap' = [wrap EXCEPT !.call = None, !.calls = @ \cup {k}]

(* InternalSmmStartupAllAPs.  Each of its loops looks at the Present flags.  *)
StartupAllAPs(b, k, blocking) ==
  LET aps == {c \in Cpus : IsPresentAp(b, c)}
  IN  /\ pc[b] = "handlers" /\ config.mode \in BroadcastModes /\ NewProcedure(k)
      /\ wrap.call = None
      /\ aps # {} /\ \A c \in aps : ~cpu[c].busy
      /\ token' = [token EXCEPT ![k] = IF blocking THEN None ELSE NumberOfCpus]
      /\ assigned' = [assigned EXCEPT ![k] = {}]
      /\ bsp' = [bsp EXCEPT !.proc = k]
      /\ Goto(b, "acquire")
      /\ UNCHANGED <<config, smi, valid, sync, cpu, mtrr, wrap>>
AcquireAllBusy(b) ==
  /\ Step(b, "acquire", "schedule")
  /\ cpu' = [c \in Cpus |->
               IF IsPresentAp(b, c) THEN [cpu[c] EXCEPT !.busy = TRUE] ELSE cpu[c]]
  /\ UNCHANGED <<config, smi, valid, sync, bsp, mtrr, token, assigned, wrap>>
ScheduleAll(b) ==
  LET aps == {c \in Cpus : IsPresentAp(b, c)}
      k   == bsp.proc
  IN  /\ Step(b, "schedule", "start")
      /\ cpu' = [c \in Cpus |-> IF c \in aps THEN [cpu[c] EXCEPT !.proc = k] ELSE cpu[c]]
      /\ token' = [token EXCEPT ![k] =
                     IF @ = None THEN None ELSE @ - Cardinality(Cpus \ aps)]
      /\ assigned' = [assigned EXCEPT ![k] = aps]
      /\ UNCHANGED <<config, smi, valid, sync, bsp, mtrr, wrap>>
StartAll(b) ==
  /\ Step(b, "start", IF token[bsp.proc] = None THEN "blocked" ELSE "handlers")
  /\ cpu' = ReleasedAPs(b)
  /\ bsp' = [bsp EXCEPT !.waitFor = {c \in Cpus : IsPresentAp(b, c)}]
  /\ UNCHANGED <<config, smi, valid, sync, mtrr, token, assigned, wrap>>

Unblock(b) ==
  /\ NotBusy
  /\ Step(b, "blocked", "handlers")
  /\ UNCHANGED <<config, smi, valid, sync, cpu, bsp, mtrr, token, assigned, wrap>>

-----------------------------------------------------------------------------
(* APHandler                                                                *)

SeeBsp(c) ==
  /\ sync.inside
  /\ pc[c] \in {"waitBsp", "waitBspAgain"} /\ Goto(c, "apPresent")
  /\ UNCHANGED <<config, smi, valid, sync, cpu, bsp, mtrr, token, assigned, wrap>>

(* The first timeout: send an SMI to the BSP if it is known.                *)
BspTimeout(c) ==
  /\ ~sync.inside
  /\ \/ /\ sync.bsp # None
        /\ Step(c, "waitBsp", "waitBspAgain")
        /\ SendSmiIpi({sync.bsp})
     \/ /\ sync.bsp = None
        /\ Step(c, "waitBsp", "giveUp")
        /\ UNCHANGED smi
     \/ /\ Step(c, "waitBspAgain", "giveUp")
        /\ UNCHANGED smi
  /\ UNCHANGED <<config, valid, sync, cpu, bsp, mtrr, token, assigned, wrap>>

GiveUp(c) ==
  /\ sync.counter # 0
  /\ Step(c, "giveUp", "leave")
  /\ sync' = [sync EXCEPT !.counter = @ - 1]
  /\ UNCHANGED <<config, smi, valid, cpu, bsp, mtrr, token, assigned, wrap>>

ApPresent(c) ==
  /\ Step(c, "apPresent", IF GatherFirst THEN "apArrived" ELSE "apLoop")
  /\ cpu' = [cpu EXCEPT ![c].present = TRUE]
  /\ UNCHANGED <<config, smi, valid, sync, bsp, mtrr, token, assigned, wrap>>

(* ReleaseSemaphore on the BSP's Run.  BspIndex keeps its value until all
   APs have done so for the last time.                                      *)
SignalNext(p) ==
  CASE p = "apArrived" -> IF config.mtrrs THEN "apSave" ELSE "apLoop"
    [] p = "apSaved"   -> "apSet"
    [] p = "apSetDone" -> "apLoop"
    [] p = "apExit"    -> "apRestore"
    [] p = "apReady"   -> "apReset"
    [] p = "apDone"    -> "leave"
ApSignal(c) ==
  /\ pc[c] \in {"apArrived", "apSaved", "apSetDone", "apExit", "apReady", "apDone"}
  /\ cpu' = Released(cpu, sync.bsp)
  /\ Goto(c, SignalNext(pc[c]))
  /\ UNCHANGED <<config, smi, valid, sync, bsp, mtrr, token, assigned, wrap>>

(* WaitForSemaphore on the AP's own Run, and what it does then.             *)
ApMtrrs(c) ==
  /\ Run(c) > 0 /\ cpu' = Taken(cpu, c)
  /\ \/ Step(c, "apSave", "apSaved") /\ mtrr' = [mtrr EXCEPT ![c] = "saved"]
     \/ Step(c, "apSet", "apSetDone") /\ mtrr' = [mtrr EXCEPT ![c] = "smm"]
     \/ Step(c, "apRestore", "apReady") /\ mtrr' = [mtrr EXCEPT ![c] = "os"]
  /\ UNCHANGED <<config, smi, valid, sync, bsp, token, assigned, wrap>>
ApWake(c) ==
  /\ Run(c) > 0
  /\ Step(c, "apLoop", "apCheck")
  /\ cpu' = Taken(cpu, c)
  /\ UNCHANGED <<config, smi, valid, sync, bsp, mtrr, token, assigned, wrap>>
ApReset(c) ==
  /\ Run(c) > 0
  /\ Step(c, "apReset", "apDone")
  /\ cpu' = [Taken(cpu, c) EXCEPT ![c].present = FALSE]
  /\ UNCHANGED <<config, smi, valid, sync, bsp, mtrr, token, assigned, wrap>>

ApCheck(c) ==
  /\ Step(c, "apCheck", IF sync.inside THEN "apExec"
                        ELSE IF config.mtrrs THEN "apExit" ELSE "apReady")
  /\ UNCHANGED <<config, smi, valid, sync, cpu, bsp, mtrr, token, assigned, wrap>>

(* What the AP calls: ProcedureWrapper finds the procedure in ApWrapperFunc. *)
Callee(c) == IF cpu[c].proc \in wrap.calls THEN wrap.func[c] ELSE cpu[c].proc

(* The procedure, or its wrapper, then ReleaseToken.                        *)
ApExec(c) ==
  LET k == cpu[c].proc
  IN  /\ Step(c, "apExec", "apIdle")
      /\ k # None
      /\ assigned' = [assigned EXCEPT ![k] = @ \ {c}]
      /\ token' = [token EXCEPT ![k] = IF @ = None THEN None ELSE @ - 1]
      /\ UNCHANGED <<config, smi, valid, sync, cpu, bsp, mtrr, wrap>>
ApIdle(c) ==
  /\ Step(c, "apIdle", "apLoop")
  /\ cpu' = [cpu EXCEPT ![c].busy = FALSE]
  /\ UNCHANGED <<config, smi, valid, sync, bsp, mtrr, token, assigned, wrap>>

-----------------------------------------------------------------------------
(* InitializeMpSyncData: without BSP election BspIndex is set once.          *)
Init ==
  /\ config \in [mode : SyncModes, election : Elections, mtrrs : ConfigureMtrrs,
                block : BlockStartups]
  /\ smi = [count |-> 0, status |-> FALSE, pending |-> {}]
  /\ pc = [c \in Cpus |-> "out"]
  /\ valid = [c \in Cpus |-> [smi |-> FALSE, bsp |-> FALSE]]
  /\ sync \in [counter : {0}, inside : {FALSE}, allInSync : {FALSE},
               bsp : IF config.election THEN {None} ELSE Cpus]
  /\ cpu = [c \in Cpus |-> [run |-> 0, busy |-> FALSE, present |-> FALSE, proc |-> None]]
  /\ bsp = [apCount |-> 0, waitFor |-> {}, proc |-> None]
  /\ mtrr = [c \in Cpus |-> "os"]
  /\ token = [k \in Procedures |-> None]
  /\ assigned = [k \in Procedures |-> None]
  /\ wrap = [func |-> [c \in Cpus |-> None], call |-> None, calls |-> {}, lost |-> {}]

SmiRendezvous(c) == Sample(c) \/ CheckIn(c) \/ Elect(c) \/ Leave(c)

BSPHandler(c) ==
  \/ BspInside(c) \/ BspPresent(c)
  \/ Arrival(c) \/ ArrivalAgain(c) \/ SetAllInSync(c) \/ Lockdown(c)
  \/ WaitForAllAPs(c) \/ BspMtrrs(c)
  \/ HandlersDone(c) \/ Drained(c) \/ AllPresent(c)
  \/ BspExit(c) \/ ReleaseToExit(c) \/ BspAbsent(c) \/ GatherEnd(c) \/ Reopen(c)

Handlers(b) ==
  \/ \E c \in Cpus, k \in Procedures, blocking \in BOOLEAN : StartupThisAp(b, c, k, blocking)
  \/ \E c \in Cpus, k \in Procedures : StoreWrapper(b, c, k) \/ SmmStartupThisAp(b, c, k)
  \/ \E k \in Procedures, blocking \in BOOLEAN : StartupAllAPs(b, k, blocking)
  \/ AcquireAllBusy(b) \/ ScheduleAll(b) \/ StartAll(b) \/ Unblock(b)

APHandler(c) ==
  \/ SeeBsp(c) \/ BspTimeout(c) \/ GiveUp(c) \/ ApPresent(c)
  \/ ApSignal(c) \/ ApMtrrs(c) \/ ApWake(c) \/ ApReset(c)
  \/ ApCheck(c) \/ ApExec(c) \/ ApIdle(c)

Inside(c) == SmiRendezvous(c) \/ BSPHandler(c) \/ Handlers(c) \/ APHandler(c)

Next == Smi \/ \E c \in Cpus : Enter(c) \/ Inside(c)

(* A processor in SMM goes on, and its timers expire.  Of those outside, one
   for which an SMI is pending enters at last, and so does a BSP that was not
   elected; any other may stay blocked for ever.                            *)
Fairness ==
  /\ \A c \in Cpus : WF_vars(Inside(c)) /\ WF_vars(c = sync.bsp /\ Enter(c))
  /\ WF_vars(\E c \in Cpus : Enter(c))

Spec == Init /\ [][Next]_vars /\ Fairness

(* What the code expects of its timeouts: "Please make sure
   PcdCpuSmmMaxSyncLoops has been set to a large enough value".  The BSP does
   not end a wait for the APs, or close the counter, while a processor is on
   the way out: an AP that gives up, the last BSP about to clear
   AllCpusInSync.                                                           *)
OnTheWayOut == {c \in Cpus : pc[c] \in {"giveUp", "unsync"}}
Timing == \A b \in Cpus : (Arrival(b) \/ SetAllInSync(b)) => OnTheWayOut = {}
TimelySpec == Init /\ [][Next /\ Timing]_vars /\ Fairness

-----------------------------------------------------------------------------
(* Properties                                                               *)

Outside == {"out", "leave"}
BspPcs == {"bspInside", "bspPresent", "arrival", "arrivalAgain", "lock", "lockdown",
           "gather", "mtrrSave", "mtrrSaved", "mtrrSet", "mtrrDone", "handlers",
           "acquire", "schedule", "start", "blocked", "drain", "allPresent", "exit",
           "release", "gatherExit", "mtrrRestore", "mtrrRestored", "reset",
           "gatherEnd", "reopen", "unsync"}
ApPcs == {"sample", "checkin", "elect", "waitBsp", "waitBspAgain", "giveUp", "apPresent",
          "apArrived", "apSave", "apSaved", "apSet", "apSetDone", "apLoop", "apCheck",
          "apExec", "apIdle", "apExit", "apRestore", "apReady", "apReset", "apDone"}
Running == {"handlers", "acquire", "schedule", "start", "blocked", "drain"}

(* Type invariant of the rendezvous: mSmmMpSyncData and the processors'
   places in SmiRendezvous.                                                 *)
TypeOK ==
  /\ config \in [mode : SyncModes, election : Elections, mtrrs : ConfigureMtrrs,
                block : BlockStartups]
  /\ smi \in [count : 0 .. MaxSmi, status : BOOLEAN, pending : SUBSET Cpus]
  /\ pc \in [Cpus -> Outside \cup BspPcs \cup ApPcs]
  /\ valid \in [Cpus -> [smi : BOOLEAN, bsp : BOOLEAN]]
  /\ sync \in [counter : Locked .. NumberOfCpus, inside : BOOLEAN, allInSync : BOOLEAN,
               bsp : Cpus \cup {None}]
  /\ cpu \in [Cpus -> [run : 0 .. NumberOfCpus, busy : BOOLEAN, present : BOOLEAN,
                       proc : Procedures \cup {None}]]
  /\ bsp \in [apCount : 0 .. NumberOfCpus - 1, waitFor : SUBSET Cpus,
              proc : Procedures \cup {None}]
  /\ mtrr \in [Cpus -> {"os", "saved", "smm"}]
  /\ token \in [Procedures -> (0 .. NumberOfCpus) \cup {None}]
  /\ assigned \in [Procedures -> (SUBSET Cpus) \cup {None}]
  /\ wrap \in [func : [Cpus -> Procedures \cup {None}],
                call : [cpu : Cpus, proc : Procedures] \cup {None},
                calls : SUBSET Procedures, lost : SUBSET Procedures]

(* One processor at a time is in BSPHandler, up to the store that reopens the
   counter, and it is the one BspIndex names.                               *)
OneBsp ==
  \A c, d \in Cpus :
    /\ pc[c] \in BspPcs \ {"unsync"} /\ pc[d] \in BspPcs \ {"unsync"} => c = d
    /\ pc[c] \in BspPcs \ {"reopen", "unsync"} => sync.bsp = c

(* APHandler calls only a procedure that was given to this processor and that
   it has not called yet; and it is this one it calls, unless SmmStartupThisAp
   is not blocking and was called again for the processor too early.        *)
ProcedureOnce ==
  \A c \in Cpus : pc[c] = "apExec" =>
    /\ cpu[c].proc \in started /\ c \in assigned[cpu[c].proc]
    /\ Callee(c) = cpu[c].proc \/ (~config.block /\ cpu[c].proc \in wrap.lost)

(* SmmStartupThisAp: "EFI_SUCCESS: The procedure has been successfully
   scheduled".  What an AP calls is the procedure that was scheduled.       *)
ScheduledCalled ==
  \A c \in Cpus : pc[c] = "apExec" => Callee(c) = cpu[c].proc

(* The assertion of APHandler and its comment: "BUSY should be acquired by
   SmmStartupThisAp()" when an AP is woken to run a procedure.              *)
BusyAcquired == \A c \in Cpus : pc[c] = "apExec" => cpu[c].busy

(* The BSP returns from a blocking call, and leaves SMM, with nothing left to
   do: every processor has called what it was given, and the tokens are free. *)
ProceduresDone ==
  /\ \A b \in Cpus : pc[b] = "handlers" =>
       \A k \in started : token[k] = None => assigned[k] = {}
  /\ ~sync.inside => \A k \in started : assigned[k] = {} /\ token[k] \in {0, None}

(* A processor that leaves has used up its semaphore and is marked absent:
   the assertion at the end of SmiRendezvous, on which the next run builds.  *)
SemaphoresDrained ==
  \A c \in Cpus : pc[c] \in Outside => Run(c) = 0 /\ ~cpu[c].present

(* In traditional mode no processor runs normal mode code while the handlers
   run: one that is not in SMM has an SMI pending (SmmWaitForApArrival).    *)
NormalModeExcluded ==
  GatherFirst /\ (\E b \in Cpus : pc[b] \in Running) =>
    \A c \in Cpus : pc[c] = "out" => c \in smi.pending

(* Threads of a core share MTRRs: none is replaced before all that take part
   have saved theirs, none restored while a handler or a procedure may run,
   and a processor leaves with its own.                                     *)
MtrrsTogether ==
  LET part == {c \in Cpus : cpu[c].present}
  IN  /\ (\E c \in part : mtrr[c] = "smm") /\ sync.inside => \A c \in part : mtrr[c] # "os"
      /\ config.mtrrs /\ (\E b \in Cpus : pc[b] \in Running) => \A c \in part : mtrr[c] = "smm"
      /\ \A c \in Cpus : pc[c] \in Outside => mtrr[c] = "os"

(* No processor stays in SMM: neither the BSP, waiting for APs, nor an AP,
   waiting for a BSP that does not come or that it missed.  The exception is
   the one of the comments in BSPHandler ("may wait for ever"): an AP takes
   itself out of the counter after the BSP has closed it and counted the AP. *)
GaveUpLate == sync.counter < Locked
EveryoneLeaves == \A c \in Cpus : pc[c] # "out" ~> pc[c] = "out" \/ GaveUpLate

(* An SMI is followed by a run of the handlers, with the same exception: none
   is lost, though the BSP clears the status bit and processors ignore an SMI
   without it.                                                              *)
SmiHandled == smi.status ~> (\E c \in Cpus : pc[c] = "handlers") \/ GaveUpLate

=============================================================================
