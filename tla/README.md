# Verification of EDK II core services

TLA+ models of six services of EDK II (UEFI firmware) on which almost all of
the rest relies, the TLC runs that check them on small instances, and theorems
about all six that TLAPS has checked for all instances.

| module | what it is | code |
|---|---|---|
| `DxeEvent` | events, notification dispatch, task priority levels, `EFI_LOCK`s, protocol notifications | `MdeModulePkg/Core/Dxe/Event/{Event,Tpl}.c`, `Library/Library.c`, `Hand/Notify.c`, parts of `Hand/Handle.c` |
| `DxeEventProofs`, `DxeEventSignalProofs` | theorems about `DxeEvent`: nesting and levels; signals, protocol notifications and closing | |
| `DxeTimer` | `SetTimer`, the timer tick and the check of expired timers | `MdeModulePkg/Core/Dxe/Event/Timer.c` |
| `DxeDispatcher` | discovery, scheduling and start of DXE drivers, dependency expressions | `MdeModulePkg/Core/Dxe/Dispatcher/{Dispatcher,Dependency}.c` |
| `BlockStore` | what a fault tolerant write promises: blocks that change atomically | the descriptions in `FaultTolerantWrite.c` |
| `Ftw` | the fault tolerant write driver, with power failures | `MdeModulePkg/Universal/FaultTolerantWriteDxe/{FaultTolerantWrite,UpdateWorkingBlock,FtwMisc}.c` |
| `VariableStore` | the store of non-volatile variables, with power failures and flash errors | `MdeModulePkg/Universal/Variable/RuntimeDxe/{Variable,VariableParsing,Reclaim,...}.c` |
| `VariableCache` | `VariableStore` composed with the runtime cache and its readers | `.../RuntimeDxe/{VariableRuntimeCache,VariableSmm,VariableSmmRuntimeDxe}.c` |
| `SmmRendezvous` | processors entering and leaving System Management Mode | `UefiCpuPkg/PiSmmCpuDxeSmm/MpService.c` |
| `DxeTimerProofs`, `DxeDispatcherProofs`, `FtwProofs`, `VariableProofs`, `SmmRendezvousProofs` | theorems about `DxeTimer`, `DxeDispatcher`, `Ftw`, `VariableStore` and `VariableCache`, `SmmRendezvous` | |
| `ListLemmas` | lemmas the proofs share: removing from and inserting in a sequence, the least of a set of numbers, induction over sets of numbers | |
| `MCDxeEvent`, `MCDxeTimer`, `MCDispatcher`, `MCFtw`, `MCVariable`, `MCVariableCache`, `MCSmm` | instances for TLC | |

`PROJECT.json` maps every definition to the lines it models and lists the runs,
the hazards, the findings, the theorems, and for every checked property a
mutant: a plausible bug, defined next to the original (marked `mutant`), under
which TLC finds the property violated.

## Inventory

EDK II is some twelve thousand files, most of them device drivers, platform
data, host tools and vendored code. The parts that carry its own core logic:

**Events and task priority levels (modelled).** State: `gEfiCurrentTpl`,
`gEventPending` (a bit for each level), `gEventQueue[]` (queued notifications
of each level), `gEventSignalQueue`, and each event's `SignalCount`. Operations:
RaiseTPL, RestoreTPL, CreateEvent(Ex), SignalEvent, CheckEvent, WaitForEvent,
CloseEvent. There is one processor and no threads; concurrency is nesting. A
timer interrupt may arrive after any instruction while the level is below
`TPL_HIGH_LEVEL`; its handler ends with RestoreTPL, which dispatches
notifications of any level above the interrupted one, which may themselves call
every service and be interrupted. Every release of a lock is a RestoreTPL and
so a point where notifications run. *Correct if*: no notification is re-entered
or forgotten, every activation goes on at the level it relies on, no signal is
lost in the windows where the lock is dropped, and a closed event is not used.

**Timer services (modelled).** State: `mEfiSystemTime`, the sorted
`mEfiTimerList`, trigger time and period of each timer. The tick runs in the
interrupt and reads the list without the timer lock. *Correct if*: no timer is
early, none is overlooked, and every timer that is set expires.

**Protocol notifications (modelled as far as events see them).**
RegisterProtocolNotify, InstallProtocolInterface and the unregistration of a
closed event, under `gProtocolDatabaseLock` (a lock of level `TPL_NOTIFY`).

**DXE dispatcher (modelled, but for the points listed at the end).** State: the
discovered drivers (`mDiscoveredList`) with their state flags and dependency
expressions, `mScheduledQueue`, the volumes already processed. Operations: the
notification of a new volume, Schedule, Trust, and Dispatch, which drains the
queue and searches the list in turn while the drivers it starts, and callbacks,
install protocols and volumes. *Correct if* every driver is in one state and is
started at most once, not before its dependency expression holds and in the
order BEFORE and AFTER ask for, nothing that could run is left behind, and
Dispatch returns.

**Fault tolerant write (modelled, but for the points listed at the end).**
State in flash: the target blocks, a working block that lists writes and how far
each has got, a spare block; in memory, a copy of the work space. *Correct if*
each block changes atomically whenever power fails, recovery included, and
recovery leaves a usable work space.

**UEFI variable services (non-volatile variables and the runtime cache
modelled).** State in flash: a log of headers and data, each header with a state
byte; in memory a copy of the flash, the end of the log, and, for the SMM
driver, a runtime cache that is read outside SMM. Operations: SetVariable,
GetVariable, the garbage collection (Reclaim, ReclaimForOS), initialisation
after a power failure. *Correct if* a variable has its old or its new value
after a power failure at any point, and keeps it through recovery and garbage
collection; the copies follow the flash; and a reader never sees half of an
update.

**SMM rendezvous (modelled, but for the points listed at the end).** State:
`mSmmMpSyncData` (a counter, InsideSmm, AllCpusInSync, BspIndex; for each
processor a Run semaphore, a Busy lock, Present, a procedure). Real parallelism:
processors enter one by one, wait with timeouts, one is elected BSP, gathers the
others, runs the handlers, which start procedures on the others, and lets all
leave. *Correct if* there is one BSP, no handler runs beside normal mode code,
each procedure runs once and before the BSP leaves, MTRRs are replaced and
restored together, the semaphores are back at zero, no SMI is lost and nobody
stays behind.

**Handle database and driver binding** (not modelled yet). Handles, protocol
interfaces and the agents that have opened them; stopping a driver drops the
lock in the middle of a walk and starts over by `gHandleDatabaseKey`.

**Multiprocessor services** (not modelled yet). States of the application
processors and the timeouts of StartupAllAPs and StartupThisAP outside SMM.

**Memory services, image loading, PEI core, SMM core, network, file systems,
buses, tools** (not planned; the reasons are in `PROJECT.json`).

How they interact: timers expire by signalling events; the dispatcher's
notification of a new volume is an event notification, and drivers it starts
call every other service; SetVariable runs in SMM, after a rendezvous, and
replaces its store by a fault tolerant write. Composed here are the variable
store with its runtime cache (`VariableCache`), the variable store with the
promise of the fault tolerant write (`BlockStore`, which `Ftw` implements), and
events with protocol notifications (`DxeEvent`).

## How the models correspond to the code

### DxeEvent

The state is the processor's call stack (`stack`) and the global variables. A
frame is application code, a RaiseTPL region, a section under the protocol
lock, a notification function, the interrupt handler, or an activation of
CoreRestoreTpl with the CoreDispatchEventNotifies it calls (`kind`); `pc` says
where in the service the frame is. `RaiseTpl` ... `CloseFree` are the steps of
the services; `Interrupt` pushes a handler whenever interrupts are enabled.

The event lock is an `EFI_LOCK` of `TPL_HIGH_LEVEL`: while it is held interrupts
are off, so a critical section is one step, and releasing it pushes a RestoreTPL
frame. Every point at which the code drops the lock, enables interrupts or reads
a global variable without the lock is a separate step. `gEventPending` is not
volatile and the loop of CoreRestoreTpl reads it twice; the compiler may load
it once or twice, and `Rereads` says which build is meant.

An event is live, being closed (unlinked, its Signature still there) or freed.
The services accept it as long as it has its Signature, so an event that is
being closed can be signalled and queued again; `late` remembers which were.
What the services leave to their callers is in four guards of `CpuStep`, apart
from the actions: `MayClose` (nobody closes an event while another activation is
in the middle of a service that works on it, or closes it twice), `MaySignal`
(the private events of the core are signalled by the core, and the timer code
does not signal an event whose timer CloseEvent has cancelled), `MayWait` and
`MayRegister` (only live events). The closing of an event which a dispatcher has
taken and not called yet is not excluded.

`EVT_RUNTIME` (which only links the event into a list for the runtime driver)
is left out, and `EVT_TIMER` is DxeTimer.

### DxeTimer

SetTimer and CoreCheckTimers exclude each other by the timer lock (level
`TPL_HIGH_LEVEL - 1`) but the tick does not take it, so `CoreTimerTick` may come
between any two of their steps: in particular between the reading of the time
and the insertion of the timer. Of the event services this module has
`checkSignal` (the check event is queued) and the window in CoreRestoreTpl
between the last test of `gEventPending` and the lowering of the level, which a
tick may hit (`Lower`, `Restore`). The system time is a UINT64 that wraps at
`Wrap`. `due` and `late` are history variables.

### DxeDispatcher

`d` is the activation of CoreDispatcher: where it is (`pc`), its local
variables, the stack of Booleans of CoreIsSchedulable and the recursion over
BEFORE and AFTER (`frames`, one per call, each with the loop it is in and how
far that has got). A section under `mDispatcherLock` is one step, so is one
instruction of a dependency expression. A driver's entry point (`pc = "image"`)
and the notifications of the dispatch event (`"signal"`) make any number of
calls (`Call`): they install and remove protocols and volumes and call Schedule
and Trust. Between any two other steps a timer callback may do the same
(`Callback`, at most `MaxCallbacks` times; `disturbed` remembers that one came
between two steps of the dispatcher itself since the search began). Trust tests
the driver's state before it takes the lock: `trusting` are the calls between the
two, and a callback may come there too, in an entry point as well. The
notification of a new volume is queued at
`TPL_CALLBACK` and so runs before the dispatcher, at `TPL_APPLICATION`, goes on
(`Quiet`).

`PUSH` becomes `REPLACE_TRUE` in the entry's own copy of the expression, as in
the code, so a later evaluation is of the patched expression. The reference for
the evaluation is in `MCDispatcher`: expressions as trees, their meaning as the
sets of protocols of which they hold, and the postfix code generated from them.
`DependencyMet` and `Exhausted` compare the two, where a protocol found earlier
counts as installed. An expression that names the same protocol twice would be
patched in one place and not in the other if the protocol goes between the two
instructions; the instances have none.

The a priori loop puts a driver on the queue whatever its state and clears
Dependent only. A driver whose depex is SOR, or cannot be read yet, is therefore
in two states (`Odd`), and a later Schedule or a retried read makes it Dependent
again while it is on the queue. The instance has such a driver; `OneState` says
what holds of the others. Inserting an entry that is already linked destroys the list: `broken`
names the entry, and nothing is claimed of what the dispatcher does afterwards.

Two simplifications: FwVolNotify processes a volume in one step, though the
lock is taken for each file (Dispatcher.c:891-895) and each a priori entry
(1421-1425) and a callback of a higher level may come in between; and file names
are unique, in a volume, between volumes and in an a priori file
(`DispatcherAssumption`).

### Ftw and BlockStore

The work space is a header and `Size` cells, each of which holds a write header
or a record. An operation is a list of steps still to do (`todo`): one for every
flash access and one for every decision taken on what was read; a function that
calls another puts the callee's steps in front of its own. `Crash` may happen
between any two steps: memory and `todo` are lost, flash stays, and `Boot` is
InitFtwProtocol. Erasing and programming a block that holds data are two steps,
in between it holds `Torn`, which is neither old nor new. The working block may
be torn at any cell, from its start on. Setting a state bit is one step.

`AtomicWrites` says that Ftw implements BlockStore. The mapping (`Content`) is
what a reader would find once the driver has recovered: the spare block's
contents if the valid work space has a record with SpareComplete and not
DestinationComplete for the block; for the data that shares the working block
with the work space, the spare block's contents if only the spare copy of the
work space is valid; otherwise what is in the block itself. So a write takes
effect when SPARE_COMPLETED is set, and nothing that happens later, in
particular no recovery and no power failure during the recovery, changes any
block until the next write.

External parts, modelled from how the code uses them: the FVB driver (erases
and programs in ascending order; programming over what is not erased gives an
unpredictable result, `WriteRecord`), and power failure. Assumed: a header or
record is programmed at once; callers that write to the working block write the
whole of it, as the variable driver does.

### VariableStore

The store is an array of cells; a header takes one, data as many as `DataSize`
says. The state byte of a header is the set of its programmed bits, so
programming only adds bits. `op` is the SetVariable in progress, with the
pointers FindVariable gave it and the next flash access (`pc`); UpdateVariable
is the sequence "mark the old copy in deleted transition, header, header valid,
data, added, delete the old copies", each of which is a step, before and in the
middle of which power may fail (`Interrupted`: a range is programmed from its
start on) or the FVB driver may report an error (`FvbError`). Reclaim replaces
the store by a fault tolerant write, which is atomic as BlockStore says, or
fails as a whole. `Boot` and `WriteServiceInitialize` are the initialisation,
with the check that the free area is erased.

A walk of the store (`Pointers`) and a loop of Reclaim (`Gather`) are recursive
functions of the number of rounds. `CellAssumption` says that a header, a datum
and an erased cell are different things, and that `None` is no call.

Two exemptions are written into the properties, and are what the code does:

- `fault`: an error of the FVB driver in the middle of UpdateVariable returns
  to the caller with bytes programmed that `NonVolatileLastVariableOffset` does
  not account for, and a failed fault tolerant write leaves the copy in memory
  as it was. Nothing repairs either before the next boot. The properties hold
  while neither has happened (power failures do not count).
- `Orphan` and `Unreported`: two copies of a variable, both in deleted
  transition, are left by two interrupted updates. FindVariableEx then has a
  pointer to the second only (finding `variable_delete`).

### VariableCache

SetVariable runs in SMM, where all processors are: the reader in the runtime
driver takes no step while a call is in progress, but whole calls, made by
drivers in SMM, fall between any two of its steps (`Reading` needs `op = None`).
SynchronizeRuntimeVariableCache copies the store unless the reader holds the
read lock, then it leaves the update pending. `reader.missed` marks reads which
find that an update became pending after their own SMI: they return
EFI_NOT_FOUND for a variable that may exist. Both properties leave out variables
of which the runtime cache has a copy that no search reports (`Unreported`), see
"More that the models show".

### SmmRendezvous

A step is one access to shared memory. Merged are WaitForAllAPs (only the BSP
takes from its own semaphore) and loops over the processors that write one field
each. A timer may expire whenever it is waited for; an SMI may come at any time
(`Smi`), and reaches the processors in any order. The platform hooks are
external: PlatformValidSmi reads a status bit, ClearTopLevelSmiStatus clears it.
Without an election the BSP is fixed; by symmetry it may be any processor.

SmmStartupThisAp stores the procedure in `ApWrapperFunc` of the processor
(`wrap.func`) before InternalSmmStartupThisAp waits for the Busy lock, two steps
here; what the AP calls is what it finds there (`Callee`). `BlockStartups` are
the values of `PcdCpuSmmBlockStartupThisAp`, `BroadcastModes` the synchronisation
modes in which handlers call SmmStartupAllAPs.

Nothing is assumed of time in `Spec`: an AP may give up waiting when the BSP has
just found it in SMM, and take itself out of the counter after the BSP has closed
it. The BSP then waits for an AP that is gone (`GaveUpLate`), which the comments
at MpService.c:527-529 and 547-549 warn of and leave to a timeout that is long
enough. `TimelySpec` adds that timeout as a condition on steps (`Timing`): the
BSP does not end its wait for the APs, or announce that all are in, while another
processor is on its way out. `EveryoneLeaves` and `SmiHandled` are checked without
it and name the exception; `NormalModeExcluded` needs it, and the run `smm` and
the proofs use it.

## Runs

| run | instance | shows |
|---|---|---|
| `event_signal` | two notification events of levels 8 and 16, two nested interrupts, one RaiseTPL region | `NoReentry`, `LevelRestored`, `NotifiedOnReturn` (SignalEvent does not return before the notification has run if its level is above the caller's), `NoCallAfterClose` (the function of a closed event is called only through one of the two windows in which the lock is dropped) |
| `event_protocol` | an event group with a member at TPL_CALLBACK, which any code creates, registers for a protocol, signals and closes, and gIdleLoopEvent at TPL_NOTIFY; a TPL_NOTIFY wait event that is twice in an array waited for; the build that loads `gEventPending` twice; no RaiseTPL region (`event_signal` has them) | `TypeOK`, `SignalNotLost`, `QueuedPending`, `ProtocolLockFree`, `NotifiedOnReturn` |
| `event_close` | the events of `event_signal` | violated: `FreedNotQueued` |
| `timers` | three timers, delays 0 and 2, time up to 2, with fairness | `Sorted`, `TickServed`, `NotEarly`, `TimerServed`, `CheckEnds` |
| `ftw_atomic` | two blocks, single writes, a work space of 5 cells, 4 calls | `AtomicWrites`, `WorkSpaceReady`, `ErasedWhenProgrammed` |
| `ftw_shared` | a target block that shares the working block, 2 calls with and without private data, no reclaim, with fairness; 71,272 states | `AtomicWrites`, `WriteFinished` |
| `variable_store` | two variables, values of one and two cells, 7 cells of flash, 4 calls, 2 failures; 337,668 states | `OnlySetChanges` (no power failure, recovery or garbage collection changes a variable), `SetDone`, `InSyncWithoutFault` |
| `variable_cache` | one variable, one reader outside SMM, 3 calls, 1 failure; 100,400 states | `ReadConsistent`, `RuntimeCacheCurrent` |
| `variable_delete` | one variable, 4 calls, 2 power failures | violated: `DeleteDeletes` |
| `smm` | three processors, one SMI, both modes, 2 procedures, startups that do not block, `TimelySpec`, with symmetry; 931,481 states | `ProcedureOnce`, `ProceduresDone`, `SemaphoresDrained`, `NormalModeExcluded`, `MtrrsTogether` |
| `smm_live` | two processors, two SMIs, both modes, with and without election and MTRRs, startups that block, any timing; 226,969 states | `OneBsp`, `EveryoneLeaves`, `SmiHandled` |
| `dispatcher` | four files in two volumes, one volume inside a file of the other, 12 combinations of expressions, an a priori driver that can be in two states, 1 callback; 547,782 states | `OneState`, `DependencyMet`, `Exhausted`, `Ordered`, `Companions`, `DispatcherReturns` |

Every module has a type invariant, which its proofs need. The runs spend their
time on other properties; the type invariants hold in the same instances
(`INVARIANT TypeOK`, `CacheTypeOK` for VariableCache), that of DxeEvent is also
part of a run, and all are proved.

Deadlock is checked in the timer and fault tolerant write runs. Elsewhere the
system may stop: an application, or a boot manager, has nothing left to do, no
SMI comes, or the bound on calls is reached.

**Bounds.** `MaxRaised` and `MaxIntr` bound how many RaiseTPL regions and
interrupts are open at once: two nested interrupts are needed for a dispatcher
to be interrupted inside a notification that was itself dispatched by an
interrupt, and deeper nesting repeats the pattern (the theorems hold for any
depth). Two events of different levels, besides the tick and idle events that
always exist, give every order of preemption. `MaxTime` stops the clock while
ticks go on; a periodic timer goes round several times before. Three timers
allow an insertion in the middle of the list. `MaxCalls` of Ftw bounds calls of
FtwAllocate and FtwWrite: with single writes and `Size = 5` the third call finds
the work space full and reclaims it, so the bound of 4 covers filling and
reclaiming it. The number of power failures is not bounded there. `ftw_shared` has few
enough calls that its work space is never reclaimed.

`MaxCalls = 4` of the variable store fills 7 cells with two variables and makes
a call reclaim, with the variable being updated in the middle of the log;
`MaxFailures = 2` lets power fail in an update and again in the next or in the
initialisation. Three processors are the least at which one AP arrives while
the BSP serves another; two SMIs let the second arrive in every step of the
first run. In the dispatcher the driver `b` is BEFORE or AFTER `a` and `c` is
BEFORE `b`, `a`'s expression has every operator or is missing, unrequested or ill
formed in one of three ways, `c` holds a volume with an a priori driver `h`, and
the depexes of `b` and `h` can only be read when a protocol is there.

**Fairness.** DxeTimer: ticks keep coming (`WF(Tick)`: the timer interrupt is
periodic), and the timer services, once called, go on (`WF(TimerCode)`). That
someone calls RestoreTPL is not assumed. Ftw: the driver goes on once it is
called (`WF(Proceed)`); `WriteFinished` excepts behaviours with infinitely many
power failures, and no caller is assumed to call. SmmRendezvous: a processor in
SMM goes on and its timers expire; outside, a BSP that is fixed or known and at
least one processor with a pending SMI enter at last, the others may stay
blocked for ever. DxeDispatcher: drivers and notification functions return,
whatever they call before (`SF(DispatcherStep)`: their calls disable the step
only while a volume is being processed or a Trust is under way), and the
notification of a volume and a call of Trust go on
(`WF(FwVolNotify \/ TrustInserts)`). None of the SMM fairness speaks of when a
timer expires, only that it does.

## Findings

The quoted lines are in `PROJECT.json`.

- `event_close`: CloseEvent unlinks the event, releases the event lock, which
  runs what is pending above the caller's level, and clears the Signature only
  then. A notification that signals the event in between queues it again, and it
  is freed on the queue. The same window is open to an installation of the
  protocol the event is registered for, which CloseEvent unregisters later still.
- `variable_delete`: two updates of a variable are interrupted by power failures,
  the first after the new copy was ADDED and before the old one was deleted, the
  second after that new copy was marked. Both copies are then in deleted
  transition. FindVariableEx returns the second and forgets the first, so a
  SetVariable that deletes the variable marks one copy only, returns success, and
  the next GetVariable finds the other: the deleted variable is back, with the
  value it had before both updates.

### More that the models show

These need an instance of their own; the property named is defined in the module
and TLC finds it violated with the cfg named and the constants changed as said.

- `RestoreDispatches` (DxeEvent, `EventSignal.cfg`): RestoreTPL can return with
  an unmasked notification queued, if a tick comes after the last test of
  `gEventPending`. The next RestoreTPL or interrupt dispatches it.
  `NotifiedOnReturn` shows that what a service has queued itself is not affected.
- With `Rereads = TRUE` an interrupt between the two loads of `gEventPending`
  empties it, HighBitSet64 returns -1 and the assertion of CoreRaiseTpl fails (a
  restore frame at `pc = "assert"`, reachable in `event_protocol` too).
- `NotEarly` (`Timers.cfg`, `Delay = {1, 7}`): the sum of time and delay in
  SetTimer wraps, so a timer set to the largest delay expires at the next tick.
- `DataAvailable` (`FtwShared.cfg`, `Lba = {w}`, `Size = 5`, `MaxCalls = 3`,
  `PrivateData = {FALSE}`):
  InitFtwProtocol begins with WorkSpaceRefresh, which reclaims a full work space
  before the driver has looked whether the working block is valid. If power
  failed during a reclaim, after the blocks in front of the work space were
  erased, this overwrites the spare block, the only copy. It needs a layout in
  which the work space shares the working block with other data
  (`FtwWorkSpaceSize < WorkBlockSize`).
- `AtomicWrites` and `ErasedWhenProgrammed` (`FtwAtomic.cfg`,
  `NumberOfWrites = {2}`, `Size = 6`): if power fails after the second record of a
  header was programmed, the recovery neither aborts nor restarts that write,
  since the record is not the first, and the next FtwWrite programs the record
  again without erasing it. What is then recorded as its block need be neither of
  the two, and the data goes there. No caller in the repository allocates a header
  for more than one write; the protocol, and the SMM handler, let a caller do so.
- `AllocateRecorded` (the same, `Lba = {l1}`): FtwAllocate uses an offset computed
  before its own reclaim.
- `InSync` (`VariableStore.cfg`): after an FVB error the flash past the end of
  the log is not erased and the next SetVariable programs over it.
- `reader.missed` in VariableCache: a read returns EFI_NOT_FOUND for a variable
  that exists if an update becomes pending between its SMI and its search
  (VariableSmmRuntimeDxe.c:570, where a debug build asserts).
- `RuntimeCacheCurrent` without the premise `Unreported(rt, n) = {}`
  (`VariableCache.cfg` with a third value, `MaxCalls = 5`, `MaxFailures = 2`, no
  FVB and FTW errors): a reclaim promotes an orphaned copy, so that the store and
  the runtime cache have two ADDED copies of a variable. The next update, at
  runtime, marks the first, fails for want of space and returns without
  SynchronizeRuntimeVariableCache: a search of the store now finds the second
  copy, one of the runtime cache still the first. The instance of the run is too
  small for this; the attempt to prove the property for all instances found it.
- `ScheduledCalled` (`Smm.cfg`): two calls of SmmStartupThisAp for one AP, neither
  of them blocking, which is the default. The second replaces the procedure in
  `ApWrapperFunc` before it waits for the AP to be done with the first: the AP
  calls the second procedure twice and the first not at all. `ProcedureOnce` says
  that this is the only way in which an AP calls something else than it was given.
- `BusyAcquired` (`Smm.cfg`, `SyncModes` and `BroadcastModes` `{"relaxed"}`,
  `ConfigureMtrrs = {FALSE}`): an AP sets Present after the loops of
  InternalSmmStartupAllAPs that acquire Busy and store the procedure, and before
  ReleaseAllAPs, which wakes it. APHandler finds its Busy lock free and calls what
  `Procedure` holds, NULL the first time.
- `NormalModeExcluded` and `TypeOK` of SmmRendezvous (`Smm.cfg` with `Spec`): an AP
  gives up between the BSP's finding all processors in and its closing the counter.
  It goes back to normal mode while the handlers run and leaves the counter at -2.
- `LinkedOnce` (`Dispatcher.cfg`, `Encapsulated = {b}`): two calls of Trust for one
  driver, the second from a callback between the first one's test and its lock,
  insert it twice. The same with `Encapsulated = {b, h}` and `MaxCallbacks = 0`: an
  a priori driver in two states is inserted again while it is on the queue.
  `OneState` says that there is no third way.
- `TrustedStarts` (`Dispatcher.cfg`): Trust puts an untrusted driver back on the
  queue, but CoreStartImage returns the security violation its load ended in.
  The driver is marked Initialized without having run.
- Dispatch(FALSE) in DxeDispatcher: if the dispatch event cannot be created,
  `gDispatcherRunning` stays set and every later Dispatch returns
  EFI_ALREADY_STARTED. `Listed` and `Produced`: an FV image whose depex gives
  EFI_PROTOCOL_ERROR is processed at once, cannot be read either, and is not
  tried again, as its volume is marked as processed.
- `QueueDrained` (`Dispatcher.cfg`): a notification of the dispatch event that
  schedules a driver (Trust, or a volume with an a priori file) does so after
  the drain. If the search then finds nothing else, Dispatch returns with the
  driver on the queue, and it is the next Dispatch that starts it.

## Proofs

The theorems hold for every value of the constants that the named assumptions
allow; TLC evaluates each assumption in every run of the module that has it. Each
proof rests on an inductive invariant that TLC has checked on the instances of
the runs first, has one lemma for each action (or for each group of actions that
do the same to the invariant), and ends with a step that combines "Init
establishes it", "every step keeps it" and "it implies the property".

### Events: `DxeEventProofs`, `DxeEventSignalProofs`

For every set of events, every argument they are created with, every wait list
and every bound on nesting (`EventAssumption`: types; `CoreEventAssumption`: the
tick and idle events exist with the levels the core gives them):

- `TypeCorrect`, `NoReentryHolds`, `QueuedPendingHolds`, `LevelRestoredHolds`,
  from

      IInv == TypeOK /\ QueuedPending /\ StackDiscipline /\ LevelRestored

  `NoReentry` is not inductive: a step that returns from a frame resumes another
  one deep in the stack, and nothing in `NoReentry` says at which level that one
  was suspended. `StackDiscipline` says it for every pair of neighbouring frames:
  the level a frame leaves behind when it returns suits the frame below
  (`Pushed`), a notification sits on a dispatcher of its level, and levels do not
  decrease towards the top. `NoReentry` follows, since a dispatcher only
  dispatches levels above its own NewTpl.

- `SignalNotLostHolds`, `ProtocolLockFreeHolds`, `NotifiedOnReturnHolds` and
  `NoCallAfterCloseHolds`, from `IInv` and

      SInv == StackInv /\ EventInv /\ SignalInv

  `StackInv` says what every suspended operation knows of its event (`FramesUse`),
  that whatever works on an event that is being closed interrupts the CloseEvent
  (`CloseBelow`), that code which runs while a frame waits runs above that frame's
  level (`CodeAbove`), that the activation of CoreRestoreTpl above a service which
  has queued a notification is still dispatching (`AwaitServed`), and how an event
  that a dispatcher is about to call can have been closed (`CallsUse`). `EventInv`
  says that `gEventSignalQueue` is exactly the list of the live signal events and
  that what is queued is live or was queued after it was unlinked; `SignalInv`
  that a walk has queued what it has passed. The events may be registered for
  protocols; what callers must respect is in `Next` (`MayClose` and the others).

### Timers: `DxeTimerProofs`

For any number of timers, delays and ticks: `TypeCorrect`, `SortedHolds`,
`TickServedHolds`, and `NotEarlyHolds` with the hypothesis `NoWrap` (no sum of a
time and a delay reaches 2^64; without it the property is false, see above).

    IInv == TypeOK /\ Sorted /\ EventHeld /\ TimeRead /\ LateExpired /\ LateServed

`TickServed` is about states in which no service is in progress. `LateServed`
extends it to the others: if a tick has found a timer expired, a check is queued,
or is about to read the time, or has read a time that is past the timer's.
`EventHeld` (the event a service works on is off the list) is what keeps an
insertion from making a duplicate. `NotEarly` needs `DueKept`, which follows the
time the caller asked for through SetTimer, where the time is read late, and
through the rearming of a periodic timer.

### SMM rendezvous: `SmmRendezvousProofs`

For any number of processors, SMIs and procedures, with and without election,
MTRRs and gathering, and for blocking and non-blocking startups: `OneBspHolds`,
`SemaphoresDrainedHolds`, `ProcedureOnceHolds`, `ProceduresDoneHolds`,
`NormalModeExcludedHolds`, `MtrrsTogetherHolds` and `TypeCorrect`, each of
`TimelySpec` and with the hypothesis

    TraditionalBroadcasts == BroadcastModes \subseteq {"tradition"}

Without the hypothesis `BusyAcquired` above is in the way, without the timing
`NormalModeExcluded` and the bounds of `TypeOK` fail (see above). The proofs are
about timely behaviours because their invariant counts processors exactly.

    SInv == Typed /\ RInv /\ WInv /\ EInv

`RInv` is the rendezvous. If there is a BSP at place p, `Follows` lists the places
at which an AP can be and the value of its Run semaphore there, and `Counts` says
what the BSP's own semaphore amounts to: each AP that has joined has signalled
what the BSP waits for, or owes it (`Owing`), and the two add up to the number of
processors that take part. If there is none, all in SMM wait for one (`Open`).
`WInv` is the same for procedures: whose Busy lock is taken, who has been given
which procedure, what each token still counts. `Wrapping`, which is added for
`ProcedureOnce`, ties what is in `ApWrapperFunc` to the procedures given: nothing
is overwritten where startups block. `EInv` is `NormalModeExcluded`
with the steps before and after the handlers. The counting arguments use the
cardinality theorems of `FiniteSetTheorems`.

### Dispatcher: `DxeDispatcherProofs`

For all volumes, files, a priori lists and dependency expressions, and whatever
callbacks do between the steps: `TypeCorrect`, `OneStateHolds`, `OrderedHolds`,
`CompanionsHold`.

    IInv == TypeOK /\ ListsKept /\ DriversKept /\ EntryKept /\ FramesKept

together with `TrustKept` (a driver that a call of Trust has found is Untrusted
still, or Scheduled by another call; an entry linked twice is `Odd` or the one
the innermost Trust inserts). All of it is claimed of undamaged lists (`broken =
None`), and `OneState` says which drivers can damage them.

`FramesKept` is about the recursion over BEFORE and AFTER: each frame is for an
entry that hangs on the entry of the frame below, is still Dependent until it is
put on the queue, and no entry has two frames, so the recursion ends and no
driver is queued twice. `EntryKept` says that the entry the dispatcher is at has
the state it had when it was read, although callbacks have run since. `Ordered`
needs `OInv == HangsOnPut /\ InOrder`, which relates what was started, the entry
being started and what is on the queue, pair by pair; drivers of an a priori file
are started in its order and are left out, and so are images loaded with a
security violation, which are not started, and pairs in which the driver that is
waited for may be put on the queue twice (`Odd`). `Companions` needs
`CInv`: what the loops of the open frames have already passed and what they have
put on the queue.

### Fault tolerant write: `FtwProofs`

For all blocks, contents, sizes of the work space and numbers of calls, whatever
power failures interrupt the driver and its recovery: `AtomicWritesHolds` (Ftw
implements BlockStore), `DataAvailableHolds`, `WorkSpaceReadyHolds`,
`ErasedWhenProgrammedHolds` and `TypeCorrect`, with the hypotheses

    OwnBlock     == WorkLba \notin Lba
    SingleWrites == NumberOfWrites \cap (2 .. Size - 1) = {}

The working block holds nothing but the work space, and a caller of FtwAllocate
asks for one write or for more than can ever fit. The second is how the repository
uses the driver: FtwWrite itself calls FtwAllocate with 1 (FaultTolerantWrite.c:352),
the SMM handler (FaultTolerantWriteSmm.c:368) passes on what its caller asks for, and
no other code calls Allocate of the protocol. Both are needed: `DataAvailable` fails in
a shared working block, and `AtomicWrites` and `AllocateRecorded` under headers with
several records ("More that the models show").

    IInv == TypeOK /\ FlashOK /\ Stage

None of the properties is inductive, because what a step does was decided when it
was put on the list of steps, on what flash and memory held then. `FlashOK` is what
survives a power failure anywhere, and therefore all that InitFtwProtocol has to
start from: the work space is a `Log` of pairs of a header and its record, complete
up to the last one and erased after it, or it is invalid and the beginning of a
block that was being rewritten (`Scratch`); a spare block that passes for a work
space has nothing in it, so recovering from it brings no old record back; and every
block has contents (`Content`). `Stage` says, for each list of steps that can be
left to do, what these steps rely on: for instance, that the last record is in
flight and the spare block holds its data while the target block is torn
(`Storing`), that no block is in flight while the work space is rewritten
(`Reclaiming`, `Flushing`), that memory mirrors flash but for WRITES_ALLOCATED, a
bit FtwAllocate sets in flash only (`Mirror`). A reclaim always leaves an erased
work space here, since it happens only when the last header is complete or absent.

There is one lemma for each action (`StepRefresh`, `StepWriteRecord`, ...), which
shows that `IInv` is kept and what the step is to BlockStore (`Effect`): nothing, a
failure, a success, a request or, for SPARE_COMPLETED only, the commit. The walk over
the headers is a recursive function; `LastOfLog` shows where it ends in a `Log`.

### Variables: `VariableProofs`

For all variables, values, sizes of the store and bounds on calls and failures:

- of `VariableStore`: `StoreTyped`, `StoreInSync` (`InSyncWithoutFault`),
  `SetVariableDone` (`SetDone`), `OnlySetVariableChanges` (`OnlySetChanges`);
- of `VariableCache`: `RuntimeCacheTyped`, `RuntimeCacheFollows`
  (`RuntimeCacheCurrent`), `RuntimeReadConsistent` (`ReadConsistent`).

The first part of the module is about stores as data. `IsLog(s, W, e)` says that
the headers at W follow each other from the start of s to e; `WalkIs` shows that
the recursive walk visits exactly W and ends at e, by induction over the rounds
(the recursive function is shown to exist, then to have visited every header
below the pointer). `Logged` adds that live variables have their data, `Steady`
that nothing is written behind the end. On these rest lemmas for each thing the
code does to a store: a state byte programmed (`Marked`, `DeletedIs`), the four
steps that write a variable (`FourSteps`, `StoredIs`), a write that was stopped
(`TornIs`), and Reclaim (`BufferIs`, `ReclaimIs`, `ReclaimWith`): what its two
loops gather is a log that has each variable once and fits, because the cells of
the copies it keeps are disjoint cells of the old store.

    IInv     == ~fault => StoreInv
    StoreInv == TypeOK /\ StoreKept /\ (op # None => CallKept)

`StoreKept` says that the copy in memory is a steady log ending at `lastOffset`
and that the flash is the same, or, while a variable is being written, the same
with the new variable up to the step the call is at (`Begun`). `CallKept` says for
each step what the pointers of the call point to; it is needed because the
pointers were read at the beginning of the call. Nothing is claimed after `fault`,
since then the code goes on with an offset that is wrong: the type invariant does
hold in the instances of the runs, but not because of anything the driver checks.

    CInv == ~fault => StoreInv /\ CacheTypeOK /\ CacheKept /\ (reader # None => ReadKept)

`CacheKept` says that the runtime cache is a log and, unless an update is pending,
agrees with the store on each variable whose value the call in progress has not
changed yet. "Agrees" (`Agree`) is weaker than equality: a mark, a deletion of an
old copy and a call that fails leave the store different from the runtime cache
without synchronising, and it is the copy a search finds that must be the same.
`ReadKept` ties what the reader has copied so far to one variable of the runtime
cache, which the read lock keeps as it is, and the value of that variable to what
was seen since the read began. `RuntimeCacheAssumption`: `None` is no store.

### Only model-checked

- Liveness (`TimerServed`, `CheckEnds`, `WriteFinished`, `EveryoneLeaves`,
  `SmiHandled`, `DispatcherReturns`), which the prover cannot handle.
- `DependencyMet` and `Exhausted` of the dispatcher: they compare the evaluation
  of an expression with its meaning, and the reference (trees and the code
  generated from them) is defined by RECURSIVE operators in `MCDispatcher`.
- `AtomicWrites` of Ftw for a block that shares the working block and is never
  reclaimed (`ftw_shared`), a case the hypotheses of `AtomicWritesHolds` leave out.
- `OneBsp` without the timing of `TimelySpec` (`smm_live`).

Where a proof depends on what a recursive function computes (the walk and the
garbage collection of the variable store, the walk over the write headers,
`Selected` of the dispatcher) the
function is shown to solve its equation, and the property of each round is shown
with the lemma `Induction` of `ListLemmas`, which is stated for a set of numbers.

## Not modelled

- Events: the runtime phase, with `gRuntime->EventHead`, a list to which
  CoreCreateEventInternal adds without a lock; how deep interrupts nest when a
  handler ends the interrupt before RestoreTPL (HpetTimer.c:313), which depends
  on execution times.
- Dispatcher: matching volumes by FvNameGuid (a volume stands for all handles
  with its name), FV images found in HOBs, the check for SMM depexes in FV
  images, the alignment, copy and security check of FV images, failures of
  allocations other than the event's, the file path of the DXE core,
  CoreDisplayDiscoveredNotDispatched, callbacks in the middle of the discovery of
  a volume.
- Fault tolerant write: error returns of the FVB driver (each access may fail
  and return EFI_ABORTED with the driver still in use), allocations that fail after
  the record was programmed (FaultTolerantWrite.c:465-468, 494-498), a recovery
  that does not find the target's FVB protocol (FtwMisc.c:1356-1363, which skips
  the restart and aborts the write),
  FlushSpareBlockToBootBlock, the bytes of private data, and headers or records
  programmed in part (a header with all-ones counts makes
  `FTW_WRITE_TOTAL_SIZE` wrap to one byte).
- Variables: volatile variables and HOB variables, append writes,
  authentication, variable locks and checks, hardware error records, quotas of
  the user, the language variables, the error flag, the reparse when a call
  re-enters (ReentrantState), emulated non-volatile storage, an FVB driver that
  reports an error of a state byte it has programmed (Variable.c:1906-1917).
- SMM rendezvous: switching the BSP (SwitchBsp, CandidateBsp), election by the
  platform, hot plug, local machine checks, the SMM profile, the debug agent,
  page tables, the startup procedure, and the Busy lock the BSP takes for
  itself.
- The components marked `not_modelled` in `PROJECT.json`.

## Plan

1. Ftw: FVB error returns; partly programmed headers and records.
2. `HandleDb`: open protocols, disconnect, reinstall, with the lock dropped.
3. `MpInitLib`: states of the application processors and the timeouts of the MP
   services.

The set of runs stays small: as components are added, runs that ask similar
questions are merged.
