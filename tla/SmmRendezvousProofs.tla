------------------------- MODULE SmmRendezvousProofs ------------------------
(***************************************************************************)
(* Theorems about SmmRendezvous, for every number of processors, of SMIs    *)
(* and of procedures: one BSP at a time, semaphores used up when their      *)
(* processors leave, no procedure lost or called twice, no processor in     *)
(* normal mode while the handlers run, MTRRs changed together.              *)
(***************************************************************************)
EXTENDS SmmRendezvous, FiniteSetTheorems, TLAPS

-----------------------------------------------------------------------------
(* Where the processors are                                                 *)

(* The BSP, from its election to the store that reopens the counter; the APs
   that have checked in and have not left; those of them that wait for a
   BSP.                                                                     *)
Leading == BspPcs \ {"unsync"}
Joined  == ApPcs \ {"sample", "checkin"}
Waiting == {"elect", "waitBsp", "waitBspAgain", "giveUp"}
Members == {c \in Cpus : pc[c] \in Leading \cup Joined}

(* The BSP's way, by what it waits for the APs to do: arrive, save their MTRRs,
   set them, restore them, leave.                                           *)
Gathers(cf) == cf.mode = "tradition" \/ cf.mtrrs
Calling     == {"bspInside", "bspPresent", "lock", "lockdown"}
Saving      == {"mtrrSave", "mtrrSaved"}
Setting     == {"mtrrSet", "mtrrDone"}
Restoring   == {"mtrrRestore", "mtrrRestored"}
Ending      == {"reset", "gatherEnd"}
Broadcast   == {"acquire", "schedule", "start"}
Arriving(cf, p) == Gathers(cf) /\ p \in Calling \cup {"arrival", "arrivalAgain", "gather"}
Leaving(cf, p)  == \/ cf.mtrrs /\ p \in Restoring
                   \/ ~cf.mtrrs /\ p = "gatherExit"
Early(cf, p)    == \/ Arriving(cf, p)
                   \/ ~Gathers(cf) /\ p \in Calling \cup Running \cup {"allPresent"}

(* The counter is closed, or about to be closed with all who are counted
   meaning to stay.                                                         *)
Closed(cf, p) == /\ p \in Leading \ (Calling \cup {"arrival", "arrivalAgain"})
                 /\ p \in Running => Gathers(cf)
Firm(cf, p)   == \/ Closed(cf, p)
                 \/ p = "lockdown"
                 \/ Gathers(cf) /\ p \in {"arrivalAgain", "lock"}

(* Where BSPHandler can come with a configuration.                          *)
OnItsWay(cf, p) ==
  /\ p \in Leading
  /\ p \in Saving \cup Setting \cup Restoring => cf.mtrrs
  /\ p \in Broadcast \cup {"arrival", "arrivalAgain", "gather"} => Gathers(cf)
  /\ p = "allPresent" => ~Gathers(cf)

(* An AP at q, with its semaphore at run, while the BSP is at p.            *)
Follows(cf, p, q, run) ==
  \/ q \in {"elect", "waitBsp", "waitBspAgain", "apPresent"} /\ run = 0 /\ Early(cf, p)
  \/ q = "giveUp" /\ run = 0 /\ Early(cf, p) /\ ~Firm(cf, p)
  \/ q = "apArrived" /\ run = 0 /\ Arriving(cf, p)
  \/ q = "apSave" /\ run = 0 /\ cf.mtrrs /\ Arriving(cf, p)
  \/ q = "apSave" /\ run = 1 /\ cf.mtrrs /\ p \in Saving
  \/ q = "apSaved" /\ run = 0 /\ p \in Saving
  \/ q = "apSet" /\ run = 0 /\ p \in Saving
  \/ q = "apSet" /\ run = 1 /\ p \in Setting
  \/ q = "apSetDone" /\ run = 0 /\ p \in Setting
  \/ q = "apLoop" /\ run = 0 /\ ~cf.mtrrs /\ Early(cf, p)
  \/ q = "apLoop" /\ run = 0 /\ p \in Setting \cup {"exit", "release"}
  \/ q = "apLoop" /\ run \in {0, 1} /\ p \in Running
  \/ q = "apLoop" /\ run = 1 /\ p = "gatherExit"
  \/ q = "apCheck" /\ run = 0 /\ p \in Running \cup {"gatherExit"}
  \/ q \in {"apExec", "apIdle"} /\ run = 0 /\ p \in Running
  \/ q = "apExit" /\ run = 0 /\ cf.mtrrs /\ p = "gatherExit"
  \/ q = "apRestore" /\ run = 0 /\ cf.mtrrs /\ p = "gatherExit"
  \/ q = "apRestore" /\ run = 1 /\ cf.mtrrs /\ p \in Restoring
  \/ q = "apReady" /\ run = 0 /\ Leaving(cf, p)
  \/ q = "apReset" /\ run = 0 /\ Leaving(cf, p)
  \/ q = "apReset" /\ run = 1 /\ p \in Ending
  \/ q = "apDone" /\ run = 0 /\ p \in Ending

(* An AP at q has signalled what the BSP at p waits for, or will wait for.  *)
Gave(cf, p, q) ==
  \/ Arriving(cf, p) /\ q \in {"apSave", "apLoop"}
  \/ p \in Saving /\ q = "apSet"
  \/ p \in Setting /\ q = "apLoop"
  \/ p \in Restoring /\ q = "apReset"
  \/ /\ ~Arriving(cf, p) /\ p \notin Saving \cup Setting \cup Restoring \cup Ending
     /\ q \in {"apRestore", "apReset"}
Owing(b) == {c \in Members : c # b /\ ~Gave(config, pc[b], pc[c])}

-----------------------------------------------------------------------------
(* The inductive invariant                                                  *)

(* The types, without the bounds, which follow from what is counted below.  *)
Places   == Outside \cup BspPcs \cup ApPcs
SmiData  == [count : 0 .. MaxSmi, status : BOOLEAN, pending : SUBSET Cpus]
SyncData == [counter : Int, inside : BOOLEAN, allInSync : BOOLEAN, bsp : Cpus \cup {None}]
CpuData  == [run : Nat, busy : BOOLEAN, present : BOOLEAN, proc : Procedures \cup {None}]
BspData  == [apCount : Int, waitFor : SUBSET Cpus, proc : Procedures \cup {None}]
Typed ==
  /\ config \in [mode : SyncModes, election : Elections, mtrrs : ConfigureMtrrs,
                block : BlockStartups]
  /\ smi \in SmiData
  /\ pc \in [Cpus -> Places]
  /\ valid \in [Cpus -> [smi : BOOLEAN, bsp : BOOLEAN]]
  /\ sync \in SyncData
  /\ cpu \in [Cpus -> CpuData]
  /\ bsp \in BspData
  /\ mtrr \in [Cpus -> {"os", "saved", "smm"}]
  /\ token \in [Procedures -> Int \cup {None}]
  /\ assigned \in [Procedures -> (SUBSET Cpus) \cup {None}]

(* A processor's own data, by where it is.                                  *)
PresentPcs == (Leading \ {"bspInside", "bspPresent", "gatherEnd", "reopen"})
                \cup (Joined \ (Waiting \cup {"apPresent", "apDone"}))
SavedPcs == {"mtrrSaved", "mtrrSet", "apSaved", "apSet"}
SmmPcs   == Running \cup {"mtrrDone", "exit", "release", "gatherExit", "mtrrRestore",
                          "apSetDone", "apLoop", "apCheck", "apExec", "apIdle", "apExit",
                          "apRestore"}
Mtrr(cf, p) == IF ~cf.mtrrs THEN "os"
               ELSE IF p \in SavedPcs THEN "saved"
               ELSE IF p \in SmmPcs THEN "smm" ELSE "os"
Own(c) ==
  /\ cpu[c].present <=> pc[c] \in PresentPcs
  /\ mtrr[c] = Mtrr(config, pc[c])
  /\ pc[c] \notin Leading \cup Joined => Run(c) = 0

(* No processor is the BSP: those in SMM wait for one.                      *)
Open ==
  /\ \A c \in Cpus : pc[c] \in Joined => pc[c] \in Waiting /\ Run(c) = 0
  /\ ~sync.inside
  /\ sync.counter = Cardinality(Members)
  /\ config.election => sync.bsp = None

(* b is the BSP: what it has told the others, ...                           *)
InsidePcs == Leading \ (Restoring \cup Ending
                          \cup {"bspInside", "release", "gatherExit", "reopen"})
Way(b) ==
  /\ OnItsWay(config, pc[b])
  /\ sync.bsp = IF config.election /\ pc[b] = "reopen" THEN None ELSE b
  /\ sync.inside <=> pc[b] \in InsidePcs
  /\ Closed(config, pc[b]) \/ pc[b] = "lockdown" => sync.allInSync

(* ... where they may be, ...                                               *)
Others(b) ==
  \A c \in Cpus : c # b =>
    /\ pc[c] \notin Leading
    /\ pc[c] \in Joined => Follows(config, pc[b], pc[c], Run(c))
    /\ pc[c] = "unsync" => ~Firm(config, pc[b])

(* ... and what the counter and its semaphore amount to: an AP that has joined
   has signalled, or it still owes a signal.                                *)
Counts(b) ==
  /\ Closed(config, pc[b]) => sync.counter = Locked
  /\ ~Closed(config, pc[b]) => sync.counter = Cardinality(Members)
  /\ pc[b] = "reopen" => Run(b) = 0 /\ Members = {b}
  /\ pc[b] \in Ending => Run(b) + Cardinality(Owing(b)) = bsp.apCount
  /\ pc[b] \notin Ending \cup {"reopen"} =>
       /\ Run(b) + Cardinality(Owing(b)) + 1 = Cardinality(Members)
       /\ Closed(config, pc[b]) => bsp.apCount + 1 = Cardinality(Members)

Led(b) == Way(b) /\ Others(b) /\ Counts(b)

NoBsp == \A b \in Cpus : pc[b] \notin Leading
RInv ==
  /\ \A c \in Cpus : Own(c)
  /\ \A b \in Cpus : pc[b] \in Leading => Led(b)
  /\ NoBsp => Open

(* The procedures: who has one to call, ...                                 *)
Awaited(b, c) == \/ pc[c] = "apLoop" /\ Run(c) = 1
                 \/ pc[c] \in {"apCheck", "apExec"}
                 \/ pc[c] = "apLoop" /\ pc[b] = "start"
Engaged(b, c) ==
  IF pc[b] \in Broadcast THEN pc[b] # "acquire"
  ELSE pc[b] \in Running /\ (Run(c) = 1 \/ pc[c] \in {"apCheck", "apExec", "apIdle"})
ApWorks(b, c) ==
  /\ cpu[c].busy <=> Engaged(b, c)
  /\ pc[b] \in Broadcast => pc[c] = "apLoop" /\ Run(c) = 0
  /\ cpu[c].busy /\ pc[b] = "drain" => c \in bsp.waitFor
  /\ pc[b] \in Running /\ Awaited(b, c) =>
       cpu[c].proc \in started /\ c \in assigned[cpu[c].proc]
  /\ pc[b] = "start" => cpu[c].proc = bsp.proc

(* ... and what is left of each.                                            *)
ProcedureKept(b, k) ==
  /\ \A c \in assigned[k] :
       /\ c # b /\ pc[c] \in Joined /\ pc[b] \in Running
       /\ Awaited(b, c) /\ cpu[c].proc = k
  /\ token[k] = None => \/ assigned[k] = {}
                        \/ pc[b] = "blocked" /\ assigned[k] \subseteq bsp.waitFor
                        \/ pc[b] = "start" /\ k = bsp.proc
  /\ token[k] # None => \/ token[k] = Cardinality(assigned[k])
                        \/ pc[b] \in {"acquire", "schedule"} /\ k = bsp.proc
BroadcastKept(b) ==
  /\ pc[b] \in Broadcast => bsp.proc \in started
  /\ pc[b] \in {"acquire", "schedule"} =>
       assigned[bsp.proc] = {} /\ token[bsp.proc] \in {None, NumberOfCpus}
Works(b) ==
  /\ \A c \in Cpus : c # b /\ pc[c] \in Joined => ApWorks(b, c)
  /\ \A k \in started : ProcedureKept(b, k)
  /\ BroadcastKept(b)
Resting ==
  /\ \A c \in Cpus : pc[c] \in Joined => ~cpu[c].busy
  /\ \A k \in started : assigned[k] = {} /\ token[k] \in {0, None}
WInv ==
  /\ \A b \in Cpus : pc[b] \in Leading => Works(b)
  /\ NoBsp => Resting

(* Traditional mode: who is outside, or about to be, has an SMI pending.    *)
Excluded(b) ==
  Gathers(config) =>
    \A c \in Cpus :
      /\ /\ pc[c] = "out"
         /\ pc[b] \in Running \cup Saving \cup Setting
                        \cup {"arrivalAgain", "lock", "lockdown", "gather"}
         => c \in smi.pending
      /\ pc[c] = "leave" /\ pc[b] \in {"arrivalAgain", "lock"} => c \in smi.pending
EInv == \A b \in Cpus : pc[b] \in Leading => Excluded(b)

SInv == Typed /\ RInv /\ WInv /\ EInv

(* The theorems are about platforms whose handlers call SmmStartupAllAPs only in
   traditional mode, under the timing of TimelySpec.                        *)
TraditionalBroadcasts == BroadcastModes \subseteq {"tradition"}

(* What a processor does, but for the store to ApWrapperFunc; and the calls its
   APs make of procedures.                                                  *)
Serving(b) ==
  \/ \E c \in Cpus, k \in Procedures, blocking \in BOOLEAN :
       InternalSmmStartupThisAp(b, c, k, blocking)
  \/ \E k \in Procedures, blocking \in BOOLEAN : StartupAllAPs(b, k, blocking)
  \/ AcquireAllBusy(b) \/ ScheduleAll(b) \/ StartAll(b) \/ Unblock(b)
Acts(c) == SmiRendezvous(c) \/ BSPHandler(c) \/ Serving(c) \/ APHandler(c)
Given ==
  \A c \in Cpus : pc[c] = "apExec" =>
    cpu[c].proc \in started /\ c \in assigned[cpu[c].proc]

-----------------------------------------------------------------------------
(* Types                                                                    *)

(* What the assumption says of None and of the number of processors.        *)
LEMMA Markers ==
  /\ None \notin Cpus /\ None \notin Int /\ None \notin Procedures
  /\ \A S \in SUBSET Cpus : None # S
  /\ \A c \in Cpus, k \in Procedures : None # [cpu |-> c, proc |-> k]
  /\ IsFiniteSet(Cpus) /\ NumberOfCpus \in Nat
BY SmmAssumption, FS_CardinalityType DEF Procedures, NumberOfCpus

(* The initial state, after InitializeMpSyncData.                           *)
LEMMA InitTyped == Init => Typed
<1> SUFFICES ASSUME Init PROVE Typed
  OBVIOUS
<1>1. config \in [mode : SyncModes, election : Elections, mtrrs : ConfigureMtrrs,
                block : BlockStartups]
  BY DEF Init
<1>2. smi \in SmiData
  BY SmmAssumption DEF Init, SmiData
<1>3. pc \in [Cpus -> Places]
  BY DEF Init, Places, Outside
<1>4. sync \in SyncData
  <2>1. PICK d \in Cpus \cup {None} :
          sync = [counter |-> 0, inside |-> FALSE, allInSync |-> FALSE, bsp |-> d]
    BY DEF Init
  <2> QED
    BY <2>1 DEF SyncData
<1>5. cpu \in [Cpus -> CpuData] /\ bsp \in BspData
  BY DEF Init, CpuData, BspData
<1>6. valid \in [Cpus -> [smi : BOOLEAN, bsp : BOOLEAN]]
  BY DEF Init
<1>7. mtrr \in [Cpus -> {"os", "saved", "smm"}]
  BY DEF Init
<1>8. token \in [Procedures -> Int \cup {None}]
  BY DEF Init
<1>9. assigned \in [Procedures -> (SUBSET Cpus) \cup {None}]
  BY DEF Init
<1> QED
  BY <1>1, <1>2, <1>3, <1>4, <1>5, <1>6, <1>7, <1>8, <1>9 DEF Typed

(* The parts of a typed state.                                              *)
LEMMA Parts ==
  ASSUME Typed
  PROVE  /\ cpu \in [Cpus -> CpuData] /\ sync \in SyncData /\ bsp \in BspData
         /\ sync.counter \in Int /\ bsp.apCount \in Int
         /\ \A c \in Cpus : cpu[c] \in CpuData /\ cpu[c].run \in Nat
<1>1. cpu \in [Cpus -> CpuData] /\ sync \in SyncData /\ bsp \in BspData
  BY DEF Typed
<1>2. \A c \in Cpus : cpu[c] \in CpuData
  BY <1>1
<1>3. \A r \in CpuData : r.run \in Nat
  BY DEF CpuData
<1> QED
  BY <1>1, <1>2, <1>3 DEF SyncData, BspData

(* Stores to a processor's data and to those of the rendezvous.             *)
LEMMA CpuFields ==
  ASSUME NEW data \in [Cpus -> CpuData], NEW c \in Cpus
  PROVE  /\ \A n \in Nat : [data EXCEPT ![c].run = n] \in [Cpus -> CpuData]
         /\ \A x \in BOOLEAN : /\ [data EXCEPT ![c].busy = x] \in [Cpus -> CpuData]
                               /\ [data EXCEPT ![c].present = x] \in [Cpus -> CpuData]
<1>1. data[c] \in CpuData
  OBVIOUS
<1>2. \A n \in Nat : [data[c] EXCEPT !.run = n] \in CpuData
  BY <1>1 DEF CpuData
<1>3. \A x \in BOOLEAN : /\ [data[c] EXCEPT !.busy = x] \in CpuData
                         /\ [data[c] EXCEPT !.present = x] \in CpuData
  BY <1>1 DEF CpuData
<1> QED
  BY <1>2, <1>3
LEMMA SyncFields ==
  ASSUME NEW data \in SyncData
  PROVE  \A n \in Int : [data EXCEPT !.counter = n] \in SyncData
BY DEF SyncData

(* ReleaseAllAPs                                                            *)
LEMMA ReleasedTyped ==
  ASSUME Typed, NEW b \in Cpus
  PROVE  ReleasedAPs(b) \in [Cpus -> CpuData] /\ ReleasedAPs(b)[b] = cpu[b]
<1>1. \A r \in CpuData : [r EXCEPT !.run = @ + 1] \in CpuData
  BY DEF CpuData
<1>2. \A c \in Cpus : cpu[c] \in CpuData
  BY Parts
<1> QED
  BY <1>1, <1>2 DEF ReleasedAPs, IsPresentAp

(* A step takes one processor to another place.                             *)
LEMMA PlaceTyped ==
  ASSUME Typed, NEW c \in Cpus, NEW next \in Places, Goto(c, next)
  PROVE  pc' \in [Cpus -> Places]
BY DEF Typed, Goto

(* SmiRendezvous and BSPHandler keep the types.                             *)
LEMMA BspTyped ==
  ASSUME Typed, NEW c \in Cpus, Enter(c) \/ SmiRendezvous(c) \/ BSPHandler(c)
  PROVE  Typed'
<1> DEFINE At == pc' \in [Cpus -> Places]
<1> USE DEF Step
<1>1. CASE Enter(c)
  <2>1. At
    BY <1>1, PlaceTyped DEF Enter, Places, ApPcs
  <2>2. smi' \in SmiData
    BY <1>1 DEF Enter, Typed, SmiData
  <2> QED
    BY <1>1, <2>1, <2>2 DEF Enter, Typed, SmiData
<1>2. CASE Sample(c)
  <2>1. At
    BY <1>2, PlaceTyped DEF Sample, Places, ApPcs, Outside
  <2> QED
    BY <1>2, <2>1 DEF Sample, Typed, SyncData
<1>3. CASE CheckIn(c)
  <2>1. At
    BY <1>3, PlaceTyped DEF CheckIn, Places, ApPcs, Outside
  <2>2. sync' \in SyncData
    BY <1>3 DEF CheckIn, Typed, SyncData
  <2>3. cpu' \in [Cpus -> CpuData]
    <3>1. cpu' = cpu \/ cpu' = [cpu EXCEPT ![c].busy = FALSE]
      BY <1>3 DEF CheckIn
    <3>2. [cpu EXCEPT ![c].busy = FALSE] \in [Cpus -> CpuData]
      BY Parts, CpuFields
    <3> QED
      BY <3>1, <3>2, Parts
  <2> QED
    BY <1>3, <2>1, <2>2, <2>3 DEF CheckIn, Typed
<1>4. CASE Elect(c)
  <2>1. At
    BY <1>4, PlaceTyped DEF Elect, Places, ApPcs, BspPcs
  <2>2. sync' \in SyncData
    BY <1>4 DEF Elect, Typed, SyncData
  <2> QED
    BY <1>4, <2>1, <2>2 DEF Elect, Typed
<1>5. CASE Leave(c)
  <2>1. At
    BY <1>5, PlaceTyped DEF Leave, Places, Outside
  <2> QED
    BY <1>5, <2>1 DEF Leave, Typed
<1>6. CASE BspInside(c) \/ SetAllInSync(c) \/ BspExit(c)
  <2>1. At
    BY <1>6, PlaceTyped DEF BspInside, SetAllInSync, BspExit, Places, BspPcs
  <2>2. sync' \in SyncData
    BY <1>6 DEF BspInside, SetAllInSync, BspExit, Typed, SyncData
  <2> QED
    BY <1>6, <2>1, <2>2 DEF BspInside, SetAllInSync, BspExit, Typed
<1>7. CASE BspPresent(c)
  <2>1. At
    BY <1>7, PlaceTyped DEF BspPresent, Places, BspPcs
  <2>2. smi' \in SmiData
    BY <1>7 DEF BspPresent, Typed, SmiData
  <2>3. cpu' \in [Cpus -> CpuData]
    BY <1>7, Parts, CpuFields DEF BspPresent
  <2> QED
    BY <1>7, <2>1, <2>2, <2>3 DEF BspPresent, Typed
<1>8. CASE Arrival(c)
  <2>1. At
    BY <1>8, PlaceTyped DEF Arrival, Places, BspPcs
  <2>2. smi' \in SmiData
    BY <1>8 DEF Arrival, SendSmiIpi, Typed, SmiData
  <2> QED
    BY <1>8, <2>1, <2>2 DEF Arrival, Typed
<1>9. CASE ArrivalAgain(c) \/ Drained(c) \/ AllPresent(c)
  <2>1. At
    BY <1>9, PlaceTyped DEF ArrivalAgain, Drained, AllPresent, Places, BspPcs
  <2> QED
    BY <1>9, <2>1 DEF ArrivalAgain, Drained, AllPresent, Typed
<1>10. CASE Lockdown(c)
  <2>1. At
    BY <1>10, PlaceTyped DEF Lockdown, Places, BspPcs
  <2>2. sync' \in SyncData
    <3>1. sync' = [sync EXCEPT !.counter = -1]
      BY <1>10 DEF Lockdown, Locked
    <3> QED
      BY <3>1, Parts, SyncFields
  <2>3. bsp' \in BspData
    <3>1. bsp' = [bsp EXCEPT !.apCount = sync.counter - 1]
      BY <1>10 DEF Lockdown
    <3>2. sync.counter - 1 \in Int
      BY Parts
    <3> QED
      BY <3>1, <3>2, Parts DEF BspData
  <2> QED
    BY <1>10, <2>1, <2>2, <2>3 DEF Lockdown, Typed
<1>11. CASE WaitForAllAPs(c)
  <2> DEFINE data == IF ReleasesAfter(pc[c]) THEN ReleasedAPs(c) ELSE cpu
  <2>1. data \in [Cpus -> CpuData] /\ data[c] = cpu[c]
    BY ReleasedTyped, Parts
  <2>2. cpu' = [data EXCEPT ![c].run = @ - bsp.apCount] /\ cpu[c].run >= bsp.apCount
    BY <1>11 DEF WaitForAllAPs, Gathered, Gather, Run
  <2>3. cpu[c].run - bsp.apCount \in Nat
    BY <2>2 DEF Typed, CpuData, BspData
  <2> HIDE DEF data
  <2>4. cpu' \in [Cpus -> CpuData]
    BY <2>1, <2>2, <2>3, CpuFields
  <2>5. GatherNext(pc[c]) \in Places
    BY <1>11 DEF WaitForAllAPs, GatherNext, Places, BspPcs
  <2>6. At
    BY <1>11, <2>5, PlaceTyped DEF WaitForAllAPs
  <2> QED
    BY <1>11, <2>4, <2>6 DEF WaitForAllAPs, Typed
<1>12. CASE BspMtrrs(c)
  <2>1. At
    BY <1>12, PlaceTyped DEF BspMtrrs, Places, BspPcs
  <2>2. mtrr' \in [Cpus -> {"os", "saved", "smm"}]
    BY <1>12 DEF BspMtrrs, Typed
  <2> QED
    BY <1>12, <2>1, <2>2 DEF BspMtrrs, Typed
<1>13. CASE HandlersDone(c)
  <2>1. At
    BY <1>13, PlaceTyped DEF HandlersDone, Places, BspPcs
  <2>2. bsp' \in BspData
    BY <1>13 DEF HandlersDone, Typed, BspData
  <2> QED
    BY <1>13, <2>1, <2>2 DEF HandlersDone, Typed
<1>14. CASE ReleaseToExit(c) \/ BspAbsent(c)
  <2>1. At
    BY <1>14, PlaceTyped DEF ReleaseToExit, BspAbsent, Places, BspPcs
  <2>2. cpu' \in [Cpus -> CpuData]
    <3>1. cpu' = ReleasedAPs(c) \/ cpu' = [cpu EXCEPT ![c].present = FALSE]
      BY <1>14 DEF ReleaseToExit, BspAbsent
    <3>2. [cpu EXCEPT ![c].present = FALSE] \in [Cpus -> CpuData]
      BY Parts, CpuFields
    <3> QED
      BY <3>1, <3>2, ReleasedTyped
  <2> QED
    BY <1>14, <2>1, <2>2 DEF ReleaseToExit, BspAbsent, Typed
<1>15. CASE GatherEnd(c)
  <2>1. At
    BY <1>15, PlaceTyped DEF GatherEnd, Places, BspPcs
  <2>2. cpu[c].run - bsp.apCount \in Nat
    BY <1>15 DEF GatherEnd, Gathered, Run, Typed, CpuData, BspData
  <2>3. cpu' \in [Cpus -> CpuData]
    BY <1>15, <2>2, Parts, CpuFields DEF GatherEnd, Gather
  <2>4. sync' \in SyncData
    BY <1>15 DEF GatherEnd, Typed, SyncData
  <2> QED
    BY <1>15, <2>1, <2>3, <2>4 DEF GatherEnd, Typed
<1>16. CASE Reopen(c)
  <2>1. At
    BY <1>16, PlaceTyped DEF Reopen, Places, BspPcs, Outside
  <2>2. sync' \in SyncData
    <3>1. CASE pc[c] = "reopen"
      BY <1>16, <3>1, Parts, SyncFields DEF Reopen
    <3>2. CASE pc[c] # "reopen"
      BY <1>16, <3>2, Parts DEF Reopen, SyncData
    <3> QED
      BY <3>1, <3>2
  <2> QED
    BY <1>16, <2>1, <2>2 DEF Reopen, Typed
<1> QED
  BY <1>1, <1>2, <1>3, <1>4, <1>5, <1>6, <1>7, <1>8, <1>9, <1>10, <1>11, <1>12, <1>13,
     <1>14, <1>15, <1>16 DEF SmiRendezvous, BSPHandler

(* The procedures and APHandler keep the types, given that an AP only calls
   what was given to it.                                                    *)
LEMMA ApTyped ==
  ASSUME Typed, Given, NEW c \in Cpus, Serving(c) \/ APHandler(c)
  PROVE  Typed'
<1> DEFINE At == pc' \in [Cpus -> Places]
<1> USE DEF Step
<1>1. ASSUME NEW d \in Cpus, NEW k \in Procedures, NEW blocking \in BOOLEAN,
             InternalSmmStartupThisAp(c, d, k, blocking)
      PROVE  Typed'
  <2>1. At
    BY <1>1, PlaceTyped DEF InternalSmmStartupThisAp, Places, BspPcs
  <2>2. cpu' \in [Cpus -> CpuData]
    <3> DEFINE one == [cpu EXCEPT ![d].busy = TRUE]
               two == [one EXCEPT ![d].proc = k]
    <3>1. one \in [Cpus -> CpuData]
      BY Parts, CpuFields
    <3>2. two \in [Cpus -> CpuData] /\ two[d].run \in Nat
      <4> HIDE DEF one
      <4>1. [one[d] EXCEPT !.proc = k] \in CpuData
        BY <3>1 DEF CpuData
      <4>2. two \in [Cpus -> CpuData]
        BY <3>1, <4>1
      <4> HIDE DEF two
      <4> QED
        BY <4>2 DEF CpuData
    <3>3. cpu' = [two EXCEPT ![d].run = @ + 1]
      BY <1>1 DEF InternalSmmStartupThisAp
    <3> HIDE DEF one, two
    <3> QED
      BY <3>2, <3>3, CpuFields
  <2>3. token' \in [Procedures -> Int \cup {None}]
    BY <1>1 DEF InternalSmmStartupThisAp, Typed
  <2>4. assigned' \in [Procedures -> (SUBSET Cpus) \cup {None}]
    BY <1>1 DEF InternalSmmStartupThisAp, Typed
  <2>5. bsp' \in BspData
    BY <1>1 DEF InternalSmmStartupThisAp, Typed, BspData
  <2> QED
    BY <1>1, <2>1, <2>2, <2>3, <2>4, <2>5 DEF InternalSmmStartupThisAp, Typed
<1>2. ASSUME NEW k \in Procedures, NEW blocking \in BOOLEAN, StartupAllAPs(c, k, blocking)
      PROVE  Typed'
  <2>1. At
    BY <1>2, PlaceTyped DEF StartupAllAPs, Places, BspPcs
  <2>2. token' \in [Procedures -> Int \cup {None}]
    BY <1>2, Markers DEF StartupAllAPs, Typed
  <2>3. assigned' \in [Procedures -> (SUBSET Cpus) \cup {None}]
    BY <1>2 DEF StartupAllAPs, Typed
  <2>4. bsp' \in BspData
    BY <1>2 DEF StartupAllAPs, Typed, BspData
  <2> QED
    BY <1>2, <2>1, <2>2, <2>3, <2>4 DEF StartupAllAPs, Typed
<1>3. CASE AcquireAllBusy(c)
  <2>1. At
    BY <1>3, PlaceTyped DEF AcquireAllBusy, Places, BspPcs
  <2>2. cpu' \in [Cpus -> CpuData]
    <3>1. \A r \in CpuData : [r EXCEPT !.busy = TRUE] \in CpuData
      BY DEF CpuData
    <3> QED
      BY <1>3, <3>1, Parts DEF AcquireAllBusy
  <2> QED
    BY <1>3, <2>1, <2>2 DEF AcquireAllBusy, Typed
<1>4. CASE ScheduleAll(c)
  <2> DEFINE aps == {d \in Cpus : IsPresentAp(c, d)}
             left == Cardinality(Cpus \ aps)
  <2>1. left \in Int
    BY Markers, FS_CardinalityType, FS_Subset
  <2>2. aps \in SUBSET Cpus
    OBVIOUS
  <2>3. /\ pc' = [pc EXCEPT ![c] = "start"]
        /\ cpu' = [d \in Cpus |-> IF d \in aps THEN [cpu[d] EXCEPT !.proc = bsp.proc] ELSE cpu[d]]
        /\ token' = [token EXCEPT ![bsp.proc] = IF @ = None THEN None ELSE @ - left]
        /\ assigned' = [assigned EXCEPT ![bsp.proc] = aps]
        /\ UNCHANGED <<config, smi, valid, sync, bsp, mtrr>>
    BY <1>4 DEF ScheduleAll, Goto
  <2> HIDE DEF aps, left
  <2>4. token' \in [Procedures -> Int \cup {None}]
    <3>1. \A x \in Int \cup {None} : (IF x = None THEN None ELSE x - left) \in Int \cup {None}
      BY <2>1
    <3> QED
      BY <2>3, <3>1 DEF Typed
  <2>5. assigned' \in [Procedures -> (SUBSET Cpus) \cup {None}]
    BY <2>2, <2>3 DEF Typed
  <2>6. cpu' \in [Cpus -> CpuData]
    <3>1. bsp.proc \in Procedures \cup {None}
      BY Parts DEF BspData
    <3>2. \A r \in CpuData : [r EXCEPT !.proc = bsp.proc] \in CpuData
      BY <3>1 DEF CpuData
    <3> QED
      BY <2>3, <3>2, Parts
  <2>7. At
    BY <1>4, PlaceTyped DEF ScheduleAll, Places, BspPcs
  <2> QED
    BY <2>3, <2>4, <2>5, <2>6, <2>7 DEF Typed
<1>5. CASE StartAll(c)
  <2>1. At
    BY <1>5, PlaceTyped DEF StartAll, Places, BspPcs
  <2>2. cpu' \in [Cpus -> CpuData]
    BY <1>5, ReleasedTyped DEF StartAll
  <2>3. bsp' \in BspData
    BY <1>5 DEF StartAll, Typed, BspData
  <2> QED
    BY <1>5, <2>1, <2>2, <2>3 DEF StartAll, Typed
<1>6. CASE Unblock(c) \/ SeeBsp(c) \/ ApCheck(c)
  <2>1. At
    BY <1>6, PlaceTyped DEF Unblock, SeeBsp, ApCheck, Places, BspPcs, ApPcs
  <2> QED
    BY <1>6, <2>1 DEF Unblock, SeeBsp, ApCheck, Typed
<1>7. CASE BspTimeout(c)
  <2>1. At
    BY <1>7, PlaceTyped DEF BspTimeout, Places, ApPcs
  <2>2. smi' \in SmiData
    BY <1>7 DEF BspTimeout, SendSmiIpi, Typed, SmiData, SyncData
  <2> QED
    BY <1>7, <2>1, <2>2 DEF BspTimeout, Typed
<1>8. CASE GiveUp(c)
  <2>1. At
    BY <1>8, PlaceTyped DEF GiveUp, Places, Outside
  <2>2. sync' \in SyncData
    BY <1>8, Parts, SyncFields DEF GiveUp
  <2> QED
    BY <1>8, <2>1, <2>2 DEF GiveUp, Typed
<1>9. CASE ApPresent(c) \/ ApIdle(c)
  <2>1. At
    BY <1>9, PlaceTyped DEF ApPresent, ApIdle, Places, ApPcs
  <2>2. cpu' \in [Cpus -> CpuData]
    <3>1. cpu' = [cpu EXCEPT ![c].present = TRUE] \/ cpu' = [cpu EXCEPT ![c].busy = FALSE]
      BY <1>9 DEF ApPresent, ApIdle
    <3>2. [cpu EXCEPT ![c].present = TRUE] \in [Cpus -> CpuData]
      BY Parts, CpuFields
    <3>3. [cpu EXCEPT ![c].busy = FALSE] \in [Cpus -> CpuData]
      BY Parts, CpuFields
    <3> QED
      BY <3>1, <3>2, <3>3
  <2> QED
    BY <1>9, <2>1, <2>2 DEF ApPresent, ApIdle, Typed
<1>10. CASE ApWake(c) \/ ApReset(c)
  <2>1. At
    BY <1>10, PlaceTyped DEF ApWake, ApReset, Places, ApPcs
  <2>2. cpu[c].run - 1 \in Nat
    BY <1>10 DEF ApWake, ApReset, Run, Typed, CpuData
  <2>3. cpu' \in [Cpus -> CpuData]
    <3>1. [cpu EXCEPT ![c].run = @ - 1] \in [Cpus -> CpuData]
      BY <2>2, Parts, CpuFields
    <3>2. [[cpu EXCEPT ![c].run = @ - 1] EXCEPT ![c].present = FALSE] \in [Cpus -> CpuData]
      BY <3>1, CpuFields
    <3> QED
      BY <1>10, <3>1, <3>2 DEF ApWake, ApReset, Taken
  <2> QED
    BY <1>10, <2>1, <2>3 DEF ApWake, ApReset, Typed
<1>11. CASE ApSignal(c)
  <2>1. SignalNext(pc[c]) \in Places
    BY <1>11 DEF ApSignal, SignalNext, Places, ApPcs, Outside
  <2>2. At
    BY <1>11, <2>1, PlaceTyped DEF ApSignal
  <2>3. cpu' \in [Cpus -> CpuData]
    <3>1. CASE sync.bsp \in Cpus
      <4>1. cpu[sync.bsp].run + 1 \in Nat
        BY <3>1, Parts
      <4>2. [cpu EXCEPT ![sync.bsp].run = cpu[sync.bsp].run + 1] \in [Cpus -> CpuData]
        BY <3>1, <4>1, Parts, CpuFields
      <4> QED
        BY <1>11, <4>2 DEF ApSignal, Released
    <3>2. CASE sync.bsp \notin Cpus
      BY <1>11, <3>2, Parts DEF ApSignal, Released
    <3> QED
      BY <3>1, <3>2
  <2> QED
    BY <1>11, <2>2, <2>3 DEF ApSignal, Typed
<1>12. CASE ApMtrrs(c)
  <2>1. At
    BY <1>12, PlaceTyped DEF ApMtrrs, Places, ApPcs
  <2>2. cpu[c].run - 1 \in Nat
    BY <1>12 DEF ApMtrrs, Run, Typed, CpuData
  <2>3. cpu' \in [Cpus -> CpuData]
    BY <1>12, <2>2, Parts, CpuFields DEF ApMtrrs, Taken
  <2>4. mtrr' \in [Cpus -> {"os", "saved", "smm"}]
    BY <1>12 DEF ApMtrrs, Typed
  <2> QED
    BY <1>12, <2>1, <2>3, <2>4 DEF ApMtrrs, Typed
<1>13. CASE ApExec(c)
  <2> DEFINE k == cpu[c].proc
  <2>1. k \in Procedures /\ assigned[k] \in SUBSET Cpus
    <3>1. k \in started
      BY <1>13 DEF ApExec, Given
    <3> QED
      BY <3>1 DEF started, Typed
  <2>2. /\ Goto(c, "apIdle")
        /\ assigned' = [assigned EXCEPT ![k] = @ \ {c}]
        /\ token' = [token EXCEPT ![k] = IF @ = None THEN None ELSE @ - 1]
        /\ UNCHANGED <<config, smi, valid, sync, cpu, bsp, mtrr>>
    BY <1>13 DEF ApExec
  <2> HIDE DEF k
  <2>3. assigned' \in [Procedures -> (SUBSET Cpus) \cup {None}]
    BY <2>1, <2>2 DEF Typed
  <2>4. token' \in [Procedures -> Int \cup {None}]
    BY <2>1, <2>2 DEF Typed
  <2>5. At
    BY <2>2, PlaceTyped DEF Places, ApPcs
  <2> QED
    BY <2>2, <2>3, <2>4, <2>5 DEF Typed
<1> QED
  BY <1>1, <1>2, <1>3, <1>4, <1>5, <1>6, <1>7, <1>8, <1>9, <1>10, <1>11, <1>12, <1>13
     DEF Serving, APHandler

-----------------------------------------------------------------------------
(* Counting                                                                 *)

(* Sets of processors are finite.                                           *)
LEMMA Few ==
  ASSUME NEW S \in SUBSET Cpus
  PROVE  IsFiniteSet(S) /\ Cardinality(S) \in Nat /\ (Cardinality(S) = 0 <=> S = {})
BY Markers, FS_Subset, FS_CardinalityType, FS_EmptySet

(* One more and one less.                                                   *)
LEMMA OneMore ==
  ASSUME NEW S \in SUBSET Cpus, NEW c \in Cpus, c \notin S
  PROVE  Cardinality(S \cup {c}) = Cardinality(S) + 1
BY Few, FS_AddElement
LEMMA OneLess ==
  ASSUME NEW S \in SUBSET Cpus, NEW c \in Cpus, c \in S
  PROVE  Cardinality(S \ {c}) = Cardinality(S) - 1
BY Few, FS_RemoveElement

(* A part as large as the whole is the whole.                               *)
LEMMA WholeSet ==
  ASSUME NEW S \in SUBSET Cpus, NEW T \in SUBSET S, Cardinality(T) >= Cardinality(S)
  PROVE  T = S
<1>1. Cardinality(T) <= Cardinality(S) /\ (Cardinality(S) = Cardinality(T) => S = T)
  BY Few, FS_Subset
<1>2. Cardinality(T) \in Nat /\ Cardinality(S) \in Nat
  BY Few
<1> QED
  BY <1>1, <1>2

(* The members, and those that owe a signal, are processors.                *)
LEMMA Counted ==
  ASSUME NEW b \in Cpus
  PROVE  /\ Members \in SUBSET Cpus /\ Cardinality(Members) \in Nat
         /\ Owing(b) \in SUBSET Members /\ Cardinality(Owing(b)) \in Nat
<1>1. Members \in SUBSET Cpus /\ Owing(b) \in SUBSET Members
  BY DEF Members, Owing
<1>2. Owing(b) \in SUBSET Cpus
  BY <1>1
<1> QED
  BY <1>1, <1>2, Few

-----------------------------------------------------------------------------
(* Single stores                                                            *)

(* A step takes one processor from a place to another.                      *)
LEMMA Went ==
  ASSUME Typed, NEW c \in Cpus, NEW next, Goto(c, next)
  PROVE  pc'[c] = next /\ \A d \in Cpus : d # c => pc'[d] = pc[d]
BY DEF Typed, Goto

(* A store to a processor's semaphore, lock or flag.                        *)
SameBut(c) == \A d \in Cpus : d # c => cpu'[d] = cpu[d]
LEMMA RunStored ==
  ASSUME Typed, NEW c \in Cpus, NEW n, cpu' = [cpu EXCEPT ![c].run = n]
  PROVE  /\ SameBut(c) /\ cpu'[c].run = n /\ cpu'[c].busy = cpu[c].busy
         /\ cpu'[c].present = cpu[c].present /\ cpu'[c].proc = cpu[c].proc
<1>1. cpu'[c] = [cpu[c] EXCEPT !.run = n] /\ SameBut(c)
  BY Parts DEF SameBut
<1> QED
  BY <1>1, Parts DEF CpuData
LEMMA BusyStored ==
  ASSUME Typed, NEW c \in Cpus, NEW x, cpu' = [cpu EXCEPT ![c].busy = x]
  PROVE  /\ SameBut(c) /\ cpu'[c].run = cpu[c].run /\ cpu'[c].busy = x
         /\ cpu'[c].present = cpu[c].present /\ cpu'[c].proc = cpu[c].proc
<1>1. cpu'[c] = [cpu[c] EXCEPT !.busy = x] /\ SameBut(c)
  BY Parts DEF SameBut
<1> QED
  BY <1>1, Parts DEF CpuData
LEMMA PresentStored ==
  ASSUME Typed, NEW c \in Cpus, NEW x, cpu' = [cpu EXCEPT ![c].present = x]
  PROVE  /\ SameBut(c) /\ cpu'[c].run = cpu[c].run /\ cpu'[c].busy = cpu[c].busy
         /\ cpu'[c].present = x /\ cpu'[c].proc = cpu[c].proc
<1>1. cpu'[c] = [cpu[c] EXCEPT !.present = x] /\ SameBut(c)
  BY Parts DEF SameBut
<1> QED
  BY <1>1, Parts DEF CpuData

(* ReleaseAllAPs                                                            *)
LEMMA APsReleased ==
  ASSUME Typed, NEW b \in Cpus, NEW c \in Cpus
  PROVE  /\ ReleasedAPs(b)[c].run = IF c # b /\ cpu[c].present THEN cpu[c].run + 1 ELSE cpu[c].run
         /\ ReleasedAPs(b)[c].busy = cpu[c].busy
         /\ ReleasedAPs(b)[c].present = cpu[c].present
         /\ ReleasedAPs(b)[c].proc = cpu[c].proc
<1>1. ReleasedAPs(b)[c] = IF c # b /\ cpu[c].present THEN [cpu[c] EXCEPT !.run = @ + 1] ELSE cpu[c]
  BY DEF ReleasedAPs, IsPresentAp
<1> QED
  BY <1>1, Parts DEF CpuData

-----------------------------------------------------------------------------
(* Steps by kind                                                            *)

(* The invariant is restored when a BSP is found to lead, ...               *)
LEMMA LedRestored ==
  ASSUME NEW b \in Cpus, Led(b)', \A c \in Cpus : Own(c)'
  PROVE  RInv'
<1>1. pc'[b] \in Leading /\ \A c \in Cpus : c # b => pc'[c] \notin Leading
  BY DEF Led, Way, OnItsWay, Others
<1> QED
  BY <1>1 DEF RInv, NoBsp

(* ... or when there is none.                                               *)
LEMMA OpenRestored ==
  ASSUME NoBsp', Open', \A c \in Cpus : Own(c)'
  PROVE  RInv'
BY DEF RInv, NoBsp

(* What a processor has of its own stays as long as its place does.         *)
LEMMA OwnKept ==
  ASSUME NEW d \in Cpus, Own(d), config' = config, pc'[d] = pc[d],
         cpu'[d].present = cpu[d].present, mtrr'[d] = mtrr[d],
         cpu'[d].run = cpu[d].run \/ pc[d] \in Leading \cup Joined
  PROVE  Own(d)'
BY DEF Own, Run

(* There is a BSP when a processor is past the waiting.                     *)
LEMMA HasBsp ==
  ASSUME SInv, NEW c \in Cpus, pc[c] \in Joined, pc[c] \notin Waiting
  PROVE  \E b \in Cpus : b # c /\ Led(b) /\ Works(b) /\ Excluded(b)
<1>1. ~NoBsp
  BY DEF SInv, RInv, Open
<1>2. PICK b \in Cpus : pc[b] \in Leading
  BY <1>1 DEF NoBsp
<1>3. b # c
  BY <1>2 DEF Leading, Joined, BspPcs, ApPcs
<1> QED
  BY <1>2, <1>3 DEF SInv, RInv, WInv, EInv

(* A step of an AP that stays: it signals the BSP, or what it owes stays.   *)
LEMMA ApMoves ==
  ASSUME Typed, NEW b \in Cpus, NEW c \in Cpus, c # b, Led(b),
         config' = config, sync' = sync, bsp' = bsp,
         \A d \in Cpus : d # c => pc'[d] = pc[d],
         \A d \in Cpus : d # c /\ d # b => cpu'[d].run = cpu[d].run,
         pc[c] \in Joined, pc'[c] \in Joined,
         Follows(config, pc[b], pc'[c], cpu'[c].run),
         \/ /\ cpu'[b].run = cpu[b].run
            /\ Gave(config, pc[b], pc'[c]) <=> Gave(config, pc[b], pc[c])
         \/ /\ cpu'[b].run = cpu[b].run + 1
            /\ Gave(config, pc[b], pc'[c]) /\ ~Gave(config, pc[b], pc[c])
  PROVE  Led(b)'
<1>1. pc'[b] = pc[b]
  OBVIOUS
<1>2. Way(b)'
  BY <1>1 DEF Led, Way
<1>3. Others(b)'
  <2>1. pc'[c] \notin Leading /\ pc'[c] # "unsync"
    BY DEF Leading, Joined, BspPcs, ApPcs
  <2> QED
    BY <1>1, <2>1 DEF Led, Others, Run
<1>4. Members' = Members
  BY <1>1 DEF Members
<1>5. c \in Members /\ c # b
  BY DEF Members
<1>6. Run(b)' + Cardinality(Owing(b)') = Run(b) + Cardinality(Owing(b))
  <2>1. CASE /\ cpu'[b].run = cpu[b].run
             /\ Gave(config, pc[b], pc'[c]) <=> Gave(config, pc[b], pc[c])
    <3>1. Owing(b)' = Owing(b)
      BY <1>1, <1>4, <2>1 DEF Owing, Members
    <3> QED
      BY <2>1, <3>1 DEF Run
  <2>2. CASE /\ cpu'[b].run = cpu[b].run + 1
             /\ Gave(config, pc[b], pc'[c]) /\ ~Gave(config, pc[b], pc[c])
    <3>1. Owing(b)' = Owing(b) \ {c} /\ c \in Owing(b)
      BY <1>1, <1>4, <1>5, <2>2 DEF Owing, Members
    <3>2. Owing(b) \in SUBSET Cpus /\ Cardinality(Owing(b)) \in Nat
      BY Counted
    <3>3. Cardinality(Owing(b)') = Cardinality(Owing(b)) - 1
      BY <3>1, <3>2, OneLess
    <3>4. cpu[b].run \in Nat
      BY Parts
    <3> QED
      BY <2>2, <3>2, <3>3, <3>4 DEF Run
  <2> QED
    BY <2>1, <2>2
<1>7. pc[b] # "reopen"
  BY <1>5 DEF Led, Counts
<1>8. Counts(b)'
  BY <1>1, <1>4, <1>6, <1>7 DEF Led, Counts
<1> QED
  BY <1>2, <1>3, <1>8 DEF Led

(* A step of a processor that is not counted, before and after.             *)
LEMMA OutsideMoves ==
  ASSUME Typed, RInv, NEW c \in Cpus,
         config' = config, cpu' = cpu, bsp' = bsp, mtrr' = mtrr,
         sync' = sync \/ (pc[c] = "unsync" /\ sync' = [sync EXCEPT !.allInSync = FALSE]),
         \A d \in Cpus : d # c => pc'[d] = pc[d],
         pc[c] \in Outside \cup {"sample", "checkin", "unsync"},
         pc'[c] \in Outside \cup {"sample", "checkin"}
  PROVE  RInv'
<1>1. /\ sync'.counter = sync.counter /\ sync'.inside = sync.inside /\ sync'.bsp = sync.bsp
      /\ pc[c] # "unsync" => sync'.allInSync = sync.allInSync
  BY Parts DEF SyncData
<1>2. /\ pc[c] \notin Leading /\ pc'[c] \notin Leading
      /\ pc[c] \notin Joined /\ pc'[c] \notin Joined
      /\ pc[c] \notin PresentPcs /\ pc'[c] \notin PresentPcs
      /\ pc[c] \notin SavedPcs \cup SmmPcs /\ pc'[c] \notin SavedPcs \cup SmmPcs
      /\ pc'[c] # "unsync"
  BY DEF Outside, Leading, Joined, PresentPcs, SavedPcs, SmmPcs, BspPcs, ApPcs, Running, Waiting
<1>3. \A d \in Cpus : Own(d)'
  <2>1. Own(c)'
    BY <1>2 DEF RInv, Own, Run, Mtrr
  <2>2. ASSUME NEW d \in Cpus, d # c
        PROVE  Own(d)'
    BY <2>2, OwnKept DEF RInv
  <2> QED
    BY <2>1, <2>2
<1>4. Members' = Members
  BY <1>2 DEF Members
<1>5. CASE NoBsp
  <2>1. NoBsp'
    BY <1>2, <1>5 DEF NoBsp
  <2>2. Open'
    BY <1>1, <1>2, <1>4, <1>5 DEF RInv, Open, Run
  <2> QED
    BY <1>3, <2>1, <2>2, OpenRestored
<1>6. ASSUME NEW b \in Cpus, pc[b] \in Leading
      PROVE  RInv'
  <2>1. b # c /\ Led(b) /\ pc'[b] = pc[b]
    BY <1>2, <1>6 DEF RInv
  <2>2. Way(b)'
    <3>1. pc[c] = "unsync" => ~Closed(config, pc[b]) /\ pc[b] # "lockdown"
      BY <2>1 DEF Led, Others, Firm
    <3> QED
      BY <1>1, <2>1, <3>1 DEF Led, Way
  <2>3. Others(b)'
    BY <1>2, <2>1 DEF Led, Others, Run
  <2>4. Owing(b)' = Owing(b)
    BY <1>2, <1>4, <2>1 DEF Owing, Members
  <2>5. Counts(b)'
    BY <1>1, <1>4, <2>1, <2>4 DEF Led, Counts, Run
  <2> QED
    BY <1>3, <2>2, <2>3, <2>5, LedRestored DEF Led
<1> QED
  BY <1>5, <1>6 DEF NoBsp

-----------------------------------------------------------------------------
(* SmiRendezvous                                                            *)

LEMMA OutsideSteps ==
  ASSUME Typed, RInv, NEW c \in Cpus,
         \/ Enter(c) \/ Sample(c) \/ Leave(c)
         \/ CheckIn(c) /\ sync.counter = Locked
         \/ Reopen(c) /\ pc[c] = "unsync"
  PROVE  RInv'
<1> USE DEF Step
<1>1. PICK next \in Outside \cup {"sample", "checkin"} : Goto(c, next)
  BY DEF Enter, Sample, Leave, CheckIn, Reopen, Outside
<1>2. pc'[c] = next /\ \A d \in Cpus : d # c => pc'[d] = pc[d]
  BY <1>1, Went
<1>3. /\ config' = config /\ cpu' = cpu /\ bsp' = bsp /\ mtrr' = mtrr
      /\ pc[c] \in Outside \cup {"sample", "checkin", "unsync"}
      /\ sync' = sync \/ (pc[c] = "unsync" /\ sync' = [sync EXCEPT !.allInSync = FALSE])
  BY DEF Enter, Sample, Leave, CheckIn, Reopen, Outside
<1> QED
  BY <1>2, <1>3, OutsideMoves

(* A processor that checks in is counted, and waits.                        *)
LEMMA CheckInSteps ==
  ASSUME Typed, Typed', RInv, NEW c \in Cpus, CheckIn(c), sync.counter # Locked
  PROVE  RInv'
<1>1. PICK next \in {"elect", "waitBsp"} : Goto(c, next)
  BY DEF CheckIn, Step
<1>2. pc'[c] = next /\ \A d \in Cpus : d # c => pc'[d] = pc[d]
  BY <1>1, Went
<1>3. /\ pc[c] = "checkin" /\ config' = config /\ bsp' = bsp /\ mtrr' = mtrr
      /\ sync' = [sync EXCEPT !.counter = @ + 1]
      /\ cpu' = [cpu EXCEPT ![c].busy = FALSE]
  BY DEF CheckIn, Step
<1>4. /\ sync'.counter = sync.counter + 1 /\ sync'.inside = sync.inside
      /\ sync'.allInSync = sync.allInSync /\ sync'.bsp = sync.bsp
  BY <1>3, Parts DEF SyncData
<1>5. /\ \A d \in Cpus : cpu'[d].run = cpu[d].run /\ cpu'[d].present = cpu[d].present
  BY <1>3, BusyStored DEF SameBut
<1>6. /\ pc[c] \notin Leading \cup Joined /\ pc'[c] \in Joined \cap Waiting
      /\ pc'[c] \notin Leading /\ pc[c] \notin PresentPcs /\ pc'[c] \notin PresentPcs
      /\ pc[c] \notin SavedPcs \cup SmmPcs /\ pc'[c] \notin SavedPcs \cup SmmPcs
      /\ pc'[c] # "unsync"
  BY <1>2, <1>3 DEF Leading, Joined, Waiting, PresentPcs, SavedPcs, SmmPcs, BspPcs, ApPcs, Running
<1>7. cpu[c].run = 0
  BY <1>6 DEF RInv, Own, Run
<1>8. \A d \in Cpus : Own(d)'
  <2>1. Own(c)'
    BY <1>3, <1>5, <1>6 DEF RInv, Own, Run, Mtrr
  <2>2. ASSUME NEW d \in Cpus, d # c
        PROVE  Own(d)'
    BY <1>2, <1>3, <1>5, <2>2, OwnKept DEF RInv
  <2> QED
    BY <2>1, <2>2
<1>9. Members' = Members \cup {c} /\ c \notin Members
  BY <1>2, <1>6 DEF Members
<1>10. Cardinality(Members') = Cardinality(Members) + 1
  BY <1>9, Counted, OneMore
<1>11. CASE NoBsp
  <2>1. NoBsp'
    BY <1>2, <1>6, <1>11 DEF NoBsp
  <2>2. Open'
    BY <1>2, <1>3, <1>4, <1>5, <1>6, <1>7, <1>10, <1>11 DEF RInv, Open, Run
  <2> QED
    BY <1>8, <2>1, <2>2, OpenRestored
<1>12. ASSUME NEW b \in Cpus, pc[b] \in Leading
       PROVE  RInv'
  <2>1. b # c /\ Led(b) /\ pc'[b] = pc[b]
    BY <1>2, <1>6, <1>12 DEF RInv
  <2>2. ~Closed(config, pc[b])
    BY <2>1 DEF Led, Counts
  <2>3. Early(config, pc[b])
    BY <2>1, <2>2 DEF Led, Way, OnItsWay, Closed, Early, Arriving, Leading, BspPcs, Calling, Running
  <2>4. Way(b)'
    BY <1>3, <1>4, <2>1 DEF Led, Way
  <2>5. Others(b)'
    <3>1. Follows(config, pc[b], pc'[c], 0)
      BY <1>2, <2>3 DEF Follows
    <3> QED
      BY <1>2, <1>3, <1>5, <1>6, <1>7, <2>1, <3>1 DEF Led, Others, Run
  <2>6. Owing(b)' = Owing(b) \cup {c} /\ c \notin Owing(b)
    <3>1. ~Gave(config, pc[b], pc'[c])
      BY <1>2 DEF Gave
    <3> QED
      BY <1>2, <1>3, <1>9, <2>1, <3>1 DEF Owing, Members
  <2>7. Cardinality(Owing(b)') = Cardinality(Owing(b)) + 1
    BY <2>6, Counted, OneMore
  <2>8. pc[b] \notin Ending \cup {"reopen"}
    BY <2>2 DEF Closed, Ending, Leading, BspPcs, Calling, Running
  <2>9. cpu[b].run \in Nat /\ Cardinality(Owing(b)) \in Nat /\ Cardinality(Members) \in Nat
    BY Parts, Counted
  <2>10. Counts(b)'
    BY <1>3, <1>4, <1>5, <1>10, <2>1, <2>2, <2>7, <2>8, <2>9 DEF Led, Counts, Run
  <2> QED
    BY <1>8, <2>4, <2>5, <2>10, LedRestored DEF Led
<1> QED
  BY <1>11, <1>12 DEF NoBsp

(* The first to be elected becomes the BSP; who comes later waits for it.   *)
LEMMA ElectSteps ==
  ASSUME SInv, Typed', NEW c \in Cpus, Elect(c)
  PROVE  RInv'
<1>1. PICK next \in {"bspInside", "waitBsp"} : Goto(c, next) /\ (next = "bspInside" <=> sync'.bsp = c)
  BY DEF Elect
<1>2. pc'[c] = next /\ \A d \in Cpus : d # c => pc'[d] = pc[d]
  BY <1>1, Went DEF SInv
<1>3. /\ pc[c] = "elect" /\ config' = config /\ bsp' = bsp /\ mtrr' = mtrr /\ cpu' = cpu
      /\ sync' = IF config.election /\ sync.bsp = None THEN [sync EXCEPT !.bsp = c] ELSE sync
  BY DEF Elect
<1>4. /\ sync'.counter = sync.counter /\ sync'.inside = sync.inside
      /\ sync'.allInSync = sync.allInSync
      /\ sync'.bsp = IF config.election /\ sync.bsp = None THEN c ELSE sync.bsp
  BY <1>3, Parts DEF SInv, SyncData
<1>5. /\ pc[c] \in Joined /\ pc[c] \notin Leading
      /\ pc'[c] \in Leading \cup Joined /\ pc'[c] \notin PresentPcs /\ pc[c] \notin PresentPcs
      /\ pc[c] \notin SavedPcs \cup SmmPcs /\ pc'[c] \notin SavedPcs \cup SmmPcs
      /\ "waitBsp" \in Joined \cap Waiting /\ "waitBsp" \notin Leading
      /\ "bspInside" \notin Joined /\ "bspInside" \in Leading
  BY <1>2, <1>3 DEF Leading, Joined, Waiting, PresentPcs, SavedPcs, SmmPcs, BspPcs, ApPcs, Running
<1>6. \A d \in Cpus : Own(d)'
  <2>1. Own(c)'
    BY <1>3, <1>5 DEF SInv, RInv, Own, Run, Mtrr
  <2>2. ASSUME NEW d \in Cpus, d # c
        PROVE  Own(d)'
    BY <1>2, <1>3, <2>2, OwnKept DEF SInv, RInv
  <2> QED
    BY <2>1, <2>2
<1>7. Members' = Members /\ c \in Members
  BY <1>2, <1>5 DEF Members
<1>8. CASE NoBsp /\ next = "waitBsp"
  <2>1. NoBsp'
    BY <1>2, <1>5, <1>8 DEF NoBsp
  <2>2. Open'
    <3>1. Open
      BY <1>8 DEF SInv, RInv
    <3>2. ~config.election
      BY <1>1, <1>4, <1>8, <3>1 DEF Open
    <3> QED
      BY <1>2, <1>3, <1>4, <1>5, <1>7, <1>8, <3>1, <3>2 DEF Open, Run
  <2> QED
    BY <1>6, <2>1, <2>2, OpenRestored
<1>9. CASE NoBsp /\ next = "bspInside"
  <2>1. Open
    BY <1>9 DEF SInv, RInv
  <2>2. Way(c)'
    <3>1. /\ OnItsWay(config, "bspInside") /\ ~Closed(config, "bspInside")
          /\ "bspInside" \notin InsidePcs
      BY DEF OnItsWay, Leading, BspPcs, Saving, Setting, Restoring, Broadcast, Closed, Calling,
             InsidePcs
    <3>2. sync'.inside = FALSE /\ sync'.bsp = c /\ pc'[c] = "bspInside"
      <4>1. sync.inside \in BOOLEAN
        BY Parts DEF SInv, SyncData
      <4> QED
        BY <1>1, <1>2, <1>4, <1>9, <2>1, <4>1 DEF Open
    <3> QED
      BY <1>3, <3>1, <3>2 DEF Way
  <2>3. \A q \in Waiting : Follows(config, "bspInside", q, 0)
    BY DEF Waiting, Follows, Early, Arriving, Firm, Closed, Calling, Leading, BspPcs, Running
  <2>4. ~Firm(config, "bspInside")
    BY DEF Firm, Closed, Calling
  <2>5. Others(c)'
    BY <1>2, <1>3, <1>9, <2>1, <2>3, <2>4 DEF Open, Others, Run, NoBsp
  <2>6. Owing(c)' = Members \ {c}
    <3>1. \A q \in Waiting : ~Gave(config, "bspInside", q)
      BY DEF Gave, Waiting, Saving, Setting, Restoring
    <3> QED
      BY <1>2, <1>3, <1>7, <1>9, <2>1, <3>1 DEF Open, Owing, Members, NoBsp
  <2>7. Cardinality(Owing(c)') = Cardinality(Members) - 1 /\ Cardinality(Members) \in Nat
    BY <1>7, <2>6, OneLess, Counted
  <2>8. Run(c)' = 0
    BY <1>3, <1>5, <2>1 DEF Open, Run
  <2>9. Counts(c)'
    <3>1. ~Closed(config, "bspInside") /\ "bspInside" \notin Ending \cup {"reopen"}
      BY DEF Closed, Calling, Ending
    <3> QED
      BY <1>2, <1>3, <1>4, <1>7, <1>9, <2>1, <2>7, <2>8, <3>1 DEF Open, Counts
  <2> QED
    BY <1>6, <2>2, <2>5, <2>9, LedRestored DEF Led
<1>10. ASSUME NEW b \in Cpus, pc[b] \in Leading
       PROVE  RInv'
  <2>1. b # c /\ Led(b)
    BY <1>5, <1>10 DEF SInv, RInv
  <2>2. sync.bsp = b /\ sync' = sync /\ next = "waitBsp"
    <3>1. pc[b] # "reopen"
      BY <1>7, <2>1 DEF Led, Counts
    <3>2. sync.bsp = b
      BY <2>1, <3>1 DEF Led, Way
    <3> QED
      BY <1>1, <1>3, <1>4, <2>1, <3>2, Markers
  <2>3. Follows(config, pc[b], "elect", cpu[c].run)
    BY <1>3, <1>5, <2>1 DEF Led, Others, Run
  <2>4. /\ Follows(config, pc[b], "waitBsp", cpu[c].run)
        /\ ~Gave(config, pc[b], "waitBsp") /\ ~Gave(config, pc[b], "elect")
    BY <2>3 DEF Follows, Gave
  <2>5. Led(b)'
    BY <1>2, <1>3, <1>5, <2>1, <2>2, <2>4, ApMoves DEF SInv
  <2> QED
    BY <1>6, <2>5, LedRestored
<1> QED
  BY <1>1, <1>8, <1>9, <1>10 DEF NoBsp

-----------------------------------------------------------------------------
(* APHandler                                                                *)

(* A step of an AP that stays, with what belongs to the processors.         *)
LEMMA ApStays ==
  ASSUME Typed, RInv, NEW b \in Cpus, NEW c \in Cpus, c # b, Led(b),
         config' = config, sync' = sync, bsp' = bsp,
         \A d \in Cpus : d # c => pc'[d] = pc[d],
         \A d \in Cpus : d # c =>
           /\ cpu'[d].present = cpu[d].present /\ mtrr'[d] = mtrr[d]
           /\ d # b => cpu'[d].run = cpu[d].run,
         pc[c] \in Joined, pc'[c] \in Joined,
         cpu'[c].present <=> pc'[c] \in PresentPcs, mtrr'[c] = Mtrr(config, pc'[c]),
         Follows(config, pc[b], pc'[c], cpu'[c].run),
         \/ /\ cpu'[b].run = cpu[b].run
            /\ Gave(config, pc[b], pc'[c]) <=> Gave(config, pc[b], pc[c])
         \/ /\ cpu'[b].run = cpu[b].run + 1
            /\ Gave(config, pc[b], pc'[c]) /\ ~Gave(config, pc[b], pc[c])
  PROVE  RInv'
<1>1. Led(b)'
  BY ApMoves
<1>2. pc[b] \in Leading
  BY DEF Led, Way, OnItsWay
<1>3. \A d \in Cpus : Own(d)'
  <2>1. Own(c)'
    BY DEF Own
  <2>2. ASSUME NEW d \in Cpus, d # c
        PROVE  Own(d)'
    BY <1>2, <2>2, OwnKept DEF RInv
  <2> QED
    BY <2>1, <2>2
<1> QED
  BY <1>1, <1>3, LedRestored

(* An AP waits for the BSP to be inside SMM.                                *)
LEMMA WaitSteps ==
  ASSUME SInv, NEW c \in Cpus, SeeBsp(c) \/ BspTimeout(c)
  PROVE  RInv'
<1>1. PICK next \in {"apPresent", "waitBspAgain", "giveUp"} :
        Goto(c, next) /\ (next = "apPresent" <=> sync.inside)
  BY DEF SeeBsp, BspTimeout, Step
<1>2. pc'[c] = next /\ \A d \in Cpus : d # c => pc'[d] = pc[d]
  BY <1>1, Went DEF SInv
<1>3. /\ pc[c] \in {"waitBsp", "waitBspAgain"}
      /\ config' = config /\ bsp' = bsp /\ mtrr' = mtrr /\ cpu' = cpu /\ sync' = sync
  BY DEF SeeBsp, BspTimeout, Step
<1>4. /\ pc[c] \in Joined /\ pc'[c] \in Joined
      /\ pc[c] \notin Leading /\ pc'[c] \notin Leading
      /\ pc'[c] \notin PresentPcs /\ pc[c] \notin PresentPcs
      /\ pc[c] \notin SavedPcs \cup SmmPcs /\ pc'[c] \notin SavedPcs \cup SmmPcs
      /\ pc'[c] \in Waiting \/ pc'[c] = "apPresent"
  BY <1>2, <1>3 DEF Leading, Joined, Waiting, PresentPcs, SavedPcs, SmmPcs, BspPcs, ApPcs, Running
<1>5. cpu'[c].present <=> pc'[c] \in PresentPcs
  BY <1>3, <1>4 DEF SInv, RInv, Own
<1>6. mtrr'[c] = Mtrr(config, pc'[c])
  BY <1>3, <1>4 DEF SInv, RInv, Own, Mtrr
<1>7. CASE NoBsp
  <2>1. Open
    BY <1>7 DEF SInv, RInv
  <2>2. pc'[c] \in Waiting
    BY <1>1, <1>2, <1>4, <2>1 DEF Open
  <2>3. Members' = Members
    BY <1>2, <1>4 DEF Members
  <2>4. Open'
    BY <1>2, <1>3, <1>4, <2>1, <2>2, <2>3 DEF Open, Run
  <2>5. NoBsp'
    BY <1>2, <1>4, <1>7 DEF NoBsp
  <2>6. \A d \in Cpus : Own(d)'
    <3>1. Own(c)'
      BY <1>3, <1>4, <1>5, <1>6 DEF Own
    <3>2. ASSUME NEW d \in Cpus, d # c
          PROVE  Own(d)'
      BY <1>2, <1>3, <3>2, OwnKept DEF SInv, RInv
    <3> QED
      BY <3>1, <3>2
  <2> QED
    BY <2>4, <2>5, <2>6, OpenRestored
<1>8. ASSUME NEW b \in Cpus, pc[b] \in Leading
      PROVE  RInv'
  <2>1. b # c /\ Led(b)
    BY <1>4, <1>8 DEF SInv, RInv
  <2>2. Follows(config, pc[b], pc[c], cpu[c].run)
    BY <1>4, <2>1 DEF Led, Others, Run
  <2>3. cpu[c].run = 0 /\ Early(config, pc[b])
    BY <1>3, <2>2 DEF Follows
  <2>4. ~sync.inside => pc[b] = "bspInside"
    BY <2>1, <2>3 DEF Led, Way, Early, Arriving, InsidePcs, Leading, BspPcs, Calling, Running,
       Restoring, Ending
  <2>5. pc[b] = "bspInside" => ~Firm(config, pc[b])
    BY DEF Firm, Closed, Calling
  <2>6. Follows(config, pc[b], pc'[c], cpu'[c].run)
    BY <1>1, <1>2, <1>3, <2>3, <2>4, <2>5 DEF Follows
  <2>7. ~Gave(config, pc[b], pc'[c]) /\ ~Gave(config, pc[b], pc[c])
    BY <1>2, <1>3 DEF Gave
  <2> QED
    BY <1>2, <1>3, <1>4, <1>5, <1>6, <2>1, <2>6, <2>7, ApStays DEF SInv
<1> QED
  BY <1>7, <1>8 DEF NoBsp

(* An AP that gives up takes itself out of the counter.                     *)
LEMMA GiveUpSteps ==
  ASSUME SInv, NEW c \in Cpus, GiveUp(c)
  PROVE  RInv'
<1>1. pc'[c] = "leave" /\ \A d \in Cpus : d # c => pc'[d] = pc[d]
  BY Went DEF SInv, GiveUp, Step
<1>2. /\ pc[c] = "giveUp" /\ config' = config /\ bsp' = bsp /\ mtrr' = mtrr /\ cpu' = cpu
      /\ sync' = [sync EXCEPT !.counter = @ - 1]
  BY DEF GiveUp, Step
<1>3. /\ sync'.counter = sync.counter - 1 /\ sync'.inside = sync.inside
      /\ sync'.allInSync = sync.allInSync /\ sync'.bsp = sync.bsp
  BY <1>2, Parts DEF SInv, SyncData
<1>4. /\ pc[c] \in Joined /\ pc'[c] \notin Joined \cup Leading /\ pc[c] \notin Leading
      /\ pc'[c] \notin PresentPcs /\ pc[c] \notin PresentPcs
      /\ pc[c] \notin SavedPcs \cup SmmPcs /\ pc'[c] \notin SavedPcs \cup SmmPcs
  BY <1>1, <1>2 DEF Leading, Joined, Waiting, PresentPcs, SavedPcs, SmmPcs, BspPcs, ApPcs, Running
<1>5. Members' = Members \ {c} /\ c \in Members
  BY <1>1, <1>4 DEF Members
<1>6. Cardinality(Members') = Cardinality(Members) - 1 /\ Cardinality(Members) \in Nat
  BY <1>5, Counted, OneLess
<1>7. \A b \in Cpus : Led(b) => c # b /\ Follows(config, pc[b], "giveUp", cpu[c].run)
  BY <1>2, <1>4 DEF Led, Way, OnItsWay, Others, Run
<1>8. cpu[c].run = 0
  <2>1. CASE NoBsp
    BY <1>4, <2>1 DEF SInv, RInv, Open, Run
  <2>2. CASE ~NoBsp
    BY <1>7, <2>2 DEF SInv, RInv, NoBsp, Follows
  <2> QED
    BY <2>1, <2>2
<1>9. \A d \in Cpus : Own(d)'
  <2>1. Own(c)'
    BY <1>2, <1>4, <1>8 DEF SInv, RInv, Own, Run, Mtrr
  <2>2. ASSUME NEW d \in Cpus, d # c
        PROVE  Own(d)'
    BY <1>1, <1>2, <2>2, OwnKept DEF SInv, RInv
  <2> QED
    BY <2>1, <2>2
<1>10. CASE NoBsp
  <2>1. Open'
    BY <1>1, <1>2, <1>3, <1>4, <1>6, <1>10 DEF SInv, RInv, Open, Run
  <2>2. NoBsp'
    BY <1>1, <1>4, <1>10 DEF NoBsp
  <2> QED
    BY <1>9, <2>1, <2>2, OpenRestored
<1>11. ASSUME NEW b \in Cpus, pc[b] \in Leading
       PROVE  RInv'
  <2>1. Led(b) /\ b # c /\ pc'[b] = pc[b]
    BY <1>1, <1>4, <1>11 DEF SInv, RInv
  <2>2. ~Firm(config, pc[b])
    BY <1>7, <2>1 DEF Follows
  <2>3. ~Closed(config, pc[b])
    BY <2>2 DEF Firm
  <2>4. Way(b)'
    BY <1>2, <1>3, <2>1 DEF Led, Way
  <2>5. Others(b)'
    BY <1>1, <1>2, <1>4, <2>1 DEF Led, Others, Run
  <2>6. Owing(b)' = Owing(b) \ {c} /\ c \in Owing(b)
    <3>1. ~Gave(config, pc[b], pc[c])
      BY <1>2 DEF Gave
    <3> QED
      BY <1>1, <1>2, <1>5, <2>1, <3>1 DEF Owing, Members
  <2>7. Cardinality(Owing(b)') = Cardinality(Owing(b)) - 1 /\ Cardinality(Owing(b)) \in Nat
    BY <2>6, Counted, OneLess
  <2>8. pc[b] \notin Ending \cup {"reopen"}
    BY <2>1, <2>3 DEF Led, Way, OnItsWay, Closed, Ending, Leading, BspPcs, Calling, Running
  <2>9. cpu[b].run \in Nat
    BY Parts DEF SInv
  <2>10. Counts(b)'
    BY <1>2, <1>3, <1>6, <2>1, <2>3, <2>7, <2>8, <2>9 DEF Led, Counts, Run
  <2> QED
    BY <1>9, <2>4, <2>5, <2>10, LedRestored DEF Led
<1> QED
  BY <1>10, <1>11 DEF NoBsp

(* The steps of an AP by itself: Present, its semaphore, its MTRRs, its
   procedures.                                                              *)
LEMMA ApOwnSteps ==
  ASSUME SInv, NEW c \in Cpus,
         \/ ApPresent(c) \/ ApMtrrs(c) \/ ApWake(c) \/ ApReset(c)
         \/ ApCheck(c) \/ ApExec(c) \/ ApIdle(c)
  PROVE  RInv'
<1> DEFINE Moves(b, next) ==
      /\ Goto(c, next) /\ next \in Joined
      /\ SameBut(c) /\ Follows(config, pc[b], next, cpu'[c].run)
      /\ cpu'[c].present <=> next \in PresentPcs
      /\ mtrr'[c] = Mtrr(config, next)
      /\ Gave(config, pc[b], next) <=> Gave(config, pc[b], pc[c])
<1> USE DEF Step
<1>0. Typed /\ RInv
  BY DEF SInv
<1>1. /\ pc[c] \in Joined /\ pc[c] \notin Waiting
      /\ config' = config /\ sync' = sync /\ bsp' = bsp
  BY DEF ApPresent, ApMtrrs, ApWake, ApReset, ApCheck, ApExec, ApIdle, Joined, ApPcs, Waiting
<1>2. PICK b \in Cpus : b # c /\ Led(b)
  BY <1>1, HasBsp
<1>3. Follows(config, pc[b], pc[c], cpu[c].run)
  BY <1>1, <1>2 DEF Led, Others, Run
<1>4. /\ cpu[c].present <=> pc[c] \in PresentPcs
      /\ mtrr[c] = Mtrr(config, pc[c]) /\ cpu[c].run \in Nat
  BY <1>0, Parts DEF RInv, Own
<1>5. \A d \in Cpus : d # c => mtrr'[d] = mtrr[d]
  BY <1>0 DEF Typed, ApPresent, ApMtrrs, ApWake, ApReset, ApCheck, ApExec, ApIdle
<1>6. \E next : Moves(b, next)
  <2>1. CASE ApPresent(c)
    <3> DEFINE next == IF GatherFirst THEN "apArrived" ELSE "apLoop"
    <3>1. pc[c] = "apPresent" /\ Goto(c, next) /\ mtrr' = mtrr
      BY <2>1 DEF ApPresent
    <3>2. SameBut(c) /\ cpu'[c].run = cpu[c].run /\ cpu'[c].present = TRUE
      BY <1>0, <2>1, PresentStored DEF ApPresent
    <3>3. Follows(config, pc[b], next, cpu'[c].run)
      BY <1>3, <3>1, <3>2 DEF Follows, Early, GatherFirst, Gathers
    <3>4. Gave(config, pc[b], next) <=> Gave(config, pc[b], pc[c])
      BY <1>3, <3>1 DEF Follows, Early, Arriving, GatherFirst, Gathers, Gave, Saving, Setting,
         Restoring, Calling, Running
    <3>5. next \in Joined /\ next \in PresentPcs
      BY DEF Joined, ApPcs, PresentPcs, Waiting
    <3>6. Mtrr(config, next) = Mtrr(config, pc[c])
      BY <3>1 DEF Mtrr, SavedPcs, SmmPcs, GatherFirst, Running
    <3> QED
      BY <1>4, <3>1, <3>2, <3>3, <3>4, <3>5, <3>6
  <2>2. CASE ApMtrrs(c)
    <3>1. SameBut(c) /\ cpu'[c].run = cpu[c].run - 1 /\ cpu'[c].present = cpu[c].present
      BY <1>0, <2>2, RunStored DEF ApMtrrs, Taken
    <3>2. cpu[c].run = 1 /\ cpu'[c].run = 0
      BY <1>3, <1>4, <2>2, <3>1 DEF ApMtrrs, Follows, Run
    <3>3. CASE pc[c] = "apSave"
      <4>1. Goto(c, "apSaved") /\ mtrr'[c] = "saved" /\ config.mtrrs /\ pc[b] \in Saving
        BY <1>0, <1>3, <2>2, <3>2, <3>3 DEF ApMtrrs, Typed, Follows
      <4>2. Follows(config, pc[b], "apSaved", 0)
        BY <4>1 DEF Follows
      <4>3. ~Gave(config, pc[b], "apSaved") /\ ~Gave(config, pc[b], "apSave")
        BY <4>1 DEF Gave, Saving, Setting, Restoring, Arriving, Calling
      <4>4. /\ "apSaved" \in Joined /\ "apSaved" \in PresentPcs /\ "apSave" \in PresentPcs
            /\ Mtrr(config, "apSaved") = "saved"
        BY <4>1 DEF Joined, ApPcs, PresentPcs, Waiting, Mtrr, SavedPcs
      <4> QED
        BY <1>4, <3>1, <3>2, <3>3, <4>1, <4>2, <4>3, <4>4
    <3>4. CASE pc[c] = "apSet"
      <4>1. Goto(c, "apSetDone") /\ mtrr'[c] = "smm" /\ pc[b] \in Setting
        BY <1>0, <1>3, <2>2, <3>2, <3>4 DEF ApMtrrs, Typed, Follows
      <4>2. Follows(config, pc[b], "apSetDone", 0)
        BY <4>1 DEF Follows
      <4>3. ~Gave(config, pc[b], "apSetDone") /\ ~Gave(config, pc[b], "apSet")
        BY <4>1 DEF Gave, Saving, Setting, Restoring, Arriving, Calling
      <4>4. config.mtrrs
        BY <1>2, <4>1 DEF Led, Way, OnItsWay
      <4>5. /\ "apSetDone" \in Joined /\ "apSetDone" \in PresentPcs /\ "apSet" \in PresentPcs
            /\ Mtrr(config, "apSetDone") = "smm"
        BY <4>4 DEF Joined, ApPcs, PresentPcs, Waiting, Mtrr, SavedPcs, SmmPcs
      <4> QED
        BY <1>4, <3>1, <3>2, <3>4, <4>1, <4>2, <4>3, <4>5
    <3>5. CASE pc[c] = "apRestore"
      <4>1. Goto(c, "apReady") /\ mtrr'[c] = "os" /\ pc[b] \in Restoring /\ config.mtrrs
        BY <1>0, <1>3, <2>2, <3>2, <3>5 DEF ApMtrrs, Typed, Follows
      <4>2. Follows(config, pc[b], "apReady", 0)
        BY <4>1 DEF Follows, Leaving
      <4>3. ~Gave(config, pc[b], "apReady") /\ ~Gave(config, pc[b], "apRestore")
        BY <4>1 DEF Gave, Saving, Setting, Restoring, Arriving, Calling
      <4>4. /\ "apReady" \in Joined /\ "apReady" \in PresentPcs /\ "apRestore" \in PresentPcs
            /\ Mtrr(config, "apReady") = "os"
        BY DEF Joined, ApPcs, PresentPcs, Waiting, Mtrr, SavedPcs, SmmPcs, Running
      <4> QED
        BY <1>4, <3>1, <3>2, <3>5, <4>1, <4>2, <4>3, <4>4
    <3> QED
      BY <2>2, <3>3, <3>4, <3>5 DEF ApMtrrs
  <2>3. CASE ApWake(c)
    <3>1. SameBut(c) /\ cpu'[c].run = cpu[c].run - 1 /\ cpu'[c].present = cpu[c].present
      BY <1>0, <2>3, RunStored DEF ApWake, Taken
    <3>2. pc[c] = "apLoop" /\ Goto(c, "apCheck") /\ mtrr' = mtrr /\ cpu[c].run > 0
      BY <2>3 DEF ApWake, Run
    <3>3. cpu[c].run = 1 /\ pc[b] \in Running \cup {"gatherExit"}
      BY <1>3, <1>4, <3>2 DEF Follows
    <3>4. Follows(config, pc[b], "apCheck", 0)
      BY <3>3 DEF Follows
    <3>5. ~Gave(config, pc[b], "apCheck") /\ ~Gave(config, pc[b], "apLoop")
      BY <3>3 DEF Gave, Saving, Setting, Restoring, Arriving, Calling, Running
    <3>6. /\ "apCheck" \in Joined /\ "apCheck" \in PresentPcs /\ "apLoop" \in PresentPcs
          /\ Mtrr(config, "apCheck") = Mtrr(config, "apLoop")
      BY DEF Joined, ApPcs, PresentPcs, Waiting, Mtrr, SavedPcs, SmmPcs
    <3> QED
      BY <1>4, <3>1, <3>2, <3>3, <3>4, <3>5, <3>6
  <2>4. CASE ApReset(c)
    <3> DEFINE taken == [cpu EXCEPT ![c].run = @ - 1]
    <3>1. pc[c] = "apReset" /\ Goto(c, "apDone") /\ mtrr' = mtrr /\ cpu[c].run > 0
      BY <2>4 DEF ApReset, Run
    <3>2. cpu[c].run = 1 /\ pc[b] \in Ending
      BY <1>3, <1>4, <3>1 DEF Follows
    <3>3. SameBut(c) /\ cpu'[c].run = 0 /\ cpu'[c].present = FALSE
      <4>1. cpu' = [taken EXCEPT ![c].present = FALSE]
        BY <2>4 DEF ApReset, Taken
      <4>2. taken[c] = [cpu[c] EXCEPT !.run = 0] /\ \A d \in Cpus : d # c => taken[d] = cpu[d]
        BY <1>0, <3>2, Parts
      <4>3. taken \in [Cpus -> CpuData]
        <5>1. cpu[c].run - 1 \in Nat /\ cpu \in [Cpus -> CpuData]
          BY <1>0, <3>2, Parts
        <5> QED
          BY <5>1, CpuFields
      <4> HIDE DEF taken
      <4>4. cpu'[c] = [taken[c] EXCEPT !.present = FALSE] /\ \A d \in Cpus : d # c => cpu'[d] = taken[d]
        BY <4>1, <4>3
      <4>5. cpu'[c].run = 0 /\ cpu'[c].present = FALSE
        BY <1>0, <4>2, <4>4, Parts DEF CpuData
      <4> QED
        BY <4>2, <4>4, <4>5 DEF SameBut
    <3>4. Follows(config, pc[b], "apDone", 0)
      BY <3>2 DEF Follows
    <3>5. ~Gave(config, pc[b], "apDone") /\ ~Gave(config, pc[b], "apReset")
      BY <3>2 DEF Gave, Saving, Setting, Restoring, Ending
    <3>6. /\ "apDone" \in Joined /\ "apDone" \notin PresentPcs
          /\ Mtrr(config, "apDone") = Mtrr(config, "apReset")
      BY DEF Joined, ApPcs, PresentPcs, Leading, BspPcs, Waiting, Mtrr, SavedPcs, SmmPcs, Running
    <3> QED
      BY <1>4, <3>1, <3>3, <3>4, <3>5, <3>6
  <2>5. CASE ApCheck(c)
    <3> DEFINE next == IF sync.inside THEN "apExec"
                       ELSE IF config.mtrrs THEN "apExit" ELSE "apReady"
    <3>1. pc[c] = "apCheck" /\ Goto(c, next) /\ mtrr' = mtrr /\ cpu' = cpu
      BY <2>5 DEF ApCheck
    <3>2. pc[b] \in Running \cup {"gatherExit"} /\ cpu[c].run = 0
      BY <1>3, <3>1 DEF Follows
    <3>3. pc[b] = "gatherExit" <=> ~sync.inside
      BY <1>2, <3>2 DEF Led, Way, InsidePcs, Leading, BspPcs, Running, Restoring, Ending
    <3>4. Follows(config, pc[b], next, 0)
      BY <3>2, <3>3 DEF Follows, Leaving
    <3>5. ~Gave(config, pc[b], next) /\ ~Gave(config, pc[b], "apCheck")
      BY <3>2 DEF Gave, Saving, Setting, Restoring, Arriving, Calling, Running
    <3>6. next \in Joined /\ next \in PresentPcs /\ "apCheck" \in PresentPcs
      BY DEF Joined, ApPcs, PresentPcs, Waiting
    <3>7. Mtrr(config, next) = Mtrr(config, "apCheck")
      BY DEF Mtrr, SavedPcs, SmmPcs
    <3> QED
      BY <1>4, <3>1, <3>2, <3>4, <3>5, <3>6, <3>7 DEF SameBut
  <2>6. CASE ApExec(c)
    <3>1. pc[c] = "apExec" /\ Goto(c, "apIdle") /\ mtrr' = mtrr /\ cpu' = cpu
      BY <2>6 DEF ApExec
    <3>2. pc[b] \in Running /\ cpu[c].run = 0
      BY <1>3, <3>1 DEF Follows
    <3>3. Follows(config, pc[b], "apIdle", 0)
      BY <3>2 DEF Follows
    <3>4. ~Gave(config, pc[b], "apIdle") /\ ~Gave(config, pc[b], "apExec")
      BY DEF Gave
    <3>5. /\ "apIdle" \in Joined /\ "apIdle" \in PresentPcs /\ "apExec" \in PresentPcs
          /\ Mtrr(config, "apIdle") = Mtrr(config, "apExec")
      BY DEF Joined, ApPcs, PresentPcs, Waiting, Mtrr, SavedPcs, SmmPcs
    <3> QED
      BY <1>4, <3>1, <3>2, <3>3, <3>4, <3>5 DEF SameBut
  <2>7. CASE ApIdle(c)
    <3>1. pc[c] = "apIdle" /\ Goto(c, "apLoop") /\ mtrr' = mtrr
      BY <2>7 DEF ApIdle
    <3>2. SameBut(c) /\ cpu'[c].run = cpu[c].run /\ cpu'[c].present = cpu[c].present
      BY <1>0, <2>7, BusyStored DEF ApIdle
    <3>3. pc[b] \in Running /\ cpu[c].run = 0
      BY <1>3, <3>1 DEF Follows
    <3>4. Follows(config, pc[b], "apLoop", 0)
      BY <3>3 DEF Follows
    <3>5. ~Gave(config, pc[b], "apLoop") /\ ~Gave(config, pc[b], "apIdle")
      BY <3>3 DEF Gave, Saving, Setting, Restoring, Arriving, Calling, Running
    <3>6. /\ "apLoop" \in Joined /\ "apLoop" \in PresentPcs /\ "apIdle" \in PresentPcs
          /\ Mtrr(config, "apLoop") = Mtrr(config, "apIdle")
      BY DEF Joined, ApPcs, PresentPcs, Waiting, Mtrr, SavedPcs, SmmPcs
    <3> QED
      BY <1>4, <3>1, <3>2, <3>3, <3>4, <3>5, <3>6
  <2> QED
    BY <2>1, <2>2, <2>3, <2>4, <2>5, <2>6, <2>7
<1>7. PICK next : Moves(b, next)
  BY <1>6
<1>8. pc'[c] = next /\ \A d \in Cpus : d # c => pc'[d] = pc[d]
  BY <1>0, <1>7, Went
<1> QED
  BY <1>0, <1>1, <1>2, <1>5, <1>7, <1>8, ApStays DEF SameBut

(* An AP signals the BSP, and stays or, for the last time, leaves.          *)
LEMMA SignalSteps ==
  ASSUME SInv, NEW c \in Cpus, ApSignal(c)
  PROVE  RInv'
<1> DEFINE next == SignalNext(pc[c])
<1>0. Typed /\ RInv
  BY DEF SInv
<1>1. /\ pc[c] \in {"apArrived", "apSaved", "apSetDone", "apExit", "apReady", "apDone"}
      /\ Goto(c, next) /\ cpu' = [cpu EXCEPT ![sync.bsp].run = @ + 1]
      /\ config' = config /\ sync' = sync /\ bsp' = bsp /\ mtrr' = mtrr
  BY DEF ApSignal, Released
<1>2. pc[c] \in Joined /\ pc[c] \notin Waiting /\ pc[c] \notin Leading
  BY <1>1 DEF Joined, Waiting, Leading, ApPcs, BspPcs
<1>3. PICK b \in Cpus : b # c /\ Led(b)
  BY <1>2, HasBsp
<1>4. Follows(config, pc[b], pc[c], cpu[c].run)
  BY <1>2, <1>3 DEF Led, Others, Run
<1>5. sync.bsp = b
  <2>1. pc[b] # "reopen"
    BY <1>1, <1>4 DEF Follows, Arriving, Saving, Setting, Leaving, Restoring, Ending, Calling
  <2> QED
    BY <1>3, <2>1 DEF Led, Way
<1>6. /\ SameBut(b) /\ cpu'[b].run = cpu[b].run + 1 /\ cpu'[b].present = cpu[b].present
  BY <1>0, <1>1, <1>5, RunStored
<1>7. pc'[c] = next /\ \A d \in Cpus : d # c => pc'[d] = pc[d]
  BY <1>0, <1>1, Went
<1>8. /\ cpu[c].present <=> pc[c] \in PresentPcs
      /\ mtrr[c] = Mtrr(config, pc[c])
  BY <1>0 DEF RInv, Own
<1>9. cpu'[c] = cpu[c] /\ cpu[c].run = 0
  BY <1>1, <1>3, <1>4, <1>6 DEF SameBut, Follows
<1>10. CASE pc[c] # "apDone"
  <2>1. next \in Joined
    BY <1>1, <1>10 DEF SignalNext, Joined, ApPcs
  <2>2. next \in PresentPcs /\ pc[c] \in PresentPcs
    BY <1>1, <1>10 DEF SignalNext, PresentPcs, Joined, ApPcs, Waiting
  <2>3. Mtrr(config, next) = Mtrr(config, pc[c])
    <3>1. CASE pc[c] = "apArrived"
      BY <3>1 DEF SignalNext, Mtrr, SavedPcs, SmmPcs, Running
    <3>2. CASE pc[c] # "apArrived"
      BY <1>1, <1>10, <3>2 DEF SignalNext, Mtrr, SavedPcs, SmmPcs, Running
    <3> QED
      BY <3>1, <3>2
  <2>4. Follows(config, pc[b], next, 0)
    <3>1. CASE pc[c] = "apArrived"
      BY <1>4, <1>9, <3>1 DEF SignalNext, Follows, Early
    <3>2. CASE pc[c] # "apArrived"
      BY <1>1, <1>4, <1>9, <1>10, <3>2 DEF SignalNext, Follows
    <3> QED
      BY <3>1, <3>2
  <2>5. Gave(config, pc[b], next) /\ ~Gave(config, pc[b], pc[c])
    <3>1. ~Gave(config, pc[b], pc[c])
      BY <1>1 DEF Gave
    <3>2. CASE pc[c] = "apArrived"
      BY <1>4, <3>1, <3>2 DEF SignalNext, Follows, Gave
    <3>3. CASE pc[c] # "apArrived"
      BY <1>1, <1>4, <1>10, <3>1, <3>3 DEF SignalNext, Follows, Leaving, Gave, Arriving, Calling,
         Saving, Setting, Restoring, Ending
    <3> QED
      BY <3>2, <3>3
  <2> HIDE DEF next
  <2>6. \A d \in Cpus : d # c =>
          /\ cpu'[d].present = cpu[d].present /\ mtrr'[d] = mtrr[d]
          /\ d # b => cpu'[d].run = cpu[d].run
    BY <1>1, <1>6 DEF SameBut
  <2>7. /\ pc'[c] \in Joined
        /\ cpu'[c].present <=> pc'[c] \in PresentPcs
        /\ mtrr'[c] = Mtrr(config, pc'[c])
    BY <1>1, <1>7, <1>8, <1>9, <2>1, <2>2, <2>3
  <2>8. Follows(config, pc[b], pc'[c], cpu'[c].run)
    BY <1>7, <1>9, <2>4
  <2>9. /\ cpu'[b].run = cpu[b].run + 1
        /\ Gave(config, pc[b], pc'[c]) /\ ~Gave(config, pc[b], pc[c])
    BY <1>6, <1>7, <2>5
  <2>10. config' = config /\ sync' = sync /\ bsp' = bsp
    BY <1>1
  <2> QED
    BY <1>0, <1>2, <1>3, <1>7, <2>6, <2>7, <2>8, <2>9, <2>10, ApStays
<1>11. CASE pc[c] = "apDone"
  <2>1. next = "leave" /\ pc[b] \in Ending /\ pc'[b] = pc[b]
    BY <1>3, <1>4, <1>7, <1>11 DEF SignalNext, Follows
  <2>2. /\ "leave" \notin Leading \cup Joined /\ "leave" \notin PresentPcs
        /\ "apDone" \notin PresentPcs /\ "leave" \notin SavedPcs \cup SmmPcs
        /\ "apDone" \notin SavedPcs \cup SmmPcs
    BY DEF Leading, BspPcs, Joined, ApPcs, PresentPcs, Waiting, SavedPcs, SmmPcs, Running
  <2>3. pc[b] \in Leading
    BY <1>3 DEF Led, Way, OnItsWay
  <2>4. \A d \in Cpus : Own(d)'
    <3>1. Own(c)'
      BY <1>1, <1>7, <1>8, <1>9, <1>11, <2>1, <2>2 DEF Own, Run, Mtrr
    <3>2. ASSUME NEW d \in Cpus, d # c
          PROVE  Own(d)'
      BY <1>0, <1>1, <1>6, <1>7, <2>3, <3>2, OwnKept DEF RInv, SameBut
    <3> QED
      BY <3>1, <3>2
  <2>5. Members' = Members \ {c} /\ c \in Members
    BY <1>2, <1>7, <2>1, <2>2 DEF Members
  <2>6. Way(b)'
    BY <1>1, <1>3, <2>1 DEF Led, Way
  <2>7. Others(b)'
    BY <1>1, <1>3, <1>6, <1>7, <2>1, <2>2 DEF Led, Others, Run, SameBut
  <2>8. Owing(b)' = Owing(b) \ {c} /\ c \in Owing(b)
    <3>1. ~Gave(config, pc[b], pc[c])
      BY <1>11 DEF Gave
    <3> QED
      BY <1>1, <1>3, <1>7, <2>1, <2>5, <3>1 DEF Owing, Members
  <2>9. Cardinality(Owing(b)') = Cardinality(Owing(b)) - 1 /\ Cardinality(Owing(b)) \in Nat
    BY <2>8, Counted, OneLess
  <2>10. cpu[b].run \in Nat
    BY <1>0, Parts
  <2>11. Closed(config, pc[b]) /\ pc[b] # "reopen"
    BY <2>1 DEF Closed, Ending, Leading, BspPcs, Calling, Running
  <2>12. Counts(b)'
    BY <1>1, <1>3, <1>6, <2>1, <2>9, <2>10, <2>11 DEF Led, Counts, Run
  <2> QED
    BY <2>4, <2>6, <2>7, <2>12, LedRestored DEF Led
<1> QED
  BY <1>10, <1>11

(* APHandler                                                                *)
LEMMA ApSteps ==
  ASSUME SInv, NEW c \in Cpus, APHandler(c)
  PROVE  RInv'
BY WaitSteps, GiveUpSteps, ApOwnSteps, SignalSteps DEF APHandler

-----------------------------------------------------------------------------
(* BSPHandler                                                               *)

(* Two places of the BSP between which the APs have nothing new to signal.  *)
SameStage(cf, p, next) ==
  /\ OnItsWay(cf, next) /\ p \notin Ending \cup {"reopen"} /\ next \notin Ending \cup {"reopen"}
  /\ \A q \in Joined : Gave(cf, next, q) <=> Gave(cf, p, q)

(* A step of the BSP within a stage.                                        *)
LEMMA BspStays ==
  ASSUME Typed, RInv, NEW b \in Cpus, Led(b), NEW next, Goto(b, next),
         config' = config, SameStage(config, pc[b], next),
         sync'.bsp = sync.bsp,
         sync'.inside <=> next \in InsidePcs,
         Closed(config, next) \/ next = "lockdown" => sync'.allInSync,
         \/ /\ Closed(config, next) <=> Closed(config, pc[b])
            /\ sync'.counter = sync.counter /\ bsp'.apCount = bsp.apCount
         \/ /\ Closed(config, next) /\ ~Closed(config, pc[b])
            /\ sync'.counter = Locked /\ bsp'.apCount = sync.counter - 1,
         cpu'[b].run = cpu[b].run,
         cpu'[b].present <=> next \in PresentPcs, mtrr'[b] = Mtrr(config, next),
         \A c \in Cpus : c # b =>
           /\ cpu'[c].present = cpu[c].present /\ mtrr'[c] = mtrr[c]
           /\ cpu'[c].run = cpu[c].run \/ pc[c] \in Joined
           /\ pc[c] \in Joined => Follows(config, next, pc[c], cpu'[c].run)
           /\ pc[c] = "unsync" => ~Firm(config, next)
  PROVE  RInv'
<1>1. pc'[b] = next /\ \A d \in Cpus : d # b => pc'[d] = pc[d]
  BY Went
<1>2. pc[b] \in Leading /\ next \in Leading /\ pc[b] # "reopen" /\ next # "reopen"
  BY DEF Led, Way, OnItsWay, SameStage
<1>3. Way(b)'
  BY <1>1, <1>2 DEF Led, Way, SameStage
<1>4. Others(b)'
  BY <1>1 DEF Led, Others, Run
<1>5. \A d \in Cpus : Own(d)'
  <2>1. Own(b)'
    BY <1>1, <1>2 DEF Own
  <2>2. ASSUME NEW d \in Cpus, d # b
        PROVE  Own(d)'
    BY <1>1, <2>2, OwnKept DEF RInv
  <2> QED
    BY <2>1, <2>2
<1>6. Members' = Members
  BY <1>1, <1>2 DEF Members
<1>7. Owing(b)' = Owing(b)
  <2>1. \A c \in Members : c # b => pc[c] \in Joined
    BY DEF Led, Others, Members
  <2>2. \A c \in Members :
          c # b => pc'[c] = pc[c] /\ (Gave(config, next, pc[c]) <=> Gave(config, pc[b], pc[c]))
    BY <1>1, <2>1, Counted DEF SameStage
  <2> QED
    BY <1>1, <1>6, <2>2 DEF Owing
<1>8. cpu[b].run \in Nat /\ Cardinality(Members) \in Nat /\ Cardinality(Owing(b)) \in Nat
  BY Parts, Counted
<1>9. Counts(b)'
  BY <1>1, <1>2, <1>6, <1>7, <1>8 DEF Led, Counts, Run, SameStage
<1> QED
  BY <1>3, <1>4, <1>5, <1>9, LedRestored DEF Led

(* A processor in BSPHandler is the BSP.                                    *)
LEMMA Leads ==
  ASSUME SInv, NEW b \in Cpus, pc[b] \in Leading
  PROVE  /\ Typed /\ RInv /\ Led(b) /\ Works(b) /\ Excluded(b) /\ Own(b)
         /\ \A c \in Cpus : c # b /\ pc[c] \in Joined =>
              Follows(config, pc[b], pc[c], cpu[c].run) /\ ApWorks(b, c)
         /\ \A c \in Cpus : c # b => pc[c] \notin Leading
         /\ \A c \in Cpus : c # b /\ pc[c] = "unsync" => ~Firm(config, pc[b])
<1>1. Led(b) /\ Works(b) /\ Excluded(b) /\ Own(b)
  BY DEF SInv, RInv, WInv, EInv
<1> QED
  BY <1>1 DEF SInv, Led, Others, Works, Run

(* An AP that stays with the BSP, wherever in the handlers that is.         *)
LEMMA RunningSame ==
  ASSUME NEW cf, NEW p \in Running, NEW next \in Running, NEW q, NEW run,
         Follows(cf, p, q, run)
  PROVE  Follows(cf, next, q, run)
<1>1. /\ p \notin Saving \cup Setting \cup Restoring \cup Ending \cup Calling
      /\ p \notin {"arrival", "arrivalAgain", "gather", "exit", "release", "gatherExit", "lockdown",
                   "lock"}
      /\ next \notin Saving \cup Setting \cup Restoring \cup Ending \cup Calling
      /\ next \notin {"arrival", "arrivalAgain", "gather", "lockdown", "lock"}
      /\ p \in Leading /\ next \in Leading
  BY DEF Running, Saving, Setting, Restoring, Ending, Calling, Leading, BspPcs
<1>2. Early(cf, p) <=> Early(cf, next)
  BY <1>1 DEF Early, Arriving
<1>3. Firm(cf, p) <=> Firm(cf, next)
  BY <1>1 DEF Firm, Closed
<1>4. ~Arriving(cf, p) /\ ~Leaving(cf, p)
  BY <1>1 DEF Arriving, Leaving
<1> QED
  BY <1>1, <1>2, <1>3, <1>4 DEF Follows
LEMMA RunningStage ==
  ASSUME NEW cf, NEW p \in Running, NEW next \in Running, next \in Broadcast => Gathers(cf)
  PROVE  /\ SameStage(cf, p, next) /\ (Firm(cf, next) <=> Firm(cf, p))
         /\ Closed(cf, p) <=> Closed(cf, next)
         /\ next \in InsidePcs /\ next \in PresentPcs /\ next # "lockdown"
         /\ Mtrr(cf, p) = Mtrr(cf, next)
<1>1. /\ p \notin Saving \cup Setting \cup Restoring \cup Ending \cup Calling
      /\ next \notin Saving \cup Setting \cup Restoring \cup Ending \cup Calling
      /\ p \notin {"arrival", "arrivalAgain", "gather", "lockdown", "lock", "reopen", "gatherExit",
                   "allPresent"}
      /\ next \notin {"arrival", "arrivalAgain", "gather", "lockdown", "lock", "reopen", "gatherExit",
                   "allPresent"}
      /\ p \in Leading /\ next \in Leading
  BY DEF Running, Saving, Setting, Restoring, Ending, Calling, Leading, BspPcs
<1>2. SameStage(cf, p, next)
  BY <1>1 DEF SameStage, OnItsWay, Gave, Arriving
<1>3. (Firm(cf, next) <=> Firm(cf, p)) /\ (Closed(cf, p) <=> Closed(cf, next))
  BY <1>1 DEF Firm, Closed
<1>4. next \in InsidePcs /\ next \in PresentPcs
  BY DEF InsidePcs, PresentPcs, Leading, BspPcs, Running, Restoring, Ending
<1>5. Mtrr(cf, p) = Mtrr(cf, next)
  BY DEF Mtrr, SmmPcs, SavedPcs, Running
<1> QED
  BY <1>1, <1>2, <1>3, <1>4, <1>5

(* The BSP shows itself and calls the others.                               *)
LEMMA CallSteps ==
  ASSUME SInv, NEW b \in Cpus, BspInside(b) \/ BspPresent(b)
  PROVE  RInv'
<1> USE DEF Step
<1>1. CASE BspInside(b)
  <2>1. pc[b] = "bspInside" /\ Goto(b, "bspPresent") /\ sync' = [sync EXCEPT !.inside = TRUE]
        /\ config' = config /\ cpu' = cpu /\ mtrr' = mtrr /\ bsp' = bsp
    BY <1>1 DEF BspInside
  <2>2. pc[b] \in Leading
    BY <2>1 DEF Leading, BspPcs
  <2>3. /\ sync'.inside = TRUE /\ sync'.bsp = sync.bsp /\ sync'.counter = sync.counter
    BY <2>1, <2>2, Leads, Parts DEF SyncData
  <2>4. /\ SameStage(config, "bspInside", "bspPresent") /\ "bspPresent" \in InsidePcs
        /\ ~Closed(config, "bspPresent") /\ ~Closed(config, "bspInside")
        /\ ~Firm(config, "bspPresent")
    BY DEF SameStage, OnItsWay, Gave, Arriving, InsidePcs, Closed, Firm, Leading, BspPcs, Calling,
       Saving, Setting, Restoring, Ending, Broadcast
  <2>5. /\ "bspPresent" \notin PresentPcs /\ "bspInside" \notin PresentPcs
        /\ Mtrr(config, "bspPresent") = Mtrr(config, "bspInside")
    BY DEF PresentPcs, Leading, Joined, BspPcs, ApPcs, Mtrr, SavedPcs, SmmPcs, Running
  <2>6. \A q, run : Follows(config, "bspInside", q, run) => Follows(config, "bspPresent", q, run)
    BY DEF Follows, Early, Arriving, Leaving, Firm, Closed, Calling, Saving, Setting, Restoring,
       Ending, Running, Leading, BspPcs
  <2> QED
    BY <2>1, <2>2, <2>3, <2>4, <2>5, <2>6, Leads, BspStays DEF Own
<1>2. CASE BspPresent(b)
  <2> DEFINE next == IF GatherFirst THEN "arrival" ELSE "handlers"
  <2>1. pc[b] = "bspPresent" /\ Goto(b, next) /\ cpu' = [cpu EXCEPT ![b].present = TRUE]
        /\ config' = config /\ sync' = sync /\ mtrr' = mtrr /\ bsp' = bsp
    BY <1>2 DEF BspPresent
  <2>2. pc[b] \in Leading
    BY <2>1 DEF Leading, BspPcs
  <2>3. SameBut(b) /\ cpu'[b].run = cpu[b].run /\ cpu'[b].present = TRUE
    BY <2>1, <2>2, Leads, PresentStored
  <2>4. /\ SameStage(config, "bspPresent", next)
        /\ ~Closed(config, next) /\ ~Closed(config, "bspPresent")
        /\ ~Firm(config, next) /\ next # "lockdown"
    <3>1. CASE GatherFirst
      BY <3>1 DEF SameStage, OnItsWay, Gave, Arriving, Closed, Firm, Leading, BspPcs, Calling,
         Saving, Setting, Restoring, Ending, Broadcast, GatherFirst, Gathers, Running
    <3>2. CASE ~GatherFirst
      BY <3>2 DEF SameStage, OnItsWay, Gave, Arriving, Closed, Firm, Leading, BspPcs, Calling,
         Saving, Setting, Restoring, Ending, Broadcast, GatherFirst, Gathers, Running
    <3> QED
      BY <3>1, <3>2
  <2>5. next \in InsidePcs /\ next \in PresentPcs /\ "bspPresent" \in InsidePcs
    BY DEF PresentPcs, InsidePcs, Leading, BspPcs, Running, Restoring, Ending
  <2>6. Mtrr(config, next) = Mtrr(config, "bspPresent")
    BY DEF Mtrr, SavedPcs, SmmPcs, Running, GatherFirst
  <2>7. \A q, run : Follows(config, "bspPresent", q, run) => Follows(config, next, q, run)
    <3>1. CASE GatherFirst
      BY <3>1 DEF Follows, Early, Arriving, Leaving, Firm, Closed, Calling, Saving, Setting, Restoring,
         Ending, Running, Leading, BspPcs, GatherFirst, Gathers
    <3>2. CASE ~GatherFirst
      BY <3>2 DEF Follows, Early, Arriving, Leaving, Firm, Closed, Calling, Saving, Setting, Restoring,
         Ending, Running, Leading, BspPcs, GatherFirst, Gathers
    <3> QED
      BY <3>1, <3>2
  <2>8. sync.inside
    BY <2>1, <2>2, <2>5, Leads DEF Led, Way
  <2> HIDE DEF next
  <2>9. \A c \in Cpus : c # b =>
          /\ cpu'[c] = cpu[c] /\ mtrr'[c] = mtrr[c]
          /\ pc[c] \in Joined => Follows(config, next, pc[c], cpu'[c].run)
    BY <2>1, <2>2, <2>3, <2>7, Leads DEF SameBut
  <2>10. mtrr'[b] = Mtrr(config, next) /\ Typed /\ RInv /\ Led(b)
    BY <2>1, <2>2, <2>6, Leads DEF Own
  <2> QED
    BY <2>1, <2>3, <2>4, <2>5, <2>8, <2>9, <2>10, BspStays
<1> QED
  BY <1>1, <1>2

(* The waits of SmmWaitForApArrival, then the lock of the counter.          *)
LEMMA ArrivalSteps ==
  ASSUME SInv, Timing, NEW b \in Cpus, Arrival(b) \/ ArrivalAgain(b) \/ SetAllInSync(b)
  PROVE  RInv'
<1> USE DEF Step
<1>1. PICK next :
        /\ Goto(b, next)
        /\ \/ pc[b] = "arrival" /\ next \in {"arrivalAgain", "lock"}
           \/ pc[b] = "arrivalAgain" /\ next = "lock"
           \/ pc[b] = "lock" /\ next = "lockdown"
  BY DEF Arrival, ArrivalAgain, SetAllInSync
<1>2. /\ config' = config /\ cpu' = cpu /\ mtrr' = mtrr /\ bsp' = bsp
      /\ sync' = IF pc[b] = "lock" THEN [sync EXCEPT !.allInSync = TRUE] ELSE sync
  BY DEF Arrival, ArrivalAgain, SetAllInSync
<1>3. pc[b] \in Leading
  BY <1>1 DEF Leading, BspPcs
<1>4. /\ sync'.inside = sync.inside /\ sync'.bsp = sync.bsp /\ sync'.counter = sync.counter
      /\ pc[b] = "lock" => sync'.allInSync = TRUE
  BY <1>2, <1>3, Leads, Parts DEF SyncData
<1>5. OnItsWay(config, pc[b])
  BY <1>3, Leads DEF Led, Way
<1>6. SameStage(config, pc[b], next)
  BY <1>1, <1>5 DEF SameStage, OnItsWay, Gave, Arriving, Leading, BspPcs, Calling,
     Saving, Setting, Restoring, Ending, Broadcast
<1>7. /\ ~Closed(config, next) /\ ~Closed(config, pc[b])
      /\ next \in InsidePcs /\ pc[b] \in InsidePcs
      /\ next \in PresentPcs /\ pc[b] \in PresentPcs
      /\ Mtrr(config, next) = Mtrr(config, pc[b])
      /\ next = "lockdown" => pc[b] = "lock"
  BY <1>1 DEF Closed, Calling, InsidePcs, PresentPcs, Leading, BspPcs, Restoring, Ending, Mtrr,
     SavedPcs, SmmPcs, Running
<1>8. \A c \in Cpus : pc[c] \notin {"giveUp", "unsync"} \/ Firm(config, pc[b])
  <2>1. CASE pc[b] = "arrivalAgain"
    BY <1>5, <2>1 DEF OnItsWay, Firm
  <2>2. CASE pc[b] # "arrivalAgain"
    <3>1. Arrival(b) \/ SetAllInSync(b)
      BY <2>2 DEF ArrivalAgain
    <3>2. OnTheWayOut = {}
      BY <3>1 DEF Timing
    <3> QED
      BY <3>2 DEF OnTheWayOut
  <2> QED
    BY <2>1, <2>2
<1>9. \A q, run : Follows(config, pc[b], q, run) /\ q # "giveUp" => Follows(config, next, q, run)
  BY <1>1, <1>5 DEF OnItsWay, Follows, Early, Arriving, Leaving, Calling, Saving, Setting, Restoring,
     Ending, Running
<1>10. \A c \in Cpus : c # b /\ pc[c] \in Joined => pc[c] # "giveUp"
  BY <1>3, <1>8, Leads DEF Follows
<1>11. sync.inside
  BY <1>3, <1>7, Leads DEF Led, Way
<1>12. \A c \in Cpus : c # b => pc[c] # "unsync"
  BY <1>3, <1>8, Leads
<1> QED
  BY <1>1, <1>2, <1>3, <1>4, <1>6, <1>7, <1>9, <1>10, <1>11, <1>12, Leads, BspStays DEF Own

(* LockdownSemaphore                                                        *)
LEMMA LockdownSteps ==
  ASSUME SInv, NEW b \in Cpus, Lockdown(b)
  PROVE  RInv'
<1> DEFINE next == IF GatherFirst THEN "gather" ELSE "allPresent"
<1>1. /\ pc[b] = "lockdown" /\ Goto(b, next)
      /\ sync' = [sync EXCEPT !.counter = Locked]
      /\ bsp' = [bsp EXCEPT !.apCount = sync.counter - 1]
      /\ config' = config /\ cpu' = cpu /\ mtrr' = mtrr
  BY DEF Lockdown, Step
<1>2. pc[b] \in Leading
  BY <1>1 DEF Leading, BspPcs
<1>3. /\ sync'.inside = sync.inside /\ sync'.bsp = sync.bsp /\ sync'.counter = Locked
      /\ sync'.allInSync = sync.allInSync /\ bsp'.apCount = sync.counter - 1
  BY <1>1, <1>2, Leads, Parts DEF SyncData, BspData
<1>4. SameStage(config, "lockdown", next)
  <2>1. CASE GatherFirst
    BY <2>1 DEF SameStage, OnItsWay, Gave, Arriving, Leading, BspPcs, Calling,
       Saving, Setting, Restoring, Ending, Broadcast, GatherFirst, Gathers
  <2>2. CASE ~GatherFirst
    BY <2>2 DEF SameStage, OnItsWay, Gave, Arriving, Leading, BspPcs, Calling,
       Saving, Setting, Restoring, Ending, Broadcast, GatherFirst, Gathers
  <2> QED
    BY <2>1, <2>2
<1>5. /\ Closed(config, next) /\ ~Closed(config, "lockdown") /\ Firm(config, "lockdown")
      /\ next \in InsidePcs /\ "lockdown" \in InsidePcs
      /\ next \in PresentPcs /\ "lockdown" \in PresentPcs
  BY DEF Closed, Firm, Calling, InsidePcs, PresentPcs, Leading, BspPcs, Restoring, Ending, Running
<1>6. Mtrr(config, next) = Mtrr(config, "lockdown")
  BY DEF Mtrr, SavedPcs, SmmPcs, Running
<1>7. \A q, run : Follows(config, "lockdown", q, run) => Follows(config, next, q, run)
  <2>1. CASE GatherFirst
    BY <2>1 DEF Follows, Early, Arriving, Leaving, Firm, Calling, Saving, Setting, Restoring,
       Ending, Running, GatherFirst, Gathers
  <2>2. CASE ~GatherFirst
    BY <2>2 DEF Follows, Early, Arriving, Leaving, Firm, Calling, Saving, Setting, Restoring,
       Ending, Running, GatherFirst, Gathers
  <2> QED
    BY <2>1, <2>2
<1>8. sync.inside /\ sync.allInSync
  BY <1>1, <1>2, <1>5, Leads DEF Led, Way
<1> HIDE DEF next
<1> QED
  BY <1>1, <1>2, <1>3, <1>4, <1>5, <1>6, <1>7, <1>8, Leads, BspStays DEF Own

(* The BSP's own MTRRs.                                                     *)
LEMMA BspMtrrSteps ==
  ASSUME SInv, NEW b \in Cpus, BspMtrrs(b)
  PROVE  RInv'
<1>1. PICK next :
        /\ Goto(b, next)
        /\ \/ pc[b] = "mtrrSave" /\ next = "mtrrSaved" /\ mtrr' = [mtrr EXCEPT ![b] = "saved"]
           \/ pc[b] = "mtrrSet" /\ next = "mtrrDone" /\ mtrr' = [mtrr EXCEPT ![b] = "smm"]
           \/ pc[b] = "mtrrRestore" /\ next = "mtrrRestored" /\ mtrr' = [mtrr EXCEPT ![b] = "os"]
  BY DEF BspMtrrs, Step
<1>2. config' = config /\ cpu' = cpu /\ bsp' = bsp /\ sync' = sync
  BY DEF BspMtrrs
<1>3. pc[b] \in Leading
  BY <1>1 DEF Leading, BspPcs
<1>4. /\ Led(b) /\ Typed /\ RInv /\ OnItsWay(config, pc[b])
      /\ cpu[b].present <=> pc[b] \in PresentPcs
  BY <1>3, Leads DEF Led, Way, Own
<1>5. config.mtrrs
  BY <1>1, <1>4 DEF OnItsWay, Saving, Setting, Restoring
<1>6. mtrr'[b] = Mtrr(config, next) /\ \A c \in Cpus : c # b => mtrr'[c] = mtrr[c]
  <2>1. mtrr \in [Cpus -> {"os", "saved", "smm"}]
    BY <1>4 DEF Typed
  <2> QED
    BY <1>1, <1>5, <2>1 DEF Mtrr, SavedPcs, SmmPcs, Running
<1>7. SameStage(config, pc[b], next)
  BY <1>1, <1>5 DEF SameStage, OnItsWay, Gave, Arriving, Leading, BspPcs, Calling,
     Saving, Setting, Restoring, Ending, Broadcast
<1>8. /\ Closed(config, next) /\ Closed(config, pc[b]) /\ Firm(config, pc[b])
      /\ next \in PresentPcs /\ pc[b] \in PresentPcs
      /\ next \in InsidePcs <=> pc[b] \in InsidePcs
  BY <1>1 DEF Closed, Firm, Calling, InsidePcs, PresentPcs, Leading, BspPcs, Restoring, Ending, Running
<1>9. \A q, run : Follows(config, pc[b], q, run) => Follows(config, next, q, run)
  BY <1>1, <1>5 DEF Follows, Early, Arriving, Leaving, Calling, Saving, Setting, Restoring,
     Ending, Running, Gathers
<1>10. (sync.inside <=> pc[b] \in InsidePcs) /\ sync.allInSync
  BY <1>4, <1>8 DEF Led, Way
<1>11. \A c \in Cpus : c # b =>
         /\ pc[c] \in Joined => Follows(config, next, pc[c], cpu'[c].run)
         /\ pc[c] # "unsync"
  BY <1>2, <1>3, <1>8, <1>9, Leads
<1> QED
  BY <1>1, <1>2, <1>4, <1>6, <1>7, <1>8, <1>10, <1>11, BspStays

(* The handlers, and the procedures they start, up to their end.            *)
LEMMA HandlerSteps ==
  ASSUME SInv, TraditionalBroadcasts, NEW b \in Cpus, Serving(b) \/ HandlersDone(b)
  PROVE  RInv'
<1> USE DEF Step
<1>1. PICK next \in Running : Goto(b, next) /\ pc[b] \in Running /\ (next \in Broadcast => Gathers(config))
  <2>1. CASE \E c \in Cpus, k \in Procedures, blocking \in BOOLEAN : InternalSmmStartupThisAp(b, c, k, blocking)
    BY <2>1 DEF InternalSmmStartupThisAp, Running, Broadcast
  <2>2. CASE \E k \in Procedures, blocking \in BOOLEAN : StartupAllAPs(b, k, blocking)
    BY <2>2 DEF StartupAllAPs, Running, TraditionalBroadcasts, Gathers
  <2>3. CASE AcquireAllBusy(b) \/ ScheduleAll(b)
    <3>1. pc[b] \in Leading /\ pc[b] \in Broadcast
      BY <2>3 DEF AcquireAllBusy, ScheduleAll, Leading, BspPcs, Broadcast
    <3>2. Gathers(config)
      BY <3>1, Leads DEF Led, Way, OnItsWay
    <3> QED
      BY <2>3, <3>2 DEF AcquireAllBusy, ScheduleAll, Running
  <2>4. CASE StartAll(b) \/ Unblock(b) \/ HandlersDone(b)
    BY <2>4 DEF StartAll, Unblock, HandlersDone, Running, Broadcast
  <2> QED
    BY <2>1, <2>2, <2>3, <2>4 DEF Serving
<1>2. config' = config /\ sync' = sync /\ mtrr' = mtrr
  BY DEF Serving, HandlersDone, InternalSmmStartupThisAp, StartupAllAPs, AcquireAllBusy, ScheduleAll,
     StartAll, Unblock
<1>3. pc[b] \in Leading
  BY <1>1 DEF Leading, BspPcs, Running
<1>4. /\ Led(b) /\ Typed /\ RInv /\ Works(b) /\ mtrr[b] = Mtrr(config, pc[b])
      /\ cpu[b].present <=> pc[b] \in PresentPcs
  BY <1>3, Leads DEF Own
<1>5. bsp'.apCount = bsp.apCount
  <2>1. bsp \in BspData
    BY <1>4, Parts
  <2> QED
    BY <2>1 DEF Serving, HandlersDone, InternalSmmStartupThisAp, StartupAllAPs, AcquireAllBusy, ScheduleAll,
       StartAll, Unblock, BspData
<1>6. /\ SameStage(config, pc[b], next) /\ (Firm(config, next) <=> Firm(config, pc[b]))
      /\ Closed(config, pc[b]) <=> Closed(config, next)
      /\ next \in InsidePcs /\ next \in PresentPcs /\ next # "lockdown"
      /\ Mtrr(config, pc[b]) = Mtrr(config, next)
      /\ pc[b] \in InsidePcs /\ pc[b] \in PresentPcs
  <2>1. pc[b] \in InsidePcs /\ pc[b] \in PresentPcs
    BY <1>1 DEF InsidePcs, PresentPcs, Leading, BspPcs, Running, Restoring, Ending
  <2> QED
    BY <1>1, <2>1, RunningStage
<1>7. sync.inside /\ (Closed(config, next) => sync.allInSync)
  BY <1>4, <1>6 DEF Led, Way
<1>8. \A c \in Cpus : cpu[c].present => c = b \/ pc[c] \in Joined
  BY <1>3, <1>4, Leads DEF RInv, Own, PresentPcs
<1>9. \A c \in Cpus :
        /\ cpu'[c].present = cpu[c].present
        /\ \/ cpu'[c].run = cpu[c].run
           \/ /\ c # b /\ pc[c] = "apLoop" /\ pc[c] \in Joined
              /\ cpu[c].run = 0 /\ cpu'[c].run = 1
  <2>1. ASSUME NEW c \in Cpus, NEW k \in Procedures, NEW blocking \in BOOLEAN,
               InternalSmmStartupThisAp(b, c, k, blocking)
        PROVE  /\ SameBut(c) /\ cpu'[c].present = cpu[c].present
               /\ c # b /\ pc[c] = "apLoop" /\ pc[c] \in Joined
               /\ cpu[c].run = 0 /\ cpu'[c].run = 1
    <3>1. pc[b] = "handlers" /\ c # b /\ cpu[c].present /\ ~cpu[c].busy
      BY <2>1 DEF InternalSmmStartupThisAp, IsPresentAp
    <3>2. pc[c] \in Joined /\ pc[c] \in PresentPcs
      BY <1>4, <1>8, <3>1 DEF RInv, Own
    <3>3. Follows(config, "handlers", pc[c], cpu[c].run) /\ ApWorks(b, c)
      BY <1>3, <3>1, <3>2, Leads
    <3>4. cpu[c].run # 1 /\ pc[c] \notin {"apCheck", "apExec", "apIdle"}
      BY <3>1, <3>3 DEF ApWorks, Engaged, Broadcast, Running, Run
    <3>5. pc[c] = "apLoop" /\ cpu[c].run = 0
      BY <3>2, <3>3, <3>4 DEF Follows, PresentPcs, Joined, ApPcs, Waiting, Leading, BspPcs, Arriving,
         Leaving, Saving, Setting, Restoring, Ending, Calling
    <3>6. cpu' = [cpu EXCEPT ![c].busy = TRUE, ![c].proc = k, ![c].run = @ + 1]
      BY <2>1 DEF InternalSmmStartupThisAp
    <3>7. /\ SameBut(c)
          /\ cpu'[c] = [cpu[c] EXCEPT !.busy = TRUE, !.proc = k, !.run = @ + 1]
      <4>1. cpu \in [Cpus -> CpuData]
        BY <1>4, Parts
      <4> QED
        BY <3>6, <4>1 DEF SameBut
    <3>8. cpu'[c].present = cpu[c].present /\ cpu'[c].run = cpu[c].run + 1
      BY <1>4, <3>7, Parts DEF CpuData
    <3>9. cpu'[c].run = 1
      BY <3>5, <3>8
    <3> QED
      BY <3>1, <3>2, <3>5, <3>7, <3>8, <3>9
  <2>2. CASE \E k \in Procedures, blocking \in BOOLEAN : StartupAllAPs(b, k, blocking)
    BY <2>2 DEF StartupAllAPs
  <2>3. CASE AcquireAllBusy(b)
    <3>1. \A c \in Cpus : cpu'[c] = IF IsPresentAp(b, c) THEN [cpu[c] EXCEPT !.busy = TRUE] ELSE cpu[c]
      BY <2>3 DEF AcquireAllBusy
    <3> QED
      BY <1>4, <3>1, Parts DEF CpuData
  <2>4. CASE ScheduleAll(b)
    <3>1. \A c \in Cpus : cpu'[c] = [cpu[c] EXCEPT !.proc = bsp.proc] \/ cpu'[c] = cpu[c]
      BY <2>4 DEF ScheduleAll
    <3> QED
      BY <1>4, <3>1, Parts DEF CpuData
  <2>5. CASE StartAll(b)
    <3>1. cpu' = ReleasedAPs(b) /\ pc[b] = "start"
      BY <2>5 DEF StartAll
    <3>2. ASSUME NEW c \in Cpus, c # b, cpu[c].present
          PROVE  pc[c] = "apLoop" /\ pc[c] \in Joined /\ cpu[c].run = 0
      <4>1. pc[c] \in Joined
        BY <1>8, <3>2
      <4>2. ApWorks(b, c)
        BY <1>3, <3>2, <4>1, Leads
      <4> QED
        BY <3>1, <4>1, <4>2 DEF ApWorks, Broadcast, Run
    <3> QED
      BY <1>4, <3>1, <3>2, APsReleased
  <2>6. CASE Unblock(b) \/ HandlersDone(b)
    BY <2>6 DEF Unblock, HandlersDone
  <2> QED
    BY <2>1, <2>2, <2>3, <2>4, <2>5, <2>6 DEF Serving, SameBut
<1>10. \A c \in Cpus : c # b =>
         /\ cpu'[c].present = cpu[c].present /\ mtrr'[c] = mtrr[c]
         /\ cpu'[c].run = cpu[c].run \/ pc[c] \in Joined
         /\ pc[c] \in Joined => Follows(config, next, pc[c], cpu'[c].run)
         /\ pc[c] = "unsync" => ~Firm(config, next)
  <2>1. ASSUME NEW c \in Cpus, c # b, pc[c] \in Joined
        PROVE  Follows(config, next, pc[c], cpu'[c].run)
    <3>1. Follows(config, pc[b], pc[c], cpu[c].run)
      BY <1>3, <2>1, Leads
    <3>2. Follows(config, next, pc[c], cpu[c].run)
      BY <1>1, <3>1, RunningSame
    <3>3. Follows(config, next, "apLoop", 1)
      BY <1>1 DEF Follows
    <3> QED
      BY <1>9, <2>1, <3>2, <3>3
  <2>2. \A c \in Cpus : c # b /\ pc[c] = "unsync" => ~Firm(config, next)
    BY <1>3, <1>6, Leads
  <2> QED
    BY <1>2, <1>9, <2>1, <2>2
<1>11. cpu'[b].run = cpu[b].run /\ cpu'[b].present /\ mtrr'[b] = Mtrr(config, next)
  BY <1>2, <1>4, <1>6, <1>9
<1> QED
  BY <1>1, <1>2, <1>4, <1>5, <1>6, <1>7, <1>10, <1>11, BspStays

(* The APs are done with their procedures, and the BSP lets them go.        *)
LEMMA ExitSteps ==
  ASSUME SInv, NEW b \in Cpus,
         Drained(b) \/ AllPresent(b) \/ BspExit(b) \/ ReleaseToExit(b)
  PROVE  RInv'
<1> USE DEF Step
<1>1. PICK next :
        /\ Goto(b, next)
        /\ \/ pc[b] = "drain" /\ Gathers(config) /\ next = "exit"
           \/ pc[b] = "drain" /\ ~Gathers(config) /\ next = "lock"
           \/ pc[b] = "allPresent" /\ next = "exit"
           \/ pc[b] = "exit" /\ next = "release"
           \/ pc[b] = "release" /\ next = "gatherExit"
  BY DEF Drained, AllPresent, BspExit, ReleaseToExit, GatherFirst, Gathers
<1>2. /\ config' = config /\ mtrr' = mtrr /\ bsp' = bsp
      /\ sync' = IF pc[b] = "exit" THEN [sync EXCEPT !.inside = FALSE] ELSE sync
      /\ cpu' = IF pc[b] = "release" THEN ReleasedAPs(b) ELSE cpu
  BY DEF Drained, AllPresent, BspExit, ReleaseToExit
<1>3. pc[b] \in Leading
  BY <1>1 DEF Leading, BspPcs
<1>4. /\ Led(b) /\ Typed /\ RInv /\ Works(b) /\ OnItsWay(config, pc[b])
      /\ mtrr[b] = Mtrr(config, pc[b])
      /\ cpu[b].present <=> pc[b] \in PresentPcs
  BY <1>3, Leads DEF Own, Led, Way
<1>5. /\ sync'.bsp = sync.bsp /\ sync'.counter = sync.counter /\ sync'.allInSync = sync.allInSync
      /\ sync'.inside = IF pc[b] = "exit" THEN FALSE ELSE sync.inside
  BY <1>2, <1>4, Parts DEF SyncData
<1>6. SameStage(config, pc[b], next)
  BY <1>1, <1>4 DEF SameStage, OnItsWay, Leading, BspPcs, Gave, Arriving, Calling, Saving, Setting,
     Restoring, Ending, Broadcast
<1>7. /\ Closed(config, next) <=> Closed(config, pc[b])
      /\ Firm(config, next) => Firm(config, pc[b])
      /\ next \in InsidePcs <=> pc[b] \in InsidePcs /\ pc[b] # "exit"
      /\ next \in PresentPcs /\ pc[b] \in PresentPcs /\ next # "lockdown"
  BY <1>1, <1>4 DEF Closed, Firm, InsidePcs, PresentPcs, Leading, BspPcs, Calling, Running, Restoring,
     Ending
<1>8. Mtrr(config, next) = Mtrr(config, pc[b])
  BY <1>1, <1>4 DEF Mtrr, SavedPcs, SmmPcs, Running, OnItsWay, Gathers
<1>9. \A c \in Cpus : cpu[c].present => c = b \/ pc[c] \in Joined
  BY <1>3, <1>4, Leads DEF RInv, Own, PresentPcs
<1>10. ASSUME NEW c \in Cpus, c # b, pc[c] \in Joined
       PROVE  Follows(config, next, pc[c], cpu'[c].run)
  <2>1. Follows(config, pc[b], pc[c], cpu[c].run) /\ ApWorks(b, c)
    BY <1>3, <1>10, Leads
  <2>2. CASE pc[b] = "drain"
    <3>1. ~cpu[c].busy
      BY <1>1, <2>1, <2>2 DEF Drained, AllPresent, BspExit, ReleaseToExit, NotBusy, ApWorks
    <3>2. cpu[c].run # 1 /\ pc[c] \notin {"apCheck", "apExec", "apIdle"}
      BY <2>1, <2>2, <3>1 DEF ApWorks, Engaged, Broadcast, Running, Run
    <3>3. cpu' = cpu
      BY <1>2, <2>2
    <3>4. \/ pc[c] = "apLoop" /\ cpu[c].run = 0
          \/ /\ ~Gathers(config) /\ cpu[c].run = 0
             /\ pc[c] \in {"elect", "waitBsp", "waitBspAgain", "apPresent", "giveUp"}
      BY <2>1, <2>2, <3>2 DEF Follows, Early, Arriving, Leaving, Saving, Setting, Restoring, Ending,
         Calling
    <3>5. CASE Gathers(config)
      <4>1. next = "exit" /\ pc[c] = "apLoop" /\ cpu[c].run = 0
        BY <1>1, <2>2, <3>4, <3>5
      <4> QED
        BY <3>3, <4>1 DEF Follows
    <3>6. CASE ~Gathers(config)
      <4>1. next = "lock" /\ ~config.mtrrs
        BY <1>1, <2>2, <3>6 DEF Gathers
      <4>2. Early(config, "lock") /\ ~Firm(config, "lock")
        BY <3>6 DEF Early, Calling, Firm, Closed
      <4> QED
        BY <3>3, <3>4, <4>1, <4>2 DEF Follows
    <3> QED
      BY <3>5, <3>6
  <2>3. CASE pc[b] = "allPresent"
    <3> DEFINE present == {d \in Cpus : cpu[d].present}
    <3>1. Cardinality(present) > bsp.apCount /\ next = "exit" /\ cpu' = cpu
      BY <1>1, <1>2, <2>3 DEF Drained, AllPresent, BspExit, ReleaseToExit
    <3>2. bsp.apCount + 1 = Cardinality(Members)
      BY <1>4, <2>3 DEF Led, Counts, Closed, Ending, Leading, BspPcs, Calling, Running
    <3>3. present \in SUBSET Members
      BY <1>4, <1>9 DEF Members, Led, Way, OnItsWay
    <3>4. bsp.apCount \in Int /\ Cardinality(present) \in Nat /\ Members \in SUBSET Cpus
      BY <1>4, Parts, Few, Counted
    <3>5. present = Members
      <4> HIDE DEF present
      <4>1. Cardinality(present) >= Cardinality(Members)
        BY <3>1, <3>2, <3>4
      <4> QED
        BY <3>3, <3>4, <4>1, WholeSet
    <3>6. pc[c] \in PresentPcs
      <4>1. c \in present
        BY <1>10, <3>5 DEF Members
      <4> QED
        BY <1>4, <4>1 DEF RInv, Own
    <3>7. pc[c] = "apLoop" /\ cpu[c].run = 0
      BY <1>4, <1>10, <2>1, <2>3, <3>6 DEF Follows, Early, Arriving, Leaving, Saving, Setting, Restoring, Ending,
         Calling, PresentPcs, Joined, ApPcs, Waiting, Leading, BspPcs, OnItsWay, Running
    <3> QED
      BY <3>1, <3>7 DEF Follows
  <2>4. CASE pc[b] = "exit"
    <3>1. next = "release" /\ cpu' = cpu /\ pc[c] = "apLoop" /\ cpu[c].run = 0
      BY <1>1, <1>2, <2>1, <2>4 DEF Follows, Early, Arriving, Leaving, Saving, Setting, Restoring,
         Ending, Calling, Running
    <3> QED
      BY <3>1 DEF Follows
  <2>5. CASE pc[b] = "release"
    <3>1. next = "gatherExit" /\ cpu' = ReleasedAPs(b) /\ pc[c] = "apLoop" /\ cpu[c].run = 0
      BY <1>1, <1>2, <2>1, <2>5 DEF Follows, Early, Arriving, Leaving, Saving, Setting, Restoring,
         Ending, Calling, Running
    <3>2. cpu[c].present
      BY <1>4, <1>10, <3>1 DEF RInv, Own, PresentPcs, Joined, ApPcs, Waiting
    <3>3. cpu'[c].run = 1
      BY <1>4, <1>10, <3>1, <3>2, APsReleased
    <3> QED
      BY <3>1, <3>3 DEF Follows
  <2> QED
    BY <1>1, <2>2, <2>3, <2>4, <2>5
<1>11. \A c \in Cpus :
         /\ cpu'[c].present = cpu[c].present
         /\ cpu'[c].run = cpu[c].run \/ (c # b /\ cpu[c].present)
  BY <1>2, <1>4, APsReleased
<1>12. \A c \in Cpus : c # b =>
         /\ cpu'[c].present = cpu[c].present /\ mtrr'[c] = mtrr[c]
         /\ cpu'[c].run = cpu[c].run \/ pc[c] \in Joined
         /\ pc[c] \in Joined => Follows(config, next, pc[c], cpu'[c].run)
         /\ pc[c] = "unsync" => ~Firm(config, next)
  BY <1>2, <1>3, <1>7, <1>9, <1>10, <1>11, Leads
<1>13. cpu'[b].run = cpu[b].run /\ cpu'[b].present /\ mtrr'[b] = Mtrr(config, next)
  BY <1>2, <1>4, <1>7, <1>8, <1>11
<1>14. sync'.inside <=> next \in InsidePcs
  BY <1>4, <1>5, <1>7 DEF Led, Way
<1>15. Closed(config, next) \/ next = "lockdown" => sync'.allInSync
  BY <1>4, <1>5, <1>7 DEF Led, Way
<1> QED
  BY <1>1, <1>2, <1>4, <1>5, <1>6, <1>7, <1>12, <1>13, <1>14, <1>15, BspStays

(* WaitForAllAPs returns when no AP owes a signal.                          *)
LEMMA AllGave ==
  ASSUME SInv, NEW b \in Cpus, pc[b] \in Leading, Closed(config, pc[b]), pc[b] # "reopen",
         Gathered(b)
  PROVE  Owing(b) = {} /\ Run(b) = bsp.apCount
<1>1. Led(b) /\ Typed
  BY Leads
<1>2. Run(b) + Cardinality(Owing(b)) = bsp.apCount
  <2>1. /\ cpu[b].run \in Nat /\ bsp.apCount \in Int
        /\ Cardinality(Owing(b)) \in Nat /\ Cardinality(Members) \in Nat
    BY <1>1, Parts, Counted
  <2> QED
    BY <1>1, <2>1 DEF Led, Counts, Run
<1>3. /\ cpu[b].run \in Nat /\ bsp.apCount \in Int /\ cpu[b].run >= bsp.apCount
      /\ Cardinality(Owing(b)) \in Nat
  BY <1>1, Parts, Counted DEF Gathered, Run
<1>4. Cardinality(Owing(b)) = 0 /\ Run(b) = bsp.apCount
  BY <1>2, <1>3 DEF Run
<1>5. Owing(b) \in SUBSET Cpus
  BY Counted
<1> QED
  BY <1>4, <1>5, Few

LEMMA GatherSteps ==
  ASSUME SInv, NEW b \in Cpus, WaitForAllAPs(b)
  PROVE  RInv'
<1> DEFINE next == GatherNext(pc[b])
           data == IF ReleasesAfter(pc[b]) THEN ReleasedAPs(b) ELSE cpu
<1>1. /\ pc[b] \in {"gather", "mtrrSaved", "mtrrDone", "gatherExit", "mtrrRestored"}
      /\ Goto(b, next) /\ Gathered(b)
      /\ cpu' = [data EXCEPT ![b].run = @ - bsp.apCount]
      /\ config' = config /\ sync' = sync /\ bsp' = bsp /\ mtrr' = mtrr
  BY DEF WaitForAllAPs, Gather
<1>2. pc[b] \in Leading /\ Closed(config, pc[b]) /\ pc[b] \notin Ending \cup {"reopen"}
  BY <1>1 DEF Leading, BspPcs, Closed, Calling, Running, Ending
<1>3. /\ Led(b) /\ Typed /\ RInv /\ OnItsWay(config, pc[b])
      /\ mtrr[b] = Mtrr(config, pc[b])
      /\ cpu[b].present <=> pc[b] \in PresentPcs
  BY <1>2, Leads DEF Own, Led, Way
<1>4. \/ pc[b] = "gather" /\ config.mtrrs /\ next = "mtrrSave"
      \/ pc[b] = "gather" /\ ~config.mtrrs /\ next = "handlers"
      \/ pc[b] = "mtrrSaved" /\ config.mtrrs /\ next = "mtrrSet"
      \/ pc[b] = "mtrrDone" /\ config.mtrrs /\ next = "handlers"
      \/ pc[b] = "gatherExit" /\ config.mtrrs /\ next = "mtrrRestore"
      \/ pc[b] = "gatherExit" /\ ~config.mtrrs /\ next = "reset"
      \/ pc[b] = "mtrrRestored" /\ config.mtrrs /\ next = "reset"
  BY <1>1, <1>3 DEF GatherNext, OnItsWay, Saving, Setting, Restoring
<1>5. Owing(b) = {} /\ Run(b) = bsp.apCount
  BY <1>1, <1>2, AllGave
<1>6. \A c \in Cpus :
        /\ cpu'[c].present = cpu[c].present
        /\ c = b => cpu'[c].run = 0
        /\ c # b => cpu'[c].run = IF cpu[c].present /\ next # "handlers" THEN cpu[c].run + 1
                                  ELSE cpu[c].run
  <2>1. data \in [Cpus -> CpuData] /\ data[b] = cpu[b]
    BY <1>3, ReleasedTyped, Parts
  <2>2. \A c \in Cpus :
          /\ data[c].present = cpu[c].present
          /\ c # b => data[c].run = IF cpu[c].present /\ next # "handlers" THEN cpu[c].run + 1
                                    ELSE cpu[c].run
    BY <1>3, APsReleased DEF ReleasesAfter
  <2> HIDE DEF data
  <2>3. /\ cpu'[b] = [data[b] EXCEPT !.run = data[b].run - bsp.apCount]
        /\ \A c \in Cpus : c # b => cpu'[c] = data[c]
    BY <1>1, <2>1
  <2>4. cpu'[b].run = cpu[b].run - bsp.apCount /\ cpu'[b].present = cpu[b].present
    <3>1. data[b] \in CpuData
      BY <2>1
    <3> QED
      BY <2>1, <2>3, <3>1 DEF CpuData
  <2>5. cpu'[b].run = 0
    <3>1. cpu[b].run \in Nat
      BY <1>3, Parts
    <3> QED
      BY <1>5, <2>4, <3>1 DEF Run
  <2> QED
    BY <2>2, <2>3, <2>4, <2>5
<1> HIDE DEF next, data
<1>7. pc'[b] = next /\ \A c \in Cpus : c # b => pc'[c] = pc[c]
  BY <1>1, <1>3, Went
<1>8. /\ next \in Leading /\ Closed(config, next) /\ next # "reopen"
      /\ next \in InsidePcs <=> pc[b] \in InsidePcs
      /\ next \in PresentPcs /\ pc[b] \in PresentPcs
  <2>1. Gathers(config) \/ next \notin Running
    BY <1>3, <1>4 DEF OnItsWay, Gathers, Running
  <2> QED
    BY <1>4, <2>1 DEF Leading, BspPcs, Closed, Calling, InsidePcs, PresentPcs, Restoring, Ending
<1>9. OnItsWay(config, next)
  BY <1>4 DEF OnItsWay, Leading, BspPcs, Saving, Setting, Restoring, Broadcast
<1>10. Mtrr(config, next) = Mtrr(config, pc[b])
  BY <1>4 DEF Mtrr, SavedPcs, SmmPcs, Running
<1>11. ASSUME NEW c \in Cpus, c # b, pc[c] \in Joined
       PROVE  Follows(config, next, pc[c], cpu'[c].run) /\ ~Gave(config, next, pc[c])
  <2>1. Follows(config, pc[b], pc[c], cpu[c].run)
    BY <1>2, <1>11, Leads
  <2>2. Gave(config, pc[b], pc[c])
    BY <1>5, <1>11 DEF Owing, Members
  <2>3. cpu[c].run = 0 /\ \/ pc[b] = "gather" /\ config.mtrrs /\ pc[c] = "apSave"
                          \/ pc[b] = "gather" /\ ~config.mtrrs /\ pc[c] = "apLoop"
                          \/ pc[b] = "mtrrSaved" /\ pc[c] = "apSet"
                          \/ pc[b] = "mtrrDone" /\ pc[c] = "apLoop"
                          \/ pc[b] = "gatherExit" /\ config.mtrrs /\ pc[c] = "apRestore"
                          \/ pc[b] = "gatherExit" /\ ~config.mtrrs /\ pc[c] = "apReset"
                          \/ pc[b] = "mtrrRestored" /\ pc[c] = "apReset"
    BY <1>1, <2>1, <2>2 DEF Follows, Gave, Arriving, Leaving, Early, Saving, Setting, Restoring, Ending,
       Calling, Running
  <2>4. cpu[c].present
    <3>1. pc[c] \in PresentPcs
      BY <1>11, <2>3 DEF PresentPcs, Joined, ApPcs, Waiting
    <3> QED
      BY <1>3, <3>1 DEF RInv, Own
  <2>5. cpu'[c].run = IF next # "handlers" THEN 1 ELSE 0
    BY <1>6, <1>11, <2>3, <2>4
  <2>6. Follows(config, next, pc[c], cpu'[c].run)
    BY <1>4, <2>3, <2>5 DEF Follows, Saving, Setting, Restoring, Ending, Running
  <2>7. ~Gave(config, next, pc[c])
    BY <1>4, <2>3 DEF Gave, Arriving, Calling, Saving, Setting, Restoring, Ending
  <2> QED
    BY <2>6, <2>7
<1>12. Way(b)'
  <2>1. sync.allInSync /\ sync.bsp = b /\ (sync.inside <=> next \in InsidePcs)
    BY <1>2, <1>3, <1>8 DEF Led, Way
  <2> QED
    BY <1>1, <1>7, <1>8, <1>9, <2>1 DEF Way
<1>13. Others(b)'
  <2>1. \A c \in Cpus : c # b => pc[c] \notin Leading /\ pc[c] # "unsync"
    BY <1>2, Leads DEF Firm
  <2> QED
    BY <1>1, <1>7, <1>11, <2>1 DEF Others, Run
<1>14. \A d \in Cpus : Own(d)'
  <2>1. Own(b)'
    BY <1>1, <1>3, <1>6, <1>7, <1>8, <1>10 DEF Own
  <2>2. ASSUME NEW d \in Cpus, d # b
        PROVE  Own(d)'
    <3>1. cpu[d].present => pc[d] \in Leading \cup Joined
      BY <1>3 DEF RInv, Own, PresentPcs
    <3>2. cpu'[d].run = cpu[d].run \/ pc[d] \in Leading \cup Joined
      BY <1>6, <2>2, <3>1
    <3> QED
      BY <1>1, <1>3, <1>6, <1>7, <2>2, <3>2, OwnKept DEF RInv
  <2> QED
    BY <2>1, <2>2
<1>15. Members' = Members /\ b \in Members
  BY <1>2, <1>7, <1>8 DEF Members
<1>16. Owing(b)' = Members \ {b}
  <2>1. \A c \in Members : c # b => pc[c] \in Joined
    BY <1>2, Leads DEF Members
  <2>2. \A c \in Members : c # b => pc'[c] = pc[c] /\ ~Gave(config, next, pc[c])
    BY <1>7, <1>11, <2>1, Counted
  <2> QED
    BY <1>1, <1>7, <1>15, <2>2 DEF Owing
<1>17. Cardinality(Owing(b)') = Cardinality(Members) - 1 /\ Cardinality(Members) \in Nat
  BY <1>15, <1>16, OneLess, Counted
<1>18. bsp.apCount + 1 = Cardinality(Members) /\ sync.counter = Locked /\ bsp.apCount \in Int
  BY <1>2, <1>3, Parts DEF Led, Counts
<1>19. Counts(b)'
  BY <1>1, <1>6, <1>7, <1>8, <1>15, <1>17, <1>18 DEF Counts, Run
<1> QED
  BY <1>12, <1>13, <1>14, <1>19, LedRestored DEF Led

(* The end of BSPHandler: the BSP is absent, the APs are gone, the counter is
   open again.                                                              *)
LEMMA EndSteps ==
  ASSUME SInv, NEW b \in Cpus,
         BspAbsent(b) \/ GatherEnd(b) \/ (Reopen(b) /\ pc[b] = "reopen")
  PROVE  RInv'
<1> USE DEF Step
<1>0. Typed /\ RInv
  BY DEF SInv
<1>1. CASE BspAbsent(b)
  <2>1. /\ pc[b] = "reset" /\ Goto(b, "gatherEnd") /\ cpu' = [cpu EXCEPT ![b].present = FALSE]
        /\ config' = config /\ sync' = sync /\ bsp' = bsp /\ mtrr' = mtrr
    BY <1>1 DEF BspAbsent
  <2>2. /\ pc[b] \in Leading /\ "gatherEnd" \in Leading
        /\ Closed(config, "reset") /\ Closed(config, "gatherEnd")
        /\ "reset" \notin InsidePcs /\ "gatherEnd" \notin InsidePcs
        /\ "gatherEnd" \notin PresentPcs /\ Firm(config, "reset")
        /\ "reset" \in Ending /\ "gatherEnd" \in Ending
        /\ OnItsWay(config, "gatherEnd")
    BY <2>1 DEF Leading, BspPcs, Closed, Calling, Running, InsidePcs, PresentPcs, Joined, ApPcs, Ending,
       Firm, OnItsWay, Saving, Setting, Restoring, Broadcast
  <2>3. Led(b) /\ mtrr[b] = Mtrr(config, "reset")
    BY <2>1, <2>2, Leads DEF Own
  <2>4. SameBut(b) /\ cpu'[b].run = cpu[b].run /\ cpu'[b].present = FALSE
    BY <1>0, <2>1, PresentStored
  <2>5. pc'[b] = "gatherEnd" /\ \A c \in Cpus : c # b => pc'[c] = pc[c]
    BY <1>0, <2>1, Went
  <2>6. Mtrr(config, "gatherEnd") = Mtrr(config, "reset")
    BY DEF Mtrr, SavedPcs, SmmPcs, Running
  <2>7. \A d \in Cpus : Own(d)'
    <3>1. Own(b)'
      BY <2>1, <2>2, <2>3, <2>4, <2>5, <2>6 DEF Own
    <3>2. ASSUME NEW d \in Cpus, d # b
          PROVE  Own(d)'
      BY <1>0, <2>1, <2>4, <2>5, <3>2, OwnKept DEF RInv, SameBut
    <3> QED
      BY <3>1, <3>2
  <2>8. Way(b)'
    BY <2>1, <2>2, <2>3, <2>5 DEF Led, Way
  <2>9. Others(b)'
    <3>1. \A q, run : Follows(config, "reset", q, run) => Follows(config, "gatherEnd", q, run)
      BY DEF Follows, Arriving, Leaving, Early, Saving, Setting, Restoring, Ending, Calling, Running
    <3>2. \A c \in Cpus : c # b => pc[c] # "unsync" /\ pc[c] \notin Leading
      BY <2>1, <2>2, Leads
    <3> QED
      BY <2>1, <2>2, <2>3, <2>4, <2>5, <3>1, <3>2 DEF Led, Others, Run, SameBut
  <2>10. Members' = Members
    BY <2>2, <2>5 DEF Members
  <2>11. Owing(b)' = Owing(b)
    <3>1. \A q : ~Gave(config, "reset", q) /\ ~Gave(config, "gatherEnd", q)
      BY DEF Gave, Arriving, Calling, Saving, Setting, Restoring, Ending
    <3> QED
      BY <2>1, <2>5, <2>10, <3>1 DEF Owing
  <2>12. Counts(b)'
    BY <2>1, <2>2, <2>3, <2>4, <2>5, <2>10, <2>11 DEF Led, Counts, Run
  <2> QED
    BY <2>7, <2>8, <2>9, <2>12, LedRestored DEF Led
<1>2. CASE GatherEnd(b)
  <2>1. /\ pc[b] = "gatherEnd" /\ Goto(b, "reopen") /\ Gathered(b)
        /\ cpu' = [cpu EXCEPT ![b].run = @ - bsp.apCount]
        /\ config' = config /\ bsp' = bsp /\ mtrr' = mtrr
        /\ sync' = IF config.election THEN [sync EXCEPT !.bsp = None] ELSE sync
    BY <1>2 DEF GatherEnd, Gather
  <2>2. /\ pc[b] \in Leading /\ "reopen" \in Leading
        /\ Closed(config, "reopen") /\ Closed(config, "gatherEnd")
        /\ "reopen" \notin InsidePcs /\ "gatherEnd" \notin InsidePcs
        /\ "gatherEnd" \notin PresentPcs /\ "reopen" \notin PresentPcs
        /\ "reopen" \notin Ending /\ "gatherEnd" \in Ending
        /\ OnItsWay(config, "reopen")
    BY <2>1 DEF Leading, BspPcs, Closed, Calling, Running, InsidePcs, PresentPcs, Joined, ApPcs, Ending,
       OnItsWay, Saving, Setting, Restoring, Broadcast
  <2>3. /\ Led(b) /\ mtrr[b] = Mtrr(config, "gatherEnd") /\ ~cpu[b].present
    BY <2>1, <2>2, Leads DEF Own
  <2>4. Owing(b) = {} /\ cpu[b].run = bsp.apCount /\ cpu[b].run \in Nat
    BY <1>0, <2>1, <2>2, AllGave, Parts DEF Run
  <2>5. SameBut(b) /\ cpu'[b].run = 0 /\ cpu'[b].present = cpu[b].present
    <3>1. SameBut(b) /\ cpu'[b].run = cpu[b].run - bsp.apCount /\ cpu'[b].present = cpu[b].present
      BY <1>0, <2>1, RunStored
    <3> QED
      BY <2>4, <3>1
  <2>6. pc'[b] = "reopen" /\ \A c \in Cpus : c # b => pc'[c] = pc[c]
    BY <1>0, <2>1, Went
  <2>7. Mtrr(config, "gatherEnd") = Mtrr(config, "reopen")
    BY DEF Mtrr, SavedPcs, SmmPcs, Running
  <2>8. \A d \in Cpus : Own(d)'
    <3>1. Own(b)'
      BY <2>1, <2>2, <2>3, <2>5, <2>6, <2>7 DEF Own
    <3>2. ASSUME NEW d \in Cpus, d # b
          PROVE  Own(d)'
      BY <1>0, <2>1, <2>5, <2>6, <3>2, OwnKept DEF RInv, SameBut
    <3> QED
      BY <3>1, <3>2
  <2>9. /\ sync'.counter = sync.counter /\ sync'.inside = sync.inside
        /\ sync'.allInSync = sync.allInSync
        /\ sync'.bsp = IF config.election THEN None ELSE sync.bsp
    BY <1>0, <2>1, Parts DEF SyncData
  <2>10. Way(b)'
    BY <2>1, <2>2, <2>3, <2>6, <2>9 DEF Led, Way
  <2>11. Members = {b}
    <3>1. \A q : ~Gave(config, "gatherEnd", q)
      BY DEF Gave, Arriving, Calling, Saving, Setting, Restoring, Ending
    <3> QED
      BY <2>1, <2>2, <2>4, <3>1 DEF Owing, Members
  <2>12. Members' = {b}
    BY <2>2, <2>6, <2>11 DEF Members
  <2>13. Others(b)'
    <3>1. \A c \in Cpus : c # b => pc[c] # "unsync" /\ pc[c] \notin Leading \cup Joined
      BY <2>1, <2>2, <2>11, Leads DEF Firm, Members
    <3> QED
      BY <2>6, <3>1 DEF Others
  <2>14. Counts(b)'
    BY <2>1, <2>2, <2>3, <2>5, <2>6, <2>9, <2>12 DEF Led, Counts, Run
  <2> QED
    BY <2>8, <2>10, <2>13, <2>14, LedRestored DEF Led
<1>3. CASE Reopen(b) /\ pc[b] = "reopen"
  <2>1. /\ pc[b] = "reopen" /\ Goto(b, "unsync")
        /\ config' = config /\ bsp' = bsp /\ mtrr' = mtrr /\ cpu' = cpu
        /\ sync' = [sync EXCEPT !.counter = 0]
    BY <1>3 DEF Reopen
  <2>2. /\ pc[b] \in Leading /\ "unsync" \notin Leading \cup Joined
        /\ "unsync" \notin PresentPcs /\ "reopen" \notin PresentPcs
        /\ "reopen" \notin InsidePcs
    BY <2>1 DEF Leading, BspPcs, Joined, ApPcs, PresentPcs, InsidePcs
  <2>3. /\ Led(b) /\ mtrr[b] = Mtrr(config, "reopen") /\ ~cpu[b].present
    BY <2>1, <2>2, Leads DEF Own
  <2>4. Members = {b} /\ cpu[b].run = 0
    BY <2>1, <2>3 DEF Led, Counts, Run
  <2>5. pc'[b] = "unsync" /\ \A c \in Cpus : c # b => pc'[c] = pc[c]
    BY <1>0, <2>1, Went
  <2>6. \A d \in Cpus : Own(d)'
    <3>0. Mtrr(config, "unsync") = Mtrr(config, "reopen")
      BY DEF Mtrr, SavedPcs, SmmPcs, Running
    <3>1. Own(b)'
      BY <2>1, <2>2, <2>3, <2>4, <2>5, <3>0 DEF Own, Run
    <3>2. ASSUME NEW d \in Cpus, d # b
          PROVE  Own(d)'
      BY <1>0, <2>1, <2>5, <3>2, OwnKept DEF RInv
    <3> QED
      BY <3>1, <3>2
  <2>7. sync'.counter = 0 /\ sync'.inside = sync.inside /\ sync'.bsp = sync.bsp
    BY <1>0, <2>1, Parts DEF SyncData
  <2>8. \A c \in Cpus : pc'[c] \notin Leading \cup Joined
    BY <2>2, <2>4, <2>5 DEF Members
  <2>9. Members' = {}
    BY <2>8 DEF Members
  <2>10. Cardinality(Members') = 0
    BY <2>9, FS_EmptySet
  <2>11. ~sync.inside /\ (config.election => sync.bsp = None)
    BY <2>1, <2>2, <2>3 DEF Led, Way
  <2>12. Open' /\ NoBsp'
    BY <2>1, <2>7, <2>8, <2>10, <2>11 DEF Open, NoBsp
  <2> QED
    BY <2>6, <2>12, OpenRestored
<1> QED
  BY <1>1, <1>2, <1>3

(* The rendezvous is kept by every step.                                    *)
LEMMA RInvStep ==
  ASSUME SInv, Typed', TraditionalBroadcasts, Timing, NEW c \in Cpus, Enter(c) \/ Acts(c)
  PROVE  RInv'
<1>1. CASE Enter(c) \/ SmiRendezvous(c)
  BY <1>1, OutsideSteps, CheckInSteps, ElectSteps DEF SmiRendezvous, SInv
<1>2. CASE BSPHandler(c)
  <2>1. Reopen(c) => pc[c] \in {"reopen", "unsync"}
    BY DEF Reopen, Step
  <2> QED
    BY <1>2, <2>1, CallSteps, ArrivalSteps, LockdownSteps, GatherSteps, BspMtrrSteps, HandlerSteps,
       ExitSteps, EndSteps, OutsideSteps DEF BSPHandler, SInv
<1>3. CASE Serving(c) \/ APHandler(c)
  BY <1>3, HandlerSteps, ApSteps
<1> QED
  BY <1>1, <1>2, <1>3 DEF Acts

-----------------------------------------------------------------------------
(* Who is outside while the handlers run                                    *)

(* A step moves one processor and keeps the configuration.                  *)
LEMMA Moved ==
  ASSUME Typed, NEW c \in Cpus, Enter(c) \/ Acts(c)
  PROVE  config' = config /\ \A d \in Cpus : d # c => pc'[d] = pc[d]
<1>1. \E next : Goto(c, next)
  <2>1. CASE Enter(c) \/ SmiRendezvous(c)
    BY <2>1 DEF SmiRendezvous, Enter, Sample, CheckIn, Elect, Leave, Step
  <2>2. CASE BSPHandler(c)
    BY <2>2 DEF BSPHandler, BspInside, BspPresent, Arrival, ArrivalAgain, SetAllInSync, Lockdown,
       WaitForAllAPs, BspMtrrs, HandlersDone, Drained, AllPresent, BspExit, ReleaseToExit, BspAbsent,
       GatherEnd, Reopen, Step
  <2>3. CASE Serving(c)
    BY <2>3 DEF Serving, InternalSmmStartupThisAp, StartupAllAPs, AcquireAllBusy, ScheduleAll, StartAll,
       Unblock, Step
  <2>4. CASE APHandler(c)
    BY <2>4 DEF APHandler, SeeBsp, BspTimeout, GiveUp, ApPresent, ApSignal, ApMtrrs, ApWake, ApReset,
       ApCheck, ApExec, ApIdle, Step
  <2> QED
    BY <2>1, <2>2, <2>3, <2>4 DEF Acts
<1>2. config' = config
  <2>1. CASE Enter(c) \/ SmiRendezvous(c)
    BY <2>1 DEF SmiRendezvous, Enter, Sample, CheckIn, Elect, Leave
  <2>2. CASE BSPHandler(c)
    BY <2>2 DEF BSPHandler, BspInside, BspPresent, Arrival, ArrivalAgain, SetAllInSync, Lockdown,
       WaitForAllAPs, BspMtrrs, HandlersDone, Drained, AllPresent, BspExit, ReleaseToExit, BspAbsent,
       GatherEnd, Reopen
  <2>3. CASE Serving(c)
    BY <2>3 DEF Serving, InternalSmmStartupThisAp, StartupAllAPs, AcquireAllBusy, ScheduleAll, StartAll, Unblock
  <2>4. CASE APHandler(c)
    BY <2>4 DEF APHandler, SeeBsp, BspTimeout, GiveUp, ApPresent, ApSignal, ApMtrrs, ApWake, ApReset,
       ApCheck, ApExec, ApIdle
  <2> QED
    BY <2>1, <2>2, <2>3, <2>4 DEF Acts
<1> QED
  BY <1>1, <1>2, Went

(* An SMI stays pending until the processor enters.                         *)
LEMMA PendingKept ==
  ASSUME Typed, NEW c \in Cpus, Enter(c) \/ Acts(c)
  PROVE  \A d \in smi.pending : d \in smi'.pending \/ (d = c /\ pc[c] = "out" /\ pc'[c] = "sample")
<1>0. smi \in SmiData
  BY DEF Typed
<1>1. CASE Enter(c)
  <2>1. pc[c] = "out" /\ pc'[c] = "sample"
    BY <1>1, Went DEF Enter, Step
  <2>2. smi'.pending = smi.pending \ {c}
    BY <1>0, <1>1 DEF Enter, SmiData
  <2> QED
    BY <2>1, <2>2
<1>2. CASE Acts(c)
  <2>1. \/ smi' = smi \/ smi' = [smi EXCEPT !.status = FALSE]
        \/ \E targets : smi' = [smi EXCEPT !.pending = @ \cup targets]
    <3>1. CASE SmiRendezvous(c) \/ Serving(c)
      BY <3>1 DEF SmiRendezvous, Sample, CheckIn, Elect, Leave, Serving, InternalSmmStartupThisAp, StartupAllAPs,
         AcquireAllBusy, ScheduleAll, StartAll, Unblock
    <3>2. CASE BSPHandler(c)
      BY <3>2 DEF BSPHandler, BspInside, BspPresent, Arrival, ArrivalAgain, SetAllInSync, Lockdown,
         WaitForAllAPs, BspMtrrs, HandlersDone, Drained, AllPresent, BspExit, ReleaseToExit, BspAbsent,
         GatherEnd, Reopen, SendSmiIpi
    <3>3. CASE APHandler(c)
      BY <3>3 DEF APHandler, SeeBsp, BspTimeout, GiveUp, ApPresent, ApSignal, ApMtrrs, ApWake, ApReset,
         ApCheck, ApExec, ApIdle, SendSmiIpi
    <3> QED
      BY <1>2, <3>1, <3>2, <3>3 DEF Acts
  <2> QED
    BY <1>0, <2>1 DEF SmiData
<1> QED
  BY <1>1, <1>2

(* What the handlers call stays in the handlers.                            *)
LEMMA InHandlers ==
  ASSUME NEW b \in Cpus, Serving(b)
  PROVE  pc[b] \in Running /\ \E next \in Running : Goto(b, next)
<1> USE DEF Step, Running
<1>1. ASSUME NEW c \in Cpus, NEW k \in Procedures, NEW blocking \in BOOLEAN,
             InternalSmmStartupThisAp(b, c, k, blocking)
      PROVE  pc[b] \in Running /\ \E next \in Running : Goto(b, next)
  <2>1. pc[b] = "handlers" /\ Goto(b, IF blocking THEN "blocked" ELSE "handlers")
    BY <1>1 DEF InternalSmmStartupThisAp
  <2> QED
    BY <2>1
<1>2. ASSUME NEW k \in Procedures, NEW blocking \in BOOLEAN, StartupAllAPs(b, k, blocking)
      PROVE  pc[b] \in Running /\ \E next \in Running : Goto(b, next)
  BY <1>2 DEF StartupAllAPs
<1>3. CASE AcquireAllBusy(b) \/ ScheduleAll(b) \/ Unblock(b)
  BY <1>3 DEF AcquireAllBusy, ScheduleAll, Unblock
<1>4. CASE StartAll(b)
  <2>1. pc[b] = "start" /\ Goto(b, IF token[bsp.proc] = None THEN "blocked" ELSE "handlers")
    BY <1>4 DEF StartAll
  <2> QED
    BY <2>1
<1> QED
  BY <1>1, <1>2, <1>3, <1>4 DEF Serving

(* Where the BSP is when all others are in SMM or on their way.             *)
Gathered1 == Running \cup Saving \cup Setting \cup {"arrivalAgain", "lock", "lockdown", "gather"}
Gathered2 == {"arrivalAgain", "lock"}

(* The BSP comes there by SmmWaitForApArrival only.                         *)
LEMMA GatheredPath ==
  ASSUME Typed, NEW b \in Cpus, BSPHandler(b) \/ Serving(b), ~Arrival(b), Gathers(config)
  PROVE  /\ pc'[b] \in Gathered1 => pc[b] \in Gathered1
         /\ pc'[b] \in Gathered2 => pc[b] \in Gathered2
<1> USE DEF Step, Gathered1, Gathered2, Running, Saving, Setting
<1>1. CASE BspInside(b) \/ BspPresent(b) \/ ArrivalAgain(b) \/ SetAllInSync(b) \/ Lockdown(b)
  BY <1>1, Went DEF BspInside, BspPresent, ArrivalAgain, SetAllInSync, Lockdown, GatherFirst, Gathers
<1>2. CASE WaitForAllAPs(b)
  <2>1. pc'[b] = GatherNext(pc[b])
    BY <1>2, Went DEF WaitForAllAPs
  <2> QED
    BY <1>2, <2>1 DEF WaitForAllAPs, GatherNext
<1>3. CASE BspMtrrs(b)
  BY <1>3, Went DEF BspMtrrs
<1>4. CASE HandlersDone(b) \/ Drained(b) \/ AllPresent(b)
  BY <1>4, Went DEF HandlersDone, Drained, AllPresent, GatherFirst, Gathers
<1>5. CASE BspExit(b) \/ ReleaseToExit(b) \/ BspAbsent(b) \/ GatherEnd(b) \/ Reopen(b)
  BY <1>5, Went DEF BspExit, ReleaseToExit, BspAbsent, GatherEnd, Reopen
<1>6. CASE Serving(b)
  BY <1>6, InHandlers, Went
<1> QED
  BY <1>1, <1>2, <1>3, <1>4, <1>5, <1>6 DEF BSPHandler

(* The step that ends the first wait sees to it.                            *)
LEMMA ArrivalExcludes ==
  ASSUME SInv, NEW b \in Cpus, Arrival(b), NEW c \in Cpus, pc[c] \in {"out", "leave"}
  PROVE  c \in smi'.pending
<1>1. pc[b] = "arrival" /\ pc[b] \in Leading
  BY DEF Arrival, Step, Leading, BspPcs
<1>2. /\ Led(b) /\ RInv /\ Typed
  BY <1>1, Leads
<1>3. CASE sync.counter < NumberOfCpus
  <2>1. ~cpu[c].present
    BY <1>2 DEF RInv, Own, PresentPcs, Leading, BspPcs, Joined, ApPcs
  <2>2. smi' = [smi EXCEPT !.pending = @ \cup {d \in Cpus : ~cpu[d].present}]
    <3>1. sync.counter \in Int /\ NumberOfCpus \in Int
      BY <1>2, Parts, Markers
    <3> QED
      BY <1>3, <3>1 DEF Arrival, SendSmiIpi
  <2>3. smi \in SmiData
    BY <1>2 DEF Typed
  <2> QED
    BY <2>1, <2>2, <2>3 DEF SmiData
<1>4. CASE ~(sync.counter < NumberOfCpus)
  <2>1. sync.counter = Cardinality(Members)
    BY <1>1, <1>2 DEF Led, Counts, Closed
  <2>2. Members \in SUBSET Cpus /\ Cardinality(Members) \in Nat /\ NumberOfCpus \in Nat
    BY <1>1, Counted, Markers
  <2>3. Cardinality(Members) >= Cardinality(Cpus)
    BY <1>4, <2>1, <2>2 DEF NumberOfCpus
  <2>4. Members = Cpus
    BY <2>2, <2>3, WholeSet
  <2> QED
    BY <2>4 DEF Members, Leading, BspPcs, Joined, ApPcs
<1> QED
  BY <1>3, <1>4

LEMMA EInvStep ==
  ASSUME SInv, RInv', NEW c \in Cpus, Enter(c) \/ Acts(c)
  PROVE  EInv'
<1>0. Typed /\ RInv
  BY DEF SInv
<1>1. config' = config /\ \A d \in Cpus : d # c => pc'[d] = pc[d]
  BY <1>0, Moved
<1> SUFFICES ASSUME NEW b \in Cpus, pc'[b] \in Leading, Gathers(config), NEW d \in Cpus
             PROVE  /\ pc'[d] = "out" /\ pc'[b] \in Gathered1 => d \in smi'.pending
                    /\ pc'[d] = "leave" /\ pc'[b] \in Gathered2 => d \in smi'.pending
  BY <1>1 DEF EInv, Excluded, Gathered1, Gathered2
<1>2. pc'[b] \notin {"out", "leave"}
  BY DEF Leading, BspPcs
<1>3. Gathered2 \subseteq Gathered1
  BY DEF Gathered1, Gathered2
<1>4. CASE c = b
  <2>1. CASE Arrival(b)
    <3>1. d # b => pc[d] = pc'[d]
      BY <1>1, <1>4
    <3> QED
      BY <1>2, <2>1, <3>1, ArrivalExcludes
  <2>2. CASE ~Arrival(b)
    <3>1. CASE BSPHandler(b) \/ Serving(b)
      <4>1. /\ pc'[b] \in Gathered1 => pc[b] \in Gathered1
            /\ pc'[b] \in Gathered2 => pc[b] \in Gathered2
        BY <1>0, <2>2, <3>1, GatheredPath
      <4>2. Gathered1 \subseteq Leading
        BY DEF Gathered1, Leading, BspPcs, Running, Saving, Setting
      <4>3. pc[b] \in Gathered1 => Excluded(b)
        BY <4>2, Leads
      <4>4. /\ pc[d] = "out" /\ pc[b] \in Gathered1 => d \in smi.pending
            /\ pc[d] = "leave" /\ pc[b] \in Gathered2 => d \in smi.pending
        BY <1>3, <4>3 DEF Excluded, Gathered1, Gathered2
      <4>5. d # b => pc[d] = pc'[d]
        BY <1>1, <1>4
      <4>6. d # b => (d \in smi.pending => d \in smi'.pending)
        BY <1>0, <1>4, PendingKept
      <4> QED
        BY <1>2, <1>3, <4>1, <4>4, <4>5, <4>6
    <3>2. CASE ~(BSPHandler(b) \/ Serving(b))
      <4>1. pc'[b] \in {"bspInside"}
        <5>1. CASE Enter(b) \/ SmiRendezvous(b)
          BY <1>0, <5>1, Went DEF SmiRendezvous, Enter, Sample, CheckIn, Elect, Leave, Step, Leading, BspPcs
        <5>2. CASE APHandler(b)
          <6>1. CASE ApSignal(b)
            <7>1. pc'[b] = SignalNext(pc[b])
              BY <1>0, <6>1, Went DEF ApSignal
            <7> QED
              BY <6>1, <7>1 DEF ApSignal, SignalNext, Leading, BspPcs
          <6>2. CASE ~ApSignal(b)
            BY <1>0, <5>2, <6>2, Went DEF APHandler, SeeBsp, BspTimeout, GiveUp, ApPresent,
               ApMtrrs, ApWake, ApReset, ApCheck, ApExec, ApIdle, Step, Leading, BspPcs
          <6> QED
            BY <6>1, <6>2
        <5> QED
          BY <1>4, <3>2, <5>1, <5>2 DEF Acts
      <4> QED
        BY <1>3, <4>1 DEF Gathered1, Running, Saving, Setting
    <3> QED
      BY <3>1, <3>2
  <2> QED
    BY <2>1, <2>2
<1>5. CASE c # b
  <2>1. pc'[b] = pc[b] /\ pc[b] \in Leading
    BY <1>1, <1>5
  <2>2. Excluded(b) /\ Led(b)
    BY <2>1, Leads
  <2>3. CASE d # c
    <3>1. pc'[d] = pc[d]
      BY <1>1, <2>3
    <3>2. d \in smi.pending => d \in smi'.pending
      BY <1>0, <2>3, PendingKept
    <3> QED
      BY <2>1, <2>2, <3>1, <3>2 DEF Excluded, Gathered1, Gathered2
  <2>4. CASE d = c /\ pc'[c] = "out" /\ pc[b] \in Gathered1
    <3>1. Sample(c) \/ Leave(c)
      <4>1. CASE Enter(c) \/ SmiRendezvous(c)
        BY <1>0, <2>4, <4>1, Went DEF SmiRendezvous, Enter, CheckIn, Elect, Step
      <4>2. CASE BSPHandler(c) \/ Serving(c)
        <5>1. CASE WaitForAllAPs(c)
          <6>1. pc'[c] = GatherNext(pc[c])
            BY <1>0, <5>1, Went DEF WaitForAllAPs
          <6> QED
            BY <2>4, <5>1, <6>1 DEF WaitForAllAPs, GatherNext
        <5>2. CASE Serving(c)
          BY <1>0, <2>4, <5>2, Went DEF Serving, InternalSmmStartupThisAp, StartupAllAPs, AcquireAllBusy,
             ScheduleAll, StartAll, Unblock, Step
        <5>3. CASE ~WaitForAllAPs(c) /\ BSPHandler(c)
          BY <1>0, <2>4, <5>3, Went DEF BSPHandler, BspInside, BspPresent, Arrival, ArrivalAgain,
             SetAllInSync, Lockdown, BspMtrrs, HandlersDone, Drained, AllPresent, BspExit,
             ReleaseToExit, BspAbsent, GatherEnd, Reopen, Step
        <5> QED
          BY <4>2, <5>1, <5>2, <5>3
      <4>3. CASE APHandler(c)
        <5>1. CASE ApSignal(c)
          <6>1. pc'[c] = SignalNext(pc[c])
            BY <1>0, <5>1, Went DEF ApSignal
          <6> QED
            BY <2>4, <5>1, <6>1 DEF ApSignal, SignalNext
        <5>2. CASE ~ApSignal(c)
          BY <1>0, <2>4, <4>3, <5>2, Went DEF APHandler, SeeBsp, BspTimeout, GiveUp, ApPresent,
             ApMtrrs, ApWake, ApReset, ApCheck, ApExec, ApIdle, Step
        <5> QED
          BY <5>1, <5>2
      <4> QED
        BY <4>1, <4>2, <4>3 DEF Acts
    <3>2. CASE Sample(c)
      <4>1. sync.inside
        BY <2>2, <2>4 DEF Led, Way, Gathered1, InsidePcs, Leading, BspPcs, Running, Saving, Setting,
           Restoring, Ending
      <4> QED
        BY <1>0, <2>4, <3>2, <4>1, Went DEF Sample, Step
    <3>3. CASE Leave(c)
      <4>1. pc[c] = "leave" /\ ~sync.allInSync /\ smi' = smi
        BY <3>3 DEF Leave, Step
      <4>2. ~Closed(config, pc[b]) /\ pc[b] # "lockdown"
        BY <2>2, <4>1 DEF Led, Way
      <4>3. pc[b] \in Gathered2
        BY <2>1, <2>4, <4>2 DEF Closed, Gathered1, Gathered2, Calling, Running, Saving, Setting,
           Leading, BspPcs
      <4> QED
        BY <2>2, <2>4, <4>1, <4>3 DEF Excluded, Gathered2
    <3> QED
      BY <3>1, <3>2, <3>3
  <2>5. CASE d = c /\ pc'[c] = "leave" /\ pc[b] \in Gathered2
    <3>1. Firm(config, pc[b]) /\ ~Closed(config, pc[b]) /\ pc[b] \notin Ending
      BY <2>5 DEF Firm, Closed, Gathered2, Ending, Calling
    <3>2. sync.counter # Locked
      <4>1. Cardinality(Members) \in Nat
        BY Counted
      <4> QED
        BY <2>2, <3>1, <4>1 DEF Led, Counts, Locked
    <3>3. pc[c] \in Joined => Follows(config, pc[b], pc[c], cpu[c].run)
      BY <1>5, <2>1, Leads
    <3>4. pc[c] # "unsync" /\ pc[c] # "giveUp" /\ pc[c] # "apDone"
      <4>1. pc[c] # "unsync"
        BY <1>5, <2>1, <3>1, Leads
      <4> QED
        BY <3>1, <3>3, <4>1 DEF Follows, Joined, ApPcs
    <3>5. pc[c] \notin Leading
      BY <1>5, <2>1, Leads
    <3>6. CASE Enter(c) \/ SmiRendezvous(c)
      BY <1>0, <2>5, <3>2, <3>6, Went DEF SmiRendezvous, Enter, Sample, CheckIn, Elect, Leave, Step
    <3>7. CASE BSPHandler(c) \/ Serving(c)
      BY <3>4, <3>5, <3>7 DEF BSPHandler, BspInside, BspPresent, Arrival, ArrivalAgain,
             SetAllInSync, Lockdown, WaitForAllAPs, BspMtrrs, HandlersDone, Drained, AllPresent, BspExit,
             ReleaseToExit, BspAbsent, GatherEnd, Reopen, Step, Serving, InternalSmmStartupThisAp, StartupAllAPs,
             AcquireAllBusy, ScheduleAll, StartAll, Unblock, Leading, BspPcs
    <3>8. CASE APHandler(c)
      <4>1. CASE ApSignal(c)
        <5>1. pc'[c] = SignalNext(pc[c])
          BY <1>0, <4>1, Went DEF ApSignal
        <5> QED
          BY <2>5, <3>4, <4>1, <5>1 DEF ApSignal, SignalNext
      <4>2. CASE ~ApSignal(c)
        BY <1>0, <2>5, <3>4, <3>8, <4>2, Went DEF APHandler, SeeBsp, BspTimeout, GiveUp, ApPresent,
           ApMtrrs, ApWake, ApReset, ApCheck, ApExec, ApIdle, Step
      <4> QED
        BY <4>1, <4>2
    <3> QED
      BY <3>6, <3>7, <3>8 DEF Acts
  <2> QED
    BY <2>1, <2>3, <2>4, <2>5
<1> QED
  BY <1>4, <1>5

-----------------------------------------------------------------------------
(* The procedures                                                           *)

(* Where an AP can be while the BSP runs the handlers.                      *)
LEMMA WhileRunning ==
  ASSUME NEW cf, NEW p \in Running, NEW q, NEW run, Follows(cf, p, q, run)
  PROVE  \/ q \in Waiting \cup {"apPresent"} /\ run = 0 /\ ~Gathers(cf)
         \/ q = "apLoop" /\ run \in {0, 1}
         \/ q \in {"apCheck", "apExec", "apIdle"} /\ run = 0
<1>1. /\ p \notin Saving \cup Setting \cup Restoring \cup Ending \cup Calling
      /\ p \notin {"arrival", "arrivalAgain", "gather", "exit", "release", "gatherExit"}
  BY DEF Running, Saving, Setting, Restoring, Ending, Calling
<1>2. (Early(cf, p) => ~Gathers(cf)) /\ ~Arriving(cf, p) /\ ~Leaving(cf, p)
  BY <1>1 DEF Early, Arriving, Leaving
<1> QED
  BY <1>1, <1>2 DEF Follows, Waiting

(* An AP that comes to the handlers with the BSP has nothing to call.       *)
LEMMA NothingToCall ==
  ASSUME NEW cf, NEW p \in {"bspPresent", "gather", "mtrrDone"}, NEW q, NEW run,
         Follows(cf, p, q, run), Follows(cf, "handlers", q, run)
  PROVE  run = 0 /\ q \notin {"apCheck", "apExec", "apIdle"}
<1>1. /\ p \notin Running \cup Saving \cup Ending
      /\ p \notin {"gatherExit"}
      /\ "handlers" \in Running
  BY DEF Running, Saving, Ending
<1>2. \/ q \in Waiting \cup {"apPresent"} /\ run = 0
      \/ q = "apLoop" /\ run \in {0, 1}
      \/ q \in {"apCheck", "apExec", "apIdle"} /\ run = 0
  BY <1>1, WhileRunning
<1> QED
  BY <1>1, <1>2 DEF Follows, Waiting

(* The state between the runs of the handlers: no lock is taken, no procedure
   is left.                                                                 *)
LEMMA AtRest ==
  ASSUME SInv, \A b \in Cpus : pc[b] \notin Running
  PROVE  Resting
<1>1. CASE NoBsp
  BY <1>1 DEF SInv, WInv
<1>2. ASSUME NEW b \in Cpus, pc[b] \in Leading
      PROVE  Resting
  <2>1. Works(b) /\ pc[b] \notin Running /\ pc[b] \notin Broadcast
    BY <1>2, Leads DEF Running, Broadcast
  <2>2. pc[b] \notin Joined
    BY <1>2 DEF Leading, Joined, BspPcs, ApPcs
  <2>3. \A c \in Cpus : pc[c] \in Joined => ~cpu[c].busy
    BY <2>1, <2>2 DEF Works, ApWorks, Engaged
  <2>4. ASSUME NEW k \in started
        PROVE  assigned[k] = {} /\ token[k] \in {0, None}
    <3>1. ProcedureKept(b, k)
      BY <2>1, <2>4 DEF Works
    <3>2. assigned[k] \in SUBSET Cpus
      BY <1>2, <2>4, Leads DEF started, Typed
    <3>3. assigned[k] = {}
      BY <2>1, <3>1, <3>2 DEF ProcedureKept
    <3>4. Cardinality(assigned[k]) = 0
      BY <3>3, FS_EmptySet
    <3> QED
      BY <2>1, <3>1, <3>3, <3>4 DEF ProcedureKept, Running
  <2> QED
    BY <2>3, <2>4 DEF Resting
<1> QED
  BY <1>1, <1>2 DEF NoBsp

(* A BSP that comes to the handlers, or is not in them, finds all at rest.  *)
LEMMA RestWorks ==
  ASSUME Resting', NEW b \in Cpus, pc'[b] \notin Broadcast,
         pc'[b] \in Running =>
           \A c \in Cpus : c # b /\ pc'[c] \in Joined =>
             cpu'[c].run = 0 /\ pc'[c] \notin {"apCheck", "apExec", "apIdle"}
  PROVE  Works(b)'
<1>1. pc'[b] # "start" /\ pc'[b] \notin {"acquire", "schedule"}
  BY DEF Broadcast
<1>2. ASSUME NEW c \in Cpus, c # b, pc'[c] \in Joined
      PROVE  ApWorks(b, c)'
  <2>1. ~cpu'[c].busy
    BY <1>2 DEF Resting
  <2>2. ~Engaged(b, c)'
    BY <1>2 DEF Engaged, Run
  <2>3. pc'[b] \in Running => ~Awaited(b, c)'
    BY <1>1, <1>2 DEF Awaited, Run
  <2> QED
    BY <1>1, <2>1, <2>2, <2>3 DEF ApWorks
<1>3. ASSUME NEW k \in started'
      PROVE  ProcedureKept(b, k)'
  <2>1. assigned'[k] = {} /\ token'[k] \in {0, None}
    BY <1>3 DEF Resting
  <2>2. Cardinality({}) = 0
    BY FS_EmptySet
  <2> QED
    BY <2>1, <2>2 DEF ProcedureKept
<1>4. BroadcastKept(b)'
  BY <1>1 DEF BroadcastKept
<1> QED
  BY <1>2, <1>3, <1>4 DEF Works

(* The BSP is alone in BSPHandler.                                          *)
LEMMA WorksRestored ==
  ASSUME NEW b \in Cpus, pc'[b] \in Leading, Works(b)', RInv'
  PROVE  WInv'
<1>1. \A c \in Cpus : c # b => pc'[c] \notin Leading
  BY DEF RInv, Led, Others
<1> QED
  BY <1>1 DEF WInv, NoBsp

(* An AP that is to call a procedure holds its Busy lock.                   *)
LEMMA AwaitedBusy ==
  ASSUME SInv, NEW b \in Cpus, pc[b] \in Running, NEW c \in Cpus, c # b, pc[c] \in Joined,
         Awaited(b, c)
  PROVE  cpu[c].busy
<1>1. pc[b] \in Leading
  BY DEF Running, Leading, BspPcs
<1>2. ApWorks(b, c)
  BY <1>1, Leads
<1>3. Engaged(b, c)
  BY <1>2 DEF Awaited, Engaged, ApWorks, Run, Broadcast
<1> QED
  BY <1>2, <1>3 DEF ApWorks

(* Only the handlers give out procedures, and only ApExec calls them: any other
   step takes no Busy lock, and a processor checks in without its own.      *)
LEMMA NoneGiven ==
  ASSUME Typed, NEW c \in Cpus, Enter(c) \/ Acts(c), ~Serving(c), ~ApExec(c)
  PROVE  /\ token' = token /\ assigned' = assigned
         /\ \A d \in Cpus : ~cpu[d].busy => ~cpu'[d].busy
         /\ pc[c] \notin Joined /\ pc'[c] \in Joined => ~cpu'[c].busy
<1>1. token' = token /\ assigned' = assigned
  <2>1. CASE Enter(c) \/ SmiRendezvous(c)
    BY <2>1 DEF SmiRendezvous, Enter, Sample, CheckIn, Elect, Leave
  <2>2. CASE BSPHandler(c)
    BY <2>2 DEF BSPHandler, BspInside, BspPresent, Arrival, ArrivalAgain, SetAllInSync, Lockdown,
       WaitForAllAPs, BspMtrrs, HandlersDone, Drained, AllPresent, BspExit, ReleaseToExit, BspAbsent,
       GatherEnd, Reopen
  <2>3. CASE APHandler(c)
    BY <2>3 DEF APHandler, SeeBsp, BspTimeout, GiveUp, ApPresent, ApSignal, ApMtrrs, ApWake, ApReset,
       ApCheck, ApIdle
  <2> QED
    BY <2>1, <2>2, <2>3 DEF Acts
<1>2. \A d \in Cpus : ~cpu[d].busy => ~cpu'[d].busy
  <2>1. CASE \/ Enter(c) \/ Sample(c) \/ Elect(c) \/ Leave(c)
             \/ CheckIn(c) /\ cpu' = cpu
    BY <2>1 DEF Enter, Sample, Elect, Leave
  <2>2. CASE cpu' = [cpu EXCEPT ![c].busy = FALSE]
    BY <2>2, BusyStored DEF SameBut
  <2>3. CASE \E n \in BOOLEAN : cpu' = [cpu EXCEPT ![c].present = n]
    BY <2>3, PresentStored DEF SameBut
  <2>4. CASE WaitForAllAPs(c)
    <3> DEFINE data == IF ReleasesAfter(pc[c]) THEN ReleasedAPs(c) ELSE cpu
    <3>1. /\ data \in [Cpus -> CpuData]
          /\ \A d \in Cpus : data[d].busy = cpu[d].busy
      BY ReleasedTyped, APsReleased, Parts
    <3>2. cpu' = [data EXCEPT ![c].run = @ - bsp.apCount]
      BY <2>4 DEF WaitForAllAPs, Gather
    <3> HIDE DEF data
    <3>3. \A d \in Cpus : cpu'[d].busy = data[d].busy
      BY <3>1, <3>2 DEF CpuData
    <3> QED
      BY <3>1, <3>3
  <2>5. CASE ReleaseToExit(c)
    <3>1. cpu' = ReleasedAPs(c)
      BY <2>5 DEF ReleaseToExit
    <3> QED
      BY <3>1, APsReleased
  <2>6. CASE GatherEnd(c)
    <3>1. cpu' = [cpu EXCEPT ![c].run = cpu[c].run - bsp.apCount]
      BY <2>6 DEF GatherEnd, Gather
    <3> QED
      BY <3>1, RunStored DEF SameBut
  <2>7. CASE ApSignal(c)
    <3>1. cpu' = [cpu EXCEPT ![sync.bsp].run = @ + 1]
      BY <2>7 DEF ApSignal, Released
    <3>2. CASE sync.bsp \in Cpus
      BY <3>1, <3>2, RunStored DEF SameBut
    <3>3. CASE sync.bsp \notin Cpus
      <4>1. \A d \in Cpus : cpu'[d] = cpu[d]
        BY <3>1, <3>3, Parts
      <4> QED
        BY <4>1
    <3> QED
      BY <3>2, <3>3
  <2>8. CASE ApMtrrs(c) \/ ApWake(c)
    <3>1. cpu' = [cpu EXCEPT ![c].run = cpu[c].run - 1]
      BY <2>8 DEF ApMtrrs, ApWake, Taken
    <3> QED
      BY <3>1, RunStored DEF SameBut
  <2>9. CASE ApReset(c)
    <3> DEFINE data == [cpu EXCEPT ![c].run = cpu[c].run - 1]
    <3>1. cpu' = [data EXCEPT ![c].present = FALSE]
      BY <2>9 DEF ApReset, Taken
    <3>2. data[c] = [cpu[c] EXCEPT !.run = cpu[c].run - 1] /\ \A d \in Cpus : d # c => data[d] = cpu[d]
      BY Parts
    <3>3. data \in [Cpus -> [run : Int, busy : BOOLEAN, present : BOOLEAN,
                             proc : Procedures \cup {None}]]
      <4>1. data[c] \in [run : Int, busy : BOOLEAN, present : BOOLEAN, proc : Procedures \cup {None}]
        BY <3>2, Parts DEF CpuData
      <4> QED
        BY <3>2, <4>1, Parts DEF CpuData
    <3>4. data[c].busy = cpu[c].busy
      BY <3>2, Parts DEF CpuData
    <3> HIDE DEF data
    <3>5. \A d \in Cpus : cpu'[d].busy = data[d].busy
      BY <3>1, <3>3
    <3> QED
      BY <3>2, <3>4, <3>5
  <2>10. CASE cpu' = cpu
    BY <2>10
  <2>11. CASE SmiRendezvous(c) \/ Enter(c)
    BY <2>1, <2>2, <2>11 DEF SmiRendezvous, CheckIn
  <2>12. CASE BSPHandler(c)
    BY <2>3, <2>4, <2>5, <2>6, <2>10, <2>12 DEF BSPHandler, BspInside, BspPresent, Arrival,
       ArrivalAgain, SetAllInSync, Lockdown, BspMtrrs, HandlersDone, Drained, AllPresent, BspExit,
       BspAbsent, Reopen
  <2>13. CASE APHandler(c)
    BY <2>2, <2>3, <2>7, <2>8, <2>9, <2>10, <2>13 DEF APHandler, SeeBsp, BspTimeout, GiveUp, ApPresent,
       ApCheck, ApIdle
  <2> QED
    BY <2>11, <2>12, <2>13 DEF Acts
<1>3. ASSUME pc[c] \notin Joined, pc'[c] \in Joined
      PROVE  ~cpu'[c].busy
  <2>1. CASE CheckIn(c)
    <3>1. CASE cpu' = [cpu EXCEPT ![c].busy = FALSE]
      BY <3>1, BusyStored
    <3>2. CASE Step(c, "checkin", "leave")
      BY <1>3, <3>2, Went DEF Step, Joined, ApPcs
    <3> QED
      BY <2>1, <3>1, <3>2 DEF CheckIn
  <2>2. CASE Enter(c) \/ Sample(c) \/ Leave(c) \/ Elect(c)
    BY <1>3, <2>2, Went DEF Enter, Sample, Leave, Elect, Step, Joined, ApPcs
  <2>3. CASE WaitForAllAPs(c)
    <3>1. pc'[c] = GatherNext(pc[c])
      BY <2>3, Went DEF WaitForAllAPs
    <3> QED
      BY <1>3, <2>3, <3>1 DEF WaitForAllAPs, GatherNext, Joined, ApPcs
  <2>4. CASE BSPHandler(c) /\ ~WaitForAllAPs(c)
    BY <1>3, <2>4, Went DEF BSPHandler, BspInside, BspPresent, Arrival, ArrivalAgain, SetAllInSync,
       Lockdown, BspMtrrs, HandlersDone, Drained, AllPresent, BspExit, ReleaseToExit, BspAbsent,
       GatherEnd, Reopen, Step, Joined, ApPcs
  <2>5. CASE APHandler(c)
    BY <1>3, <2>5 DEF APHandler, SeeBsp, BspTimeout, GiveUp, ApPresent, ApSignal, ApMtrrs, ApWake,
       ApReset, ApCheck, ApIdle, Step, Joined, ApPcs
  <2> QED
    BY <2>1, <2>2, <2>3, <2>4, <2>5 DEF Acts, SmiRendezvous
<1> QED
  BY <1>1, <1>2, <1>3

(* The BSP comes to the handlers from where it waited for the APs, or before it
   does.                                                                    *)
LEMMA ComesToHandlers ==
  ASSUME Typed, NEW b \in Cpus, Enter(b) \/ Acts(b), pc[b] \notin Running, pc'[b] \in Running
  PROVE  /\ pc[b] \in {"bspPresent", "gather", "mtrrDone"} /\ pc'[b] = "handlers"
         /\ \A c \in Cpus : c # b => cpu'[c] = cpu[c]
<1>1. CASE Enter(b) \/ SmiRendezvous(b)
  BY <1>1, Went DEF SmiRendezvous, Enter, Sample, CheckIn, Elect, Leave, Step, Running
<1>2. CASE WaitForAllAPs(b)
  <2>1. pc'[b] = GatherNext(pc[b])
    BY <1>2, Went DEF WaitForAllAPs
  <2>2. pc[b] \in {"gather", "mtrrDone"} /\ GatherNext(pc[b]) = "handlers"
    BY <1>2, <2>1 DEF WaitForAllAPs, GatherNext, Running
  <2>3. cpu' = [cpu EXCEPT ![b].run = cpu[b].run - bsp.apCount]
    BY <1>2, <2>2 DEF WaitForAllAPs, ReleasesAfter, Gather
  <2> QED
    BY <2>1, <2>2, <2>3, RunStored DEF SameBut
<1>3. CASE BspPresent(b)
  <2>1. cpu' = [cpu EXCEPT ![b].present = TRUE] /\ pc[b] = "bspPresent"
    BY <1>3 DEF BspPresent, Step
  <2>2. pc'[b] \in {"arrival", "handlers"}
    BY <1>3, Went DEF BspPresent, Step
  <2> QED
    BY <2>1, <2>2, PresentStored DEF SameBut, Running
<1>4. CASE BSPHandler(b) /\ ~WaitForAllAPs(b) /\ ~BspPresent(b)
  BY <1>4, Went DEF BSPHandler, BspInside, Arrival, ArrivalAgain, SetAllInSync,
     Lockdown, BspMtrrs, HandlersDone, Drained, AllPresent, BspExit, ReleaseToExit, BspAbsent,
     GatherEnd, Reopen, Step, Running
<1>5. CASE ApSignal(b)
  <2>1. pc'[b] = SignalNext(pc[b])
    BY <1>5, Went DEF ApSignal
  <2> QED
    BY <1>5, <2>1 DEF ApSignal, SignalNext, Running
<1>6. CASE APHandler(b) /\ ~ApSignal(b)
  BY <1>6, Went DEF APHandler, SeeBsp, BspTimeout, GiveUp, ApPresent, ApMtrrs, ApWake,
     ApReset, ApCheck, ApExec, ApIdle, Step, Running
<1>7. CASE Serving(b)
  BY <1>7, InHandlers
<1> QED
  BY <1>1, <1>2, <1>3, <1>4, <1>5, <1>6, <1>7 DEF Acts

(* While no procedure is left, the other steps leave none.                  *)
LEMMA RestSteps ==
  ASSUME SInv, RInv', Resting, NEW c \in Cpus, Enter(c) \/ Acts(c), ~Serving(c), ~ApExec(c),
         \A b \in Cpus : pc'[b] \in Running => pc[b] \notin Running
  PROVE  WInv'
<1>1. Typed /\ RInv
  BY DEF SInv
<1>2. config' = config /\ \A d \in Cpus : d # c => pc'[d] = pc[d]
  BY <1>1, Moved
<1>3. Resting'
  <2>1. token' = token /\ assigned' = assigned
    BY <1>1, NoneGiven
  <2>2. ASSUME NEW d \in Cpus, pc'[d] \in Joined
        PROVE  ~cpu'[d].busy
    <3>1. CASE pc[d] \in Joined
      <4>1. ~cpu[d].busy
        BY <3>1 DEF Resting
      <4> QED
        BY <1>1, <4>1, NoneGiven
    <3>2. CASE pc[d] \notin Joined
      <4>1. d = c
        BY <1>2, <2>2, <3>2
      <4> QED
        BY <1>1, <2>2, <3>2, <4>1, NoneGiven
    <3> QED
      BY <3>1, <3>2
  <2> QED
    BY <2>1, <2>2 DEF Resting, started
<1>4. ASSUME NEW b \in Cpus, pc'[b] \in Leading
      PROVE  Works(b)'
  <2>1. CASE pc'[b] \notin Running
    <3>1. pc'[b] \notin Broadcast
      BY <2>1 DEF Running, Broadcast
    <3> QED
      BY <1>3, <2>1, <3>1, RestWorks
  <2>2. CASE pc'[b] \in Running
    <3>1. pc[b] \notin Running
      BY <2>2
    <3>2. c = b
      BY <1>2, <2>2, <3>1
    <3>3. /\ pc[b] \in {"bspPresent", "gather", "mtrrDone"} /\ pc'[b] = "handlers"
          /\ \A d \in Cpus : d # b => cpu'[d] = cpu[d]
      BY <1>1, <2>2, <3>1, <3>2, ComesToHandlers
    <3>4. pc[b] \in Leading
      BY <3>3 DEF Leading, BspPcs
    <3>5. ASSUME NEW d \in Cpus, d # b, pc'[d] \in Joined
          PROVE  cpu'[d].run = 0 /\ pc'[d] \notin {"apCheck", "apExec", "apIdle"}
      <4>1. pc'[d] = pc[d] /\ cpu'[d] = cpu[d]
        BY <1>2, <3>2, <3>3, <3>5
      <4>2. Follows(config, pc[b], pc[d], cpu[d].run)
        BY <3>4, <3>5, <4>1, Leads
      <4>3. Follows(config, "handlers", pc[d], cpu[d].run)
        BY <1>2, <1>4, <3>3, <3>5, <4>1 DEF RInv, Led, Others, Run
      <4> QED
        BY <3>3, <4>1, <4>2, <4>3, NothingToCall
    <3>6. pc'[b] \notin Broadcast
      BY <3>3 DEF Broadcast
    <3> QED
      BY <1>3, <3>5, <3>6, RestWorks
  <2> QED
    BY <2>1, <2>2
<1> QED
  BY <1>3, <1>4 DEF WInv

(* WaitForAllAPsNotBusy: when it returns no procedure is left.              *)
LEMMA DrainedRests ==
  ASSUME SInv, NEW b \in Cpus, pc[b] = "drain", NotBusy
  PROVE  Resting
<1>1. pc[b] \in Leading /\ pc[b] \in Running /\ pc[b] \notin Joined /\ pc[b] \notin Broadcast
  BY DEF Leading, BspPcs, Running, Joined, ApPcs, Broadcast
<1>2. Works(b) /\ Typed
  BY <1>1, Leads
<1>3. ASSUME NEW c \in Cpus, pc[c] \in Joined
      PROVE  ~cpu[c].busy
  <2>1. ApWorks(b, c)
    BY <1>1, <1>2, <1>3 DEF Works
  <2> QED
    BY <2>1 DEF ApWorks, NotBusy
<1>4. ASSUME NEW k \in started
      PROVE  assigned[k] = {} /\ token[k] \in {0, None}
  <2>1. ProcedureKept(b, k)
    BY <1>2, <1>4 DEF Works
  <2>2. assigned[k] \in SUBSET Cpus
    BY <1>2, <1>4 DEF started, Typed
  <2>3. assigned[k] = {}
    <3>1. ASSUME NEW c \in assigned[k]
          PROVE  FALSE
      <4>1. c \in Cpus /\ c # b /\ pc[c] \in Joined /\ Awaited(b, c)
        BY <2>1, <2>2, <3>1 DEF ProcedureKept
      <4> QED
        BY <1>1, <1>3, <4>1, AwaitedBusy
    <3> QED
      BY <3>1
  <2>4. Cardinality(assigned[k]) = 0
    BY <2>3, FS_EmptySet
  <2> QED
    BY <2>1, <2>3, <2>4 DEF ProcedureKept
<1> QED
  BY <1>3, <1>4 DEF Resting

(* A step of another processor while the BSP runs the handlers: what it has to
   call stays with it.                                                      *)
LEMMA WorksAp ==
  ASSUME SInv, RInv', NEW b \in Cpus, NEW c \in Cpus, c # b, pc[b] \in Running,
         \A d \in Cpus : d # c => pc'[d] = pc[d],
         SameBut(c), bsp' = bsp, token' = token, assigned' = assigned,
         \/ ~Awaited(b, c) \/ pc[c] \notin Joined
         \/ pc'[c] \in Joined /\ Awaited(b, c)' /\ cpu'[c].proc = cpu[c].proc,
         pc'[c] \in Joined => ApWorks(b, c)'
  PROVE  WInv'
<1>1. pc[b] \in Leading /\ pc'[b] = pc[b]
  BY DEF Leading, BspPcs, Running
<1>2. Works(b) /\ Typed
  BY <1>1, Leads
<1>3. started' = started
  BY DEF started
<1>4. ASSUME NEW d \in Cpus, d # b, d # c, pc'[d] \in Joined
      PROVE  ApWorks(b, d)'
  <2>1. pc'[d] = pc[d] /\ cpu'[d] = cpu[d]
    BY <1>4 DEF SameBut
  <2>2. ApWorks(b, d)
    BY <1>2, <1>4, <2>1 DEF Works
  <2> QED
    BY <1>1, <1>3, <2>1, <2>2 DEF ApWorks, Engaged, Awaited, Run
<1>5. ASSUME NEW k \in started
      PROVE  ProcedureKept(b, k)'
  <2>1. ProcedureKept(b, k) /\ assigned[k] \in SUBSET Cpus
    BY <1>2, <1>5 DEF Works, started, Typed
  <2>2. ASSUME NEW d \in assigned[k]
        PROVE  d # b /\ pc'[d] \in Joined /\ pc'[b] \in Running /\ Awaited(b, d)' /\ cpu'[d].proc = k
    <3>1. d \in Cpus /\ d # b /\ pc[d] \in Joined /\ Awaited(b, d) /\ cpu[d].proc = k
      BY <2>1, <2>2 DEF ProcedureKept
    <3>2. CASE d = c
      BY <1>1, <3>1, <3>2
    <3>3. CASE d # c
      <4>1. pc'[d] = pc[d] /\ cpu'[d] = cpu[d]
        BY <3>1, <3>3 DEF SameBut
      <4> QED
        BY <1>1, <3>1, <4>1 DEF Awaited, Run
    <3> QED
      BY <3>2, <3>3
  <2> QED
    BY <1>1, <2>1, <2>2 DEF ProcedureKept
<1>6. BroadcastKept(b)'
  BY <1>1, <1>2, <1>3 DEF Works, BroadcastKept
<1>7. Works(b)'
  BY <1>3, <1>4, <1>5, <1>6 DEF Works
<1> QED
  BY <1>1, <1>7, WorksRestored

(* A processor that has nothing to call, and goes where it has nothing.     *)
LEMMA UnengagedSteps ==
  ASSUME SInv, RInv', NEW b \in Cpus, NEW c \in Cpus, c # b, pc[b] \in Running,
         config' = config,
         \A d \in Cpus : d # c => pc'[d] = pc[d],
         SameBut(c), bsp' = bsp, token' = token, assigned' = assigned,
         pc[c] \notin {"apLoop", "apCheck", "apExec"},
         cpu'[c].run = cpu[c].run,
         pc'[c] \notin {"apCheck", "apExec", "apIdle"},
         pc'[c] \in Joined => pc[c] \in Joined \/ pc'[c] \in Waiting,
         pc'[c] \in Joined => ~cpu'[c].busy \/ (cpu'[c].busy = cpu[c].busy /\ pc[c] \in Joined /\ pc[c] # "apIdle")
  PROVE  WInv'
<1>1. pc[b] \in Leading /\ pc'[b] = pc[b]
  BY DEF Leading, BspPcs, Running
<1>2. Led(b) /\ Works(b) /\ Typed /\ RInv
  BY <1>1, Leads
<1>3. ~Awaited(b, c)
  BY DEF Awaited
<1>4. ASSUME pc'[c] \in Joined
      PROVE  ApWorks(b, c)'
  <2>1. Follows(config, pc[b], pc'[c], cpu'[c].run)
    BY <1>1, <1>4 DEF RInv, Led, Others, Run
  <2>2. CASE pc[c] \in Joined
    <3>1. ApWorks(b, c) /\ Follows(config, pc[b], pc[c], cpu[c].run)
      BY <1>1, <2>2, Leads
    <3>2. pc[b] \notin Broadcast
      BY <3>1 DEF ApWorks
    <3>3. cpu[c].run = 0
      BY <3>1, WhileRunning
    <3>4. ~cpu'[c].busy
      BY <1>4, <3>1, <3>2, <3>3 DEF ApWorks, Engaged, Run
    <3> QED
      BY <1>1, <3>2, <3>3, <3>4 DEF ApWorks, Engaged, Awaited, Run, Broadcast
  <2>3. CASE pc[c] \notin Joined
    <3>1. pc'[c] \in Waiting /\ ~cpu'[c].busy
      BY <1>4, <2>3
    <3>2. cpu'[c].run = 0 /\ ~Gathers(config)
      BY <2>1, <3>1, WhileRunning DEF Waiting
    <3>3. pc[b] \notin Broadcast
      BY <1>2, <3>2 DEF Led, Way, OnItsWay
    <3>4. pc'[c] # "apLoop"
      BY <3>1 DEF Waiting
    <3> QED
      BY <1>1, <3>1, <3>2, <3>3, <3>4 DEF ApWorks, Engaged, Awaited, Run, Broadcast
  <2> QED
    BY <2>2, <2>3
<1> QED
  BY <1>3, <1>4, WorksAp

(* APHandler: the AP is woken and sees that the BSP is in SMM.              *)
LEMMA WokenSteps ==
  ASSUME SInv, RInv', NEW b \in Cpus, NEW c \in Cpus, c # b, pc[b] \in Running,
         ApWake(c) \/ ApCheck(c)
  PROVE  WInv'
<1>1. pc[b] \in Leading /\ pc[b] # "gatherExit"
  BY DEF Leading, BspPcs, Running
<1>2. Led(b) /\ Typed /\ Works(b)
  BY <1>1, Leads
<1>3. pc[c] \in Joined /\ pc[c] \in {"apLoop", "apCheck"}
  BY DEF ApWake, ApCheck, Step, Joined, ApPcs
<1>4. ApWorks(b, c) /\ Follows(config, pc[b], pc[c], cpu[c].run)
  BY <1>1, <1>3, Leads
<1>5. /\ bsp' = bsp /\ token' = token /\ assigned' = assigned
      /\ \A d \in Cpus : d # c => pc'[d] = pc[d]
  BY <1>2, Moved DEF ApWake, ApCheck, Acts, APHandler
<1>6. pc'[b] = pc[b] /\ started' = started
  BY <1>5 DEF started
<1>7. CASE ApWake(c)
  <2>1. pc[c] = "apLoop" /\ pc'[c] = "apCheck" /\ cpu[c].run > 0
    BY <1>2, <1>7, Went DEF ApWake, Step, Run
  <2>2. cpu[c].run = 1
    <3>1. cpu[c].run \in {0, 1}
      <4>1. \/ cpu[c].run = 0
            \/ cpu[c].run \in {0, 1}
        BY <1>4, WhileRunning
      <4> QED
        BY <4>1
    <3> QED
      BY <2>1, <3>1
  <2>3. cpu' = [cpu EXCEPT ![c].run = 0]
    <3>1. cpu' = [cpu EXCEPT ![c].run = cpu[c].run - 1]
      BY <1>7 DEF ApWake, Taken
    <3>2. cpu[c].run - 1 = 0
      BY <2>2
    <3> QED
      BY <3>1, <3>2
  <2>4. SameBut(c) /\ cpu'[c].run = 0 /\ cpu'[c].busy = cpu[c].busy /\ cpu'[c].proc = cpu[c].proc
    BY <1>2, <2>2, <2>3, RunStored
  <2>5. pc[b] \notin Broadcast /\ Awaited(b, c) /\ Engaged(b, c)
    BY <1>4, <2>1, <2>2 DEF ApWorks, Awaited, Engaged, Run
  <2>6. Awaited(b, c)' /\ Engaged(b, c)'
    BY <1>6, <2>1, <2>5 DEF Awaited, Engaged
  <2>7. ApWorks(b, c)'
    BY <1>4, <1>5, <1>6, <2>4, <2>5, <2>6 DEF ApWorks, Broadcast
  <2>8. pc'[c] \in Joined
    BY <2>1 DEF Joined, ApPcs
  <2> QED
    BY <1>5, <2>4, <2>6, <2>7, <2>8, WorksAp
<1>8. CASE ApCheck(c)
  <2>1. sync.inside
    BY <1>2 DEF Led, Way, InsidePcs, Leading, BspPcs, Running, Restoring, Ending
  <2>2. pc[c] = "apCheck" /\ pc'[c] = "apExec" /\ cpu' = cpu
    BY <1>2, <1>8, <2>1, Went DEF ApCheck, Step
  <2>3. pc[b] \notin Broadcast /\ Awaited(b, c) /\ Engaged(b, c)
    BY <1>4, <2>2 DEF ApWorks, Awaited, Engaged
  <2>4. Awaited(b, c)' /\ Engaged(b, c)'
    BY <1>6, <2>2, <2>3 DEF Awaited, Engaged
  <2>5. ApWorks(b, c)'
    BY <1>4, <1>5, <1>6, <2>2, <2>3, <2>4 DEF ApWorks, Broadcast
  <2>6. pc'[c] \in Joined /\ SameBut(c)
    BY <2>2 DEF Joined, ApPcs, SameBut
  <2> QED
    BY <1>5, <2>2, <2>4, <2>5, <2>6, WorksAp
<1> QED
  BY <1>7, <1>8

(* The AP calls its procedure and releases the token.                       *)
LEMMA ExecSteps ==
  ASSUME SInv, RInv', NEW b \in Cpus, NEW c \in Cpus, c # b, pc[b] \in Running, ApExec(c)
  PROVE  WInv'
<1> DEFINE k == cpu[c].proc
<1>1. pc[b] \in Leading /\ pc[c] = "apExec" /\ pc[c] \in Joined
  BY DEF Leading, BspPcs, Running, ApExec, Step, Joined, ApPcs
<1>2. Typed /\ Works(b) /\ ApWorks(b, c)
  BY <1>1, Leads
<1>3. /\ cpu' = cpu /\ bsp' = bsp
      /\ assigned' = [assigned EXCEPT ![k] = @ \ {c}]
      /\ token' = [token EXCEPT ![k] = IF @ = None THEN None ELSE @ - 1]
  BY DEF ApExec
<1>4. pc'[c] = "apIdle" /\ pc'[b] = pc[b] /\ \A d \in Cpus : d # c => pc'[d] = pc[d]
  BY <1>2, Went DEF ApExec, Step
<1>5. k \in started /\ c \in assigned[k] /\ pc[b] \notin Broadcast /\ Awaited(b, c) /\ cpu[c].busy
  BY <1>1, <1>2 DEF ApWorks, Awaited, Engaged
<1> HIDE DEF k
<1>6. /\ k \in Procedures /\ assigned \in [Procedures -> (SUBSET Cpus) \cup {None}]
      /\ token \in [Procedures -> Int \cup {None}] /\ assigned[k] \in SUBSET Cpus
  <2>1. k \in Procedures /\ assigned[k] # None
    BY <1>5 DEF started
  <2> QED
    BY <1>2, <2>1 DEF Typed
<1>7. /\ assigned'[k] = assigned[k] \ {c}
      /\ token'[k] = IF token[k] = None THEN None ELSE token[k] - 1
      /\ \A j \in Procedures : j # k => assigned'[j] = assigned[j] /\ token'[j] = token[j]
  BY <1>3, <1>6
<1>8. started' = started
  <2>1. assigned'[k] # None /\ assigned[k] # None
    <3>1. assigned[k] \ {c} \in SUBSET Cpus
      BY <1>6
    <3> QED
      BY <1>6, <1>7, <3>1, Markers
  <2> QED
    BY <1>7, <2>1 DEF started
<1>9. ASSUME NEW d \in Cpus, d # b, pc'[d] \in Joined
      PROVE  ApWorks(b, d)'
  <2>1. CASE d = c
    <3>1. ~Awaited(b, d)' /\ Engaged(b, d)'
      BY <1>4, <1>5, <2>1 DEF Awaited, Engaged
    <3> QED
      BY <1>2, <1>3, <1>4, <1>5, <2>1, <3>1 DEF ApWorks, Broadcast
  <2>2. CASE d # c
    <3>1. pc'[d] = pc[d]
      BY <1>4, <2>2
    <3>2. ApWorks(b, d)
      BY <1>2, <1>9, <3>1 DEF Works
    <3>3. (Awaited(b, d)' <=> Awaited(b, d)) /\ (Engaged(b, d)' <=> Engaged(b, d))
      BY <1>3, <1>4, <3>1 DEF Awaited, Engaged, Run
    <3>4. Awaited(b, d) => cpu[d].proc \in started' /\ d \in assigned'[cpu[d].proc]
      <4>1. Awaited(b, d) => cpu[d].proc \in started /\ d \in assigned[cpu[d].proc]
        BY <3>2 DEF ApWorks
      <4> QED
        BY <1>7, <1>8, <2>2, <4>1 DEF started
    <3> QED
      BY <1>3, <1>4, <3>1, <3>2, <3>3, <3>4 DEF ApWorks, Run
  <2> QED
    BY <2>1, <2>2
<1>10. ASSUME NEW j \in started
       PROVE  ProcedureKept(b, j)'
  <2>1. ProcedureKept(b, j) /\ j \in Procedures /\ assigned[j] \in SUBSET Cpus
    BY <1>2, <1>10 DEF Works, started, Typed
  <2>2. assigned'[j] = assigned[j] \ {c}
    <3>1. c \in assigned[j] => j = k
      BY <2>1 DEF ProcedureKept, k
    <3> QED
      BY <1>7, <2>1, <3>1
  <2>3. ASSUME NEW d \in assigned'[j]
        PROVE  d # b /\ pc'[d] \in Joined /\ pc'[b] \in Running /\ Awaited(b, d)' /\ cpu'[d].proc = j
    <3>1. d \in Cpus /\ d # c /\ d \in assigned[j]
      BY <2>1, <2>2, <2>3
    <3>2. pc'[d] = pc[d]
      BY <1>4, <3>1
    <3> QED
      BY <1>3, <1>4, <2>1, <3>1, <3>2 DEF ProcedureKept, Awaited, Run
  <2>4. token'[j] = None => \/ assigned'[j] = {}
                            \/ pc'[b] = "blocked" /\ assigned'[j] \subseteq bsp'.waitFor
    <3>1. token'[j] = None => token[j] = None
      <4>1. \A n \in Int : n - 1 # None
        BY Markers
      <4> QED
        BY <1>6, <1>7, <2>1, <4>1
    <3>2. token[j] = None => assigned[j] = {} \/ (pc[b] = "blocked" /\ assigned[j] \subseteq bsp.waitFor)
      BY <1>5, <2>1 DEF ProcedureKept, Broadcast
    <3> QED
      BY <1>3, <1>4, <2>2, <3>1, <3>2
  <2>5. token'[j] # None => token'[j] = Cardinality(assigned'[j])
    <3>1. token[j] # None => token[j] = Cardinality(assigned[j])
      BY <1>5, <2>1 DEF ProcedureKept, Broadcast
    <3>2. CASE j = k
      <4>1. Cardinality(assigned[k] \ {c}) = Cardinality(assigned[k]) - 1
        BY <1>5, <1>6, OneLess
      <4> QED
        BY <1>7, <3>1, <3>2, <4>1
    <3>3. CASE j # k
      BY <1>7, <2>1, <3>1, <3>3
    <3> QED
      BY <3>2, <3>3
  <2> QED
    BY <2>3, <2>4, <2>5 DEF ProcedureKept
<1>11. BroadcastKept(b)'
  BY <1>4, <1>5 DEF BroadcastKept, Broadcast
<1>12. Works(b)'
  BY <1>8, <1>9, <1>10, <1>11 DEF Works
<1> QED
  BY <1>1, <1>4, <1>12, WorksRestored

(* The steps of the others while the BSP runs the handlers.                 *)
LEMMA OtherSteps ==
  ASSUME SInv, RInv', NEW b \in Cpus, NEW c \in Cpus, c # b, pc[b] \in Running,
         Enter(c) \/ Acts(c)
  PROVE  WInv'
<1> USE DEF Step
<1>1. pc[b] \in Leading
  BY DEF Leading, BspPcs, Running
<1>2. Typed /\ pc[c] \notin Leading /\ config' = config /\ \A d \in Cpus : d # c => pc'[d] = pc[d]
  BY <1>1, Moved, Leads
<1>3. \/ pc[c] \notin Joined
      \/ pc[c] \in Waiting \cup {"apPresent"}
      \/ pc[c] = "apLoop"
      \/ pc[c] \in {"apCheck", "apExec", "apIdle"} /\ cpu[c].run = 0
  <2>1. pc[c] \in Joined => Follows(config, pc[b], pc[c], cpu[c].run)
    BY <1>1, Leads
  <2> QED
    BY <2>1, WhileRunning
<1>4. CASE Enter(c) \/ Sample(c) \/ Leave(c) \/ Reopen(c)
  <2>1. /\ cpu' = cpu /\ bsp' = bsp /\ token' = token /\ assigned' = assigned
        /\ pc[c] \in {"out", "sample", "leave", "reopen", "unsync"}
    BY <1>4 DEF Enter, Sample, Leave, Reopen
  <2>2. pc'[c] \in {"out", "sample", "checkin", "leave", "unsync"}
    BY <1>2, <1>4, Went DEF Enter, Sample, Leave, Reopen
  <2>3. SameBut(c) /\ pc'[c] \notin Joined
    BY <2>1, <2>2 DEF SameBut, Joined, ApPcs
  <2> QED
    BY <1>2, <2>1, <2>2, <2>3, UnengagedSteps
<1>5. CASE CheckIn(c)
  <2>1. bsp' = bsp /\ token' = token /\ assigned' = assigned /\ pc[c] = "checkin"
    BY <1>5 DEF CheckIn
  <2>2. CASE cpu' = cpu /\ Goto(c, "leave")
    <3>1. pc'[c] = "leave" /\ SameBut(c) /\ pc'[c] \notin Joined
      BY <1>2, <2>2, Went DEF SameBut, Joined, ApPcs
    <3> QED
      BY <1>2, <2>1, <2>2, <3>1, UnengagedSteps
  <2>3. CASE cpu' = [cpu EXCEPT ![c].busy = FALSE]
             /\ Goto(c, IF valid[c].bsp THEN "waitBsp" ELSE "elect")
    <3>1. SameBut(c) /\ cpu'[c].run = cpu[c].run /\ ~cpu'[c].busy
      BY <1>2, <2>3, BusyStored
    <3>2. pc'[c] \in {"waitBsp", "elect"}
      BY <1>2, <2>3, Went
    <3>3. pc'[c] \in Waiting
      BY <3>2 DEF Waiting
    <3> QED
      BY <1>2, <2>1, <3>1, <3>2, <3>3, UnengagedSteps
  <2> QED
    BY <1>5, <2>2, <2>3 DEF CheckIn
<1>6. CASE Elect(c) \/ SeeBsp(c) \/ BspTimeout(c) \/ GiveUp(c)
  <2>1. /\ cpu' = cpu /\ bsp' = bsp /\ token' = token /\ assigned' = assigned
        /\ pc[c] \in {"elect", "waitBsp", "waitBspAgain", "giveUp"}
    BY <1>6 DEF Elect, SeeBsp, BspTimeout, GiveUp
  <2>2. pc'[c] \in {"bspInside", "waitBsp", "apPresent", "waitBspAgain", "giveUp", "leave"}
    BY <1>2, <1>6, Went DEF Elect, SeeBsp, BspTimeout, GiveUp
  <2>3. SameBut(c) /\ pc[c] \in Joined
    BY <2>1 DEF SameBut, Joined, ApPcs
  <2> QED
    BY <1>2, <2>1, <2>2, <2>3, UnengagedSteps
<1>7. CASE ApPresent(c)
  <2>1. /\ cpu' = [cpu EXCEPT ![c].present = TRUE]
        /\ bsp' = bsp /\ token' = token /\ assigned' = assigned /\ pc[c] = "apPresent"
    BY <1>7 DEF ApPresent
  <2>2. pc'[c] \in {"apArrived", "apLoop"}
    BY <1>2, <1>7, Went DEF ApPresent
  <2>3. SameBut(c) /\ cpu'[c].run = cpu[c].run /\ cpu'[c].busy = cpu[c].busy /\ pc[c] \in Joined
    BY <1>2, <2>1, PresentStored DEF Joined, ApPcs
  <2> QED
    BY <1>2, <2>1, <2>2, <2>3, UnengagedSteps
<1>8. CASE ApIdle(c)
  <2>1. /\ cpu' = [cpu EXCEPT ![c].busy = FALSE]
        /\ bsp' = bsp /\ token' = token /\ assigned' = assigned /\ pc[c] = "apIdle"
    BY <1>8 DEF ApIdle
  <2>2. pc'[c] = "apLoop"
    BY <1>2, <1>8, Went DEF ApIdle
  <2>3. SameBut(c) /\ cpu'[c].run = cpu[c].run /\ ~cpu'[c].busy /\ pc[c] \in Joined
    BY <1>2, <2>1, BusyStored DEF Joined, ApPcs
  <2> QED
    BY <1>2, <2>1, <2>2, <2>3, UnengagedSteps
<1>9. CASE ApWake(c) \/ ApCheck(c) \/ ApExec(c)
  BY <1>9, WokenSteps, ExecSteps
<1>10. CASE ApSignal(c) \/ ApMtrrs(c) \/ ApReset(c)
  BY <1>3, <1>10 DEF ApSignal, ApMtrrs, ApReset, Waiting, Joined, ApPcs
<1>11. CASE BSPHandler(c) \/ Serving(c)
  <2>1. Serving(c) => pc[c] \in Leading
    BY InHandlers DEF Running, Leading, BspPcs
  <2>2. BSPHandler(c) => pc[c] \in Leading \/ Reopen(c)
    BY DEF BSPHandler, BspInside, BspPresent, Arrival, ArrivalAgain, SetAllInSync,
     Lockdown, WaitForAllAPs, BspMtrrs, HandlersDone, Drained, AllPresent, BspExit, ReleaseToExit,
     BspAbsent, GatherEnd, Leading, BspPcs
  <2> QED
    BY <1>2, <1>4, <1>11, <2>1, <2>2
<1> QED
  BY <1>4, <1>5, <1>6, <1>7, <1>8, <1>9, <1>10, <1>11 DEF Acts, SmiRendezvous, APHandler

(* The present APs, which the loops of the handlers go through.             *)
PresentAps(b) == {c \in Cpus : IsPresentAp(b, c)}

(* While the handlers run, a present AP is in its loop or beyond; in the modes
   that gather first there is no other AP.                                  *)
LEMMA PresentRunning ==
  ASSUME SInv, NEW b \in Cpus, pc[b] \in Running, NEW c \in Cpus, c # b
  PROVE  /\ cpu[c].present =>
              /\ pc[c] \in Joined
              /\ \/ pc[c] = "apLoop" /\ cpu[c].run \in {0, 1}
                 \/ pc[c] \in {"apCheck", "apExec", "apIdle"} /\ cpu[c].run = 0
         /\ pc[c] \in {"apLoop", "apCheck", "apExec", "apIdle"} => cpu[c].present
         /\ pc[c] \in Joined /\ Gathers(config) => cpu[c].present
<1>1. pc[b] \in Leading
  BY DEF Leading, BspPcs, Running
<1>2. RInv /\ pc[c] \notin Leading /\ (pc[c] \in Joined => Follows(config, pc[b], pc[c], cpu[c].run))
  BY <1>1, Leads
<1>3. cpu[c].present <=> pc[c] \in PresentPcs
  BY <1>2 DEF RInv, Own
<1>4. cpu[c].present => pc[c] \in Joined /\ pc[c] \notin Waiting \cup {"apPresent"}
  BY <1>2, <1>3 DEF PresentPcs, Waiting
<1>5. pc[c] \in {"apLoop", "apCheck", "apExec", "apIdle"} => pc[c] \in PresentPcs
  BY DEF PresentPcs, Joined, ApPcs, Waiting
<1>6. pc[c] \in Joined =>
        \/ pc[c] \in Waiting \cup {"apPresent"} /\ cpu[c].run = 0 /\ ~Gathers(config)
        \/ pc[c] = "apLoop" /\ cpu[c].run \in {0, 1}
        \/ pc[c] \in {"apCheck", "apExec", "apIdle"} /\ cpu[c].run = 0
  BY <1>2, WhileRunning
<1> QED
  BY <1>3, <1>4, <1>5, <1>6

(* SmmStartupAllAPs: every AP waits in its loop.                            *)
LEMMA InBroadcast ==
  ASSUME SInv, NEW b \in Cpus, pc[b] \in Broadcast, NEW c \in Cpus, c # b
  PROVE  /\ pc[c] \in Joined <=> cpu[c].present
         /\ pc[c] \in Joined => pc[c] = "apLoop" /\ cpu[c].run = 0 /\ ApWorks(b, c)
<1>1. pc[b] \in Running /\ pc[b] \in Leading
  BY DEF Broadcast, Running, Leading, BspPcs
<1>2. Gathers(config)
  BY <1>1, Leads DEF Led, Way, OnItsWay
<1>3. pc[c] \in Joined => ApWorks(b, c)
  BY <1>1, Leads
<1> QED
  BY <1>1, <1>2, <1>3, PresentRunning DEF ApWorks, Run

(* The handlers are done, or a blocking call returns.                       *)
LEMMA ReturnSteps ==
  ASSUME SInv, RInv', NEW b \in Cpus, HandlersDone(b) \/ Unblock(b)
  PROVE  WInv'
<1> USE DEF Step
<1>1. /\ cpu' = cpu /\ token' = token /\ assigned' = assigned
      /\ pc[b] \in {"handlers", "blocked"} /\ bsp'.proc = bsp.proc
  <2>1. bsp \in BspData
    BY Parts DEF SInv
  <2> QED
    BY <2>1 DEF HandlersDone, Unblock, BspData
<1>2. pc[b] \in Running /\ pc[b] \in Leading /\ pc[b] \notin Broadcast
  BY <1>1 DEF Running, Leading, BspPcs, Broadcast
<1>3. Typed /\ Works(b)
  BY <1>2, Leads
<1>4. pc'[b] \in {"drain", "handlers"} /\ \A d \in Cpus : d # b => pc'[d] = pc[d]
  BY <1>3, Went DEF HandlersDone, Unblock
<1>5. pc'[b] \in Running /\ pc'[b] \in Leading /\ pc'[b] \notin Broadcast /\ started' = started
  BY <1>1, <1>4 DEF Running, Leading, BspPcs, Broadcast, started
<1>6. ASSUME NEW c \in Cpus, c # b
      PROVE  /\ Awaited(b, c)' <=> Awaited(b, c)
             /\ Engaged(b, c)' <=> Engaged(b, c)
  <2>1. pc'[c] = pc[c]
    BY <1>4, <1>6
  <2> QED
    BY <1>1, <1>2, <1>4, <1>5, <2>1 DEF Awaited, Engaged, Run
<1>7. ASSUME NEW c \in Cpus, c # b, pc'[c] \in Joined
      PROVE  ApWorks(b, c)'
  <2>1. pc'[c] = pc[c] /\ ApWorks(b, c)
    BY <1>2, <1>4, <1>7, Leads
  <2>2. cpu[c].busy /\ pc'[b] = "drain" => c \in bsp'.waitFor
    <3>1. SUFFICES ASSUME cpu[c].busy, pc'[b] = "drain"
                   PROVE  c \in bsp'.waitFor
      OBVIOUS
    <3>2. HandlersDone(b)
      BY <1>3, <3>1, Went DEF Unblock
    <3>3. bsp'.waitFor = PresentAps(b)
      <4>1. bsp \in BspData
        BY <1>3, Parts
      <4> QED
        BY <3>2, <4>1 DEF HandlersDone, BspData, PresentAps
    <3>4. Run(c) = 1 \/ pc[c] \in {"apCheck", "apExec", "apIdle"}
      BY <1>2, <2>1, <3>1 DEF ApWorks, Engaged
    <3>5. Follows(config, pc[b], pc[c], cpu[c].run)
      BY <1>2, <1>7, <2>1, Leads
    <3>6. pc[c] \in {"apLoop", "apCheck", "apExec", "apIdle"}
      <4>1. \/ cpu[c].run = 0
            \/ pc[c] = "apLoop"
            \/ pc[c] \in {"apCheck", "apExec", "apIdle"}
        BY <1>2, <3>5, WhileRunning
      <4> QED
        BY <3>4, <4>1 DEF Run
    <3>7. cpu[c].present
      BY <1>2, <1>7, <3>6, PresentRunning
    <3> QED
      BY <1>7, <3>3, <3>7 DEF PresentAps, IsPresentAp
  <2> QED
    BY <1>1, <1>2, <1>4, <1>5, <1>6, <1>7, <2>1, <2>2 DEF ApWorks, Broadcast
<1>8. ASSUME NEW k \in started
      PROVE  ProcedureKept(b, k)'
  <2>1. ProcedureKept(b, k) /\ assigned[k] \in SUBSET Cpus
    BY <1>3, <1>8 DEF Works, started, Typed
  <2>2. ASSUME NEW d \in assigned[k]
        PROVE  /\ d \in Cpus /\ d # b /\ pc[d] \in Joined /\ Awaited(b, d) /\ cpu[d].proc = k
               /\ pc'[d] \in Joined /\ Awaited(b, d)'
    <3>1. d \in Cpus /\ d # b /\ pc[d] \in Joined /\ Awaited(b, d) /\ cpu[d].proc = k
      BY <2>1, <2>2 DEF ProcedureKept
    <3> QED
      BY <1>4, <1>6, <3>1
  <2>3. token[k] = None => assigned[k] = {}
    <3>1. CASE pc[b] = "handlers"
      BY <2>1, <3>1 DEF ProcedureKept
    <3>2. CASE pc[b] = "blocked"
      <4>1. NotBusy
        BY <3>2 DEF HandlersDone, Unblock
      <4>2. ASSUME assigned[k] \subseteq bsp.waitFor, NEW d \in assigned[k]
            PROVE  FALSE
        BY <1>2, <2>2, <4>1, <4>2, AwaitedBusy DEF NotBusy
      <4> QED
        BY <2>1, <3>2, <4>2 DEF ProcedureKept
    <3> QED
      BY <1>1, <3>1, <3>2
  <2>4. token[k] # None => token[k] = Cardinality(assigned[k])
    BY <1>1, <2>1 DEF ProcedureKept
  <2> QED
    BY <1>1, <1>5, <2>2, <2>3, <2>4 DEF ProcedureKept
<1>9. BroadcastKept(b)'
  BY <1>5 DEF BroadcastKept, Broadcast
<1>10. Works(b)'
  BY <1>5, <1>7, <1>8, <1>9 DEF Works
<1> QED
  BY <1>5, <1>10, WorksRestored

(* SmmStartupAllAPs: it finds all APs in their loops, with their locks free.  *)
LEMMA StartupAllSteps ==
  ASSUME SInv, RInv', TraditionalBroadcasts, NEW b \in Cpus, NEW k \in Procedures, NEW blocking \in BOOLEAN,
         StartupAllAPs(b, k, blocking)
  PROVE  WInv'
<1>1. /\ pc[b] = "handlers" /\ config.mode \in BroadcastModes /\ k \notin started
      /\ \A c \in PresentAps(b) : ~cpu[c].busy
      /\ token' = [token EXCEPT ![k] = IF blocking THEN None ELSE NumberOfCpus]
      /\ assigned' = [assigned EXCEPT ![k] = {}]
      /\ bsp' = [bsp EXCEPT !.proc = k]
      /\ cpu' = cpu /\ Goto(b, "acquire")
  BY DEF StartupAllAPs, NewProcedure, PresentAps
<1>2. pc[b] \in Running /\ pc[b] \in Leading /\ pc[b] \notin Broadcast
  BY <1>1 DEF Running, Leading, BspPcs, Broadcast
<1>3. Typed /\ Works(b) /\ Gathers(config)
  BY <1>1, <1>2, Leads DEF TraditionalBroadcasts, Gathers
<1>4. pc'[b] = "acquire" /\ \A d \in Cpus : d # b => pc'[d] = pc[d]
  BY <1>1, <1>3, Went
<1>5. pc'[b] \in Running /\ pc'[b] \in Leading /\ pc'[b] \in Broadcast
  BY <1>4 DEF Running, Leading, BspPcs, Broadcast
<1>6. /\ bsp'.proc = k
      /\ token'[k] \in {None, NumberOfCpus} /\ assigned'[k] = {}
      /\ \A j \in Procedures : j # k => token'[j] = token[j] /\ assigned'[j] = assigned[j]
  <2>1. bsp \in BspData
    BY <1>3, Parts
  <2>2. bsp'.proc = k
    BY <1>1, <2>1 DEF BspData
  <2>3. token \in [Procedures -> Int \cup {None}] /\ assigned \in [Procedures -> (SUBSET Cpus) \cup {None}]
    BY <1>3 DEF Typed
  <2> QED
    BY <1>1, <2>2, <2>3
<1>7. started' = started \cup {k}
  <2>1. None # {}
    BY Markers
  <2> QED
    BY <1>6, <2>1 DEF started
<1>8. ASSUME NEW c \in Cpus, c # b, pc[c] \in Joined
      PROVE  pc[c] = "apLoop" /\ cpu[c].run = 0 /\ ~cpu[c].busy /\ ~Awaited(b, c)
  <2>1. cpu[c].present
    BY <1>2, <1>3, <1>8, PresentRunning
  <2>2. ~cpu[c].busy
    BY <1>1, <1>8, <2>1 DEF PresentAps, IsPresentAp
  <2>3. ~Engaged(b, c)
    <3>1. ApWorks(b, c)
      BY <1>2, <1>8, Leads
    <3> QED
      BY <2>2, <3>1 DEF ApWorks
  <2>4. cpu[c].run # 1 /\ pc[c] \notin {"apCheck", "apExec", "apIdle"}
    BY <1>2, <2>3 DEF Engaged, Run
  <2>5. pc[c] = "apLoop" /\ cpu[c].run = 0
    BY <1>2, <1>8, <2>1, <2>4, PresentRunning
  <2> QED
    BY <1>1, <2>2, <2>4, <2>5 DEF Awaited, Run
<1>9. ASSUME NEW c \in Cpus, c # b, pc'[c] \in Joined
      PROVE  ApWorks(b, c)'
  <2>1. pc'[c] = pc[c] /\ pc[c] = "apLoop" /\ cpu[c].run = 0 /\ ~cpu[c].busy
    BY <1>4, <1>8, <1>9
  <2>2. ~Awaited(b, c)' /\ ~Engaged(b, c)'
    BY <1>1, <1>4, <1>5, <2>1 DEF Awaited, Engaged, Run
  <2> QED
    BY <1>1, <1>4, <2>1, <2>2 DEF ApWorks, Run
<1>10. ASSUME NEW j \in started'
       PROVE  ProcedureKept(b, j)'
  <2>1. CASE j = k
    BY <1>4, <1>6, <2>1 DEF ProcedureKept
  <2>2. CASE j # k
    <3>1. j \in started /\ j \in Procedures
      BY <1>7, <1>10, <2>2 DEF started
    <3>2. ProcedureKept(b, j) /\ assigned[j] \in SUBSET Cpus
      BY <1>3, <3>1 DEF Works, started, Typed
    <3>3. assigned[j] = {}
      <4>1. ASSUME NEW d \in assigned[j]
            PROVE  FALSE
        BY <1>8, <3>2, <4>1 DEF ProcedureKept
      <4> QED
        BY <4>1
    <3>4. token[j] # None => token[j] = Cardinality(assigned[j])
      BY <1>1, <3>2 DEF ProcedureKept
    <3> QED
      BY <1>6, <2>2, <3>1, <3>3, <3>4 DEF ProcedureKept
  <2> QED
    BY <2>1, <2>2
<1>11. BroadcastKept(b)'
  BY <1>6, <1>7 DEF BroadcastKept
<1>12. Works(b)'
  BY <1>9, <1>10, <1>11 DEF Works
<1> QED
  BY <1>5, <1>12, WorksRestored

(* It takes their Busy locks.                                               *)
LEMMA AcquireSteps ==
  ASSUME SInv, RInv', NEW b \in Cpus, AcquireAllBusy(b)
  PROVE  WInv'
<1>1. /\ pc[b] = "acquire" /\ Goto(b, "schedule")
      /\ cpu' = [c \in Cpus |-> IF IsPresentAp(b, c) THEN [cpu[c] EXCEPT !.busy = TRUE] ELSE cpu[c]]
      /\ bsp' = bsp /\ token' = token /\ assigned' = assigned
  BY DEF AcquireAllBusy, Step
<1>2. pc[b] \in Broadcast /\ pc[b] \in Leading
  BY <1>1 DEF Leading, BspPcs, Broadcast
<1>3. Typed /\ Works(b)
  BY <1>2, Leads
<1>4. pc'[b] = "schedule" /\ \A d \in Cpus : d # b => pc'[d] = pc[d]
  BY <1>1, <1>3, Went
<1>5. pc'[b] \in Running /\ pc'[b] \in Leading /\ pc'[b] \in Broadcast /\ started' = started
  BY <1>1, <1>4 DEF Running, Leading, BspPcs, Broadcast, started
<1>6. ASSUME NEW c \in Cpus
      PROVE  cpu'[c].run = cpu[c].run /\ cpu'[c].proc = cpu[c].proc /\ (IsPresentAp(b, c) => cpu'[c].busy)
  <2>1. cpu[c] \in CpuData
    BY <1>3, Parts
  <2>2. cpu'[c] = IF IsPresentAp(b, c) THEN [cpu[c] EXCEPT !.busy = TRUE] ELSE cpu[c]
    BY <1>1
  <2> QED
    BY <2>1, <2>2 DEF CpuData
<1>7. ASSUME NEW c \in Cpus, c # b, pc'[c] \in Joined
      PROVE  ApWorks(b, c)'
  <2>1. pc'[c] = pc[c]
    BY <1>4, <1>7
  <2>2. pc[c] = "apLoop" /\ cpu[c].run = 0 /\ cpu[c].present
    BY <1>2, <1>7, <2>1, InBroadcast
  <2>3. cpu'[c].busy /\ cpu'[c].run = 0
    BY <1>6, <1>7, <2>2 DEF IsPresentAp
  <2>4. ~Awaited(b, c)' /\ Engaged(b, c)'
    BY <1>4, <1>5, <2>1, <2>2, <2>3 DEF Awaited, Engaged, Run
  <2> QED
    BY <1>4, <2>1, <2>2, <2>3, <2>4 DEF ApWorks, Run
<1>8. ASSUME NEW k \in started
      PROVE  ProcedureKept(b, k)'
  <2>1. ProcedureKept(b, k) /\ assigned[k] \in SUBSET Cpus
    BY <1>3, <1>8 DEF Works, started, Typed
  <2>2. assigned[k] = {}
    <3>1. ASSUME NEW d \in assigned[k]
          PROVE  FALSE
      <4>1. d \in Cpus /\ d # b /\ pc[d] \in Joined /\ Awaited(b, d)
        BY <2>1, <3>1 DEF ProcedureKept
      <4>2. pc[d] = "apLoop" /\ cpu[d].run = 0
        BY <1>2, <4>1, InBroadcast
      <4> QED
        BY <1>1, <4>1, <4>2 DEF Awaited, Run
    <3> QED
      BY <3>1
  <2> QED
    BY <1>1, <1>4, <2>1, <2>2 DEF ProcedureKept
<1>9. BroadcastKept(b)'
  BY <1>1, <1>2, <1>4, <1>5, <1>3 DEF BroadcastKept, Works
<1>10. Works(b)'
  BY <1>5, <1>7, <1>8, <1>9 DEF Works
<1> QED
  BY <1>5, <1>10, WorksRestored

(* It gives them the procedure, and takes the absent off the token.         *)
LEMMA ScheduleSteps ==
  ASSUME SInv, RInv', NEW b \in Cpus, ScheduleAll(b)
  PROVE  WInv'
<1> DEFINE k == bsp.proc
           aps == PresentAps(b)
<1>1. /\ pc[b] = "schedule" /\ Goto(b, "start")
      /\ cpu' = [c \in Cpus |-> IF c \in aps THEN [cpu[c] EXCEPT !.proc = k] ELSE cpu[c]]
      /\ token' = [token EXCEPT ![k] = IF @ = None THEN None ELSE @ - Cardinality(Cpus \ aps)]
      /\ assigned' = [assigned EXCEPT ![k] = aps]
      /\ bsp' = bsp
  BY DEF ScheduleAll, Step, PresentAps
<1>2. pc[b] \in Broadcast /\ pc[b] \in Leading
  BY <1>1 DEF Leading, BspPcs, Broadcast
<1>3. Typed /\ Works(b) /\ k \in started /\ assigned[k] = {} /\ token[k] \in {None, NumberOfCpus}
  BY <1>1, <1>2, Leads DEF Works, BroadcastKept
<1>4. pc'[b] = "start" /\ \A d \in Cpus : d # b => pc'[d] = pc[d]
  BY <1>1, <1>3, Went
<1>5. pc'[b] \in Running /\ pc'[b] \in Leading /\ pc'[b] \in Broadcast
  BY <1>4 DEF Running, Leading, BspPcs, Broadcast
<1>6. aps \in SUBSET Cpus /\ \A c \in Cpus : c \in aps <=> c # b /\ pc[c] \in Joined
  <2>1. \A c \in Cpus : c \in aps <=> c # b /\ cpu[c].present
    BY DEF PresentAps, IsPresentAp
  <2>2. pc[b] \notin Joined
    BY <1>1 DEF Joined, ApPcs
  <2> QED
    BY <1>2, <2>1, <2>2, InBroadcast DEF PresentAps
<1>7. NumberOfCpus - Cardinality(Cpus \ aps) = Cardinality(aps)
  <2>1. IsFiniteSet(Cpus) /\ Cpus \cap aps = aps /\ NumberOfCpus \in Nat /\ Cardinality(aps) \in Nat
    BY <1>6, Markers, Few
  <2>2. Cardinality(Cpus \ aps) = Cardinality(Cpus) - Cardinality(Cpus \cap aps)
    BY <2>1, FS_Difference
  <2> QED
    BY <2>1, <2>2 DEF NumberOfCpus
<1> HIDE DEF k, aps
<1>8. /\ assigned'[k] = aps
      /\ token'[k] = IF token[k] = None THEN None ELSE token[k] - Cardinality(Cpus \ aps)
      /\ \A j \in Procedures : j # k => token'[j] = token[j] /\ assigned'[j] = assigned[j]
  <2>1. token \in [Procedures -> Int \cup {None}] /\ assigned \in [Procedures -> (SUBSET Cpus) \cup {None}]
        /\ k \in Procedures
    BY <1>3 DEF Typed, started
  <2> QED
    BY <1>1, <2>1
<1>9. started' = started
  <2>1. None # aps
    BY <1>6, Markers
  <2> QED
    BY <1>3, <1>8, <2>1 DEF started
<1>10. ASSUME NEW c \in Cpus
       PROVE  cpu'[c].run = cpu[c].run /\ cpu'[c].busy = cpu[c].busy /\ (c \in aps => cpu'[c].proc = k)
  <2>1. cpu[c] \in CpuData
    BY <1>3, Parts
  <2>2. cpu'[c] = IF c \in aps THEN [cpu[c] EXCEPT !.proc = k] ELSE cpu[c]
    BY <1>1
  <2> QED
    BY <2>1, <2>2 DEF CpuData
<1>11. ASSUME NEW c \in aps
       PROVE  /\ c \in Cpus /\ c # b /\ pc'[c] = "apLoop" /\ pc[c] = "apLoop" /\ cpu[c].run = 0
              /\ cpu'[c].proc = k /\ cpu'[c].run = 0 /\ cpu'[c].busy /\ Awaited(b, c)'
  <2>1. c \in Cpus /\ c # b /\ pc[c] \in Joined
    BY <1>6, <1>11
  <2>2. pc[c] = "apLoop" /\ cpu[c].run = 0 /\ ApWorks(b, c)
    BY <1>2, <2>1, InBroadcast
  <2>3. cpu[c].busy
    BY <1>1, <1>2, <2>2 DEF ApWorks, Engaged
  <2> QED
    BY <1>4, <1>10, <1>11, <2>1, <2>2, <2>3 DEF Awaited
<1>12. ASSUME NEW c \in Cpus, c # b, pc'[c] \in Joined
       PROVE  ApWorks(b, c)'
  <2>1. c \in aps
    BY <1>4, <1>6, <1>12
  <2>2. Engaged(b, c)'
    BY <1>4, <1>5 DEF Engaged
  <2> QED
    <3>1. pc'[c] = "apLoop" /\ cpu'[c].run = 0 /\ cpu'[c].busy /\ cpu'[c].proc = k
      BY <1>11, <2>1
    <3>2. k \in started' /\ c \in assigned'[k] /\ bsp'.proc = k
      BY <1>1, <1>3, <1>8, <1>9, <2>1 DEF k
    <3> QED
      BY <1>4, <2>2, <3>1, <3>2 DEF ApWorks, Run
<1>13. ASSUME NEW j \in started
       PROVE  ProcedureKept(b, j)'
  <2>1. ProcedureKept(b, j) /\ j \in Procedures /\ assigned[j] \in SUBSET Cpus
    BY <1>3, <1>13 DEF Works, started, Typed
  <2>2. CASE j = k
    <3>1. ASSUME NEW d \in assigned'[j]
          PROVE  d # b /\ pc'[d] \in Joined /\ pc'[b] \in Running /\ Awaited(b, d)' /\ cpu'[d].proc = j
      <4>1. d \in aps /\ "apLoop" \in Joined
        BY <1>8, <2>2, <3>1 DEF Joined, ApPcs
      <4> QED
        BY <1>5, <1>11, <2>2, <4>1
    <3>2. j = bsp'.proc
      BY <1>1, <2>2 DEF k
    <3>3. token'[j] # None => token'[j] = Cardinality(assigned'[j])
      BY <1>3, <1>7, <1>8, <2>2
    <3> QED
      BY <1>4, <3>1, <3>2, <3>3 DEF ProcedureKept
  <2>3. CASE j # k
    <3>1. assigned[j] = {}
      <4>1. ASSUME NEW d \in assigned[j]
            PROVE  FALSE
        <5>1. d \in Cpus /\ d # b /\ pc[d] \in Joined /\ Awaited(b, d)
          BY <2>1, <4>1 DEF ProcedureKept
        <5>2. pc[d] = "apLoop" /\ cpu[d].run = 0
          BY <1>2, <5>1, InBroadcast
        <5> QED
          BY <1>1, <5>1, <5>2 DEF Awaited, Run
      <4> QED
        BY <4>1
    <3>2. token[j] # None => token[j] = Cardinality(assigned[j])
      BY <2>1, <2>3 DEF ProcedureKept, k
    <3> QED
      BY <1>8, <2>1, <2>3, <3>1, <3>2 DEF ProcedureKept
  <2> QED
    BY <2>2, <2>3
<1>14. BroadcastKept(b)'
  BY <1>1, <1>3, <1>4, <1>9 DEF BroadcastKept, k
<1>15. Works(b)'
  BY <1>9, <1>12, <1>13, <1>14 DEF Works
<1> QED
  BY <1>5, <1>15, WorksRestored

(* ReleaseAllAPs: it wakes them, and waits unless there is a token.         *)
LEMMA StartSteps ==
  ASSUME SInv, RInv', NEW b \in Cpus, StartAll(b)
  PROVE  WInv'
<1> DEFINE k == bsp.proc
           next == IF token[k] = None THEN "blocked" ELSE "handlers"
<1>1. /\ pc[b] = "start" /\ Goto(b, next)
      /\ cpu' = ReleasedAPs(b)
      /\ bsp' = [bsp EXCEPT !.waitFor = PresentAps(b)]
      /\ token' = token /\ assigned' = assigned
  BY DEF StartAll, Step, PresentAps
<1>2. pc[b] \in Broadcast /\ pc[b] \in Leading
  BY <1>1 DEF Leading, BspPcs, Broadcast
<1>3. Typed /\ Works(b)
  BY <1>2, Leads
<1>4. pc'[b] = next /\ \A d \in Cpus : d # b => pc'[d] = pc[d]
  BY <1>1, <1>3, Went
<1>5. pc'[b] \in Running /\ pc'[b] \in Leading /\ pc'[b] \notin Broadcast /\ started' = started
      /\ pc'[b] # "drain"
  BY <1>1, <1>4 DEF Running, Leading, BspPcs, Broadcast, started
<1>6. bsp'.waitFor = PresentAps(b)
  <2>1. bsp \in BspData
    BY <1>3, Parts
  <2> QED
    BY <1>1, <2>1 DEF BspData
<1>7. ASSUME NEW c \in Cpus, c # b, pc[c] \in Joined
      PROVE  /\ pc'[c] = "apLoop" /\ cpu'[c].run = 1 /\ cpu'[c].busy /\ cpu'[c].proc = cpu[c].proc
             /\ c \in PresentAps(b) /\ cpu[c].proc = k /\ Awaited(b, c) /\ Awaited(b, c)'
             /\ ApWorks(b, c)
  <2>1. pc[c] = "apLoop" /\ cpu[c].run = 0 /\ cpu[c].present /\ ApWorks(b, c)
    BY <1>2, <1>7, InBroadcast
  <2>2. cpu[c].busy /\ cpu[c].proc = k
    BY <1>1, <1>2, <2>1 DEF ApWorks, Engaged
  <2>3. cpu'[c].run = 1 /\ cpu'[c].busy = cpu[c].busy /\ cpu'[c].proc = cpu[c].proc
    BY <1>1, <1>3, <1>7, <2>1, APsReleased
  <2>4. pc'[c] = "apLoop"
    BY <1>4, <1>7, <2>1
  <2>5. c \in PresentAps(b)
    BY <1>7, <2>1 DEF PresentAps, IsPresentAp
  <2> QED
    BY <1>1, <2>1, <2>2, <2>3, <2>4, <2>5 DEF Awaited, Run
<1> HIDE DEF k, next
<1>8. ASSUME NEW c \in Cpus, c # b, pc'[c] \in Joined
      PROVE  ApWorks(b, c)'
  <2>1. pc[c] \in Joined
    BY <1>4, <1>8
  <2>2. cpu[c].proc \in started /\ c \in assigned[cpu[c].proc]
    <3>1. ApWorks(b, c) /\ Awaited(b, c)
      BY <1>7, <1>8, <2>1
    <3>2. pc[b] \in Running
      BY <1>1 DEF Running
    <3> QED
      BY <3>1, <3>2 DEF ApWorks
  <2>3. cpu'[c].proc = cpu[c].proc /\ cpu'[c].busy /\ cpu'[c].run = 1
    BY <1>7, <1>8, <2>1
  <2>4. Engaged(b, c)'
    BY <1>5, <2>3 DEF Engaged, Run
  <2>5. pc'[b] # "start"
    BY <1>5 DEF Broadcast
  <2> QED
    BY <1>1, <1>5, <2>2, <2>3, <2>4, <2>5 DEF ApWorks
<1>9. ASSUME NEW j \in started
      PROVE  ProcedureKept(b, j)'
  <2>1. ProcedureKept(b, j) /\ assigned[j] \in SUBSET Cpus
    BY <1>3, <1>9 DEF Works, started, Typed
  <2>2. ASSUME NEW d \in assigned[j]
        PROVE  /\ d # b /\ pc'[d] \in Joined /\ Awaited(b, d)' /\ cpu'[d].proc = j
               /\ d \in PresentAps(b)
    <3>1. d \in Cpus /\ d # b /\ pc[d] \in Joined /\ cpu[d].proc = j
      BY <2>1, <2>2 DEF ProcedureKept
    <3>2. "apLoop" \in Joined
      BY DEF Joined, ApPcs
    <3> QED
      BY <1>7, <3>1, <3>2
  <2>3. token[j] = None => assigned[j] = {} \/ j = k
    BY <1>1, <2>1 DEF ProcedureKept, k
  <2>4. token[j] = None /\ j = k => pc'[b] = "blocked"
    BY <1>4 DEF next
  <2>5. token[j] # None => token[j] = Cardinality(assigned[j])
    BY <1>1, <2>1 DEF ProcedureKept
  <2> QED
    BY <1>1, <1>5, <1>6, <2>2, <2>3, <2>4, <2>5 DEF ProcedureKept
<1>10. BroadcastKept(b)'
  BY <1>5 DEF BroadcastKept, Broadcast
<1>11. Works(b)'
  BY <1>5, <1>8, <1>9, <1>10 DEF Works
<1> QED
  BY <1>5, <1>11, WorksRestored

(* SmmStartupThisAp: the AP is in its loop, with its lock free.             *)
LEMMA StartupThisSteps ==
  ASSUME SInv, RInv', NEW b \in Cpus, NEW c \in Cpus, NEW k \in Procedures, NEW blocking \in BOOLEAN,
         InternalSmmStartupThisAp(b, c, k, blocking)
  PROVE  WInv'
<1> DEFINE next == IF blocking THEN "blocked" ELSE "handlers"
<1>1. /\ pc[b] = "handlers" /\ Goto(b, next) /\ c # b /\ cpu[c].present /\ ~cpu[c].busy
      /\ k \notin started
      /\ cpu' = [cpu EXCEPT ![c].busy = TRUE, ![c].proc = k, ![c].run = @ + 1]
      /\ token' = [token EXCEPT ![k] = IF blocking THEN None ELSE 1]
      /\ assigned' = [assigned EXCEPT ![k] = {c}]
      /\ bsp' = [bsp EXCEPT !.waitFor = {c}]
  BY DEF InternalSmmStartupThisAp, NewProcedure, IsPresentAp
<1>2. pc[b] \in Running /\ pc[b] \in Leading /\ pc[b] \notin Broadcast
  BY <1>1 DEF Running, Leading, BspPcs, Broadcast
<1>3. Typed /\ Works(b)
  BY <1>2, Leads
<1>4. pc'[b] = next /\ \A d \in Cpus : d # b => pc'[d] = pc[d]
  BY <1>1, <1>3, Went
<1>5. pc'[b] \in Running /\ pc'[b] \in Leading /\ pc'[b] \notin Broadcast /\ pc'[b] # "drain"
  BY <1>4 DEF Running, Leading, BspPcs, Broadcast
<1>6. bsp'.waitFor = {c}
  <2>1. bsp \in BspData
    BY <1>3, Parts
  <2> QED
    BY <1>1, <2>1 DEF BspData
<1>7. /\ assigned'[k] = {c} /\ token'[k] = IF blocking THEN None ELSE 1
      /\ \A j \in Procedures : j # k => token'[j] = token[j] /\ assigned'[j] = assigned[j]
  <2>1. token \in [Procedures -> Int \cup {None}] /\ assigned \in [Procedures -> (SUBSET Cpus) \cup {None}]
    BY <1>3 DEF Typed
  <2> QED
    BY <1>1, <2>1
<1>8. started' = started \cup {k}
  <2>1. {c} # None
    BY Markers
  <2> QED
    BY <1>7, <2>1 DEF started
<1>9. pc[c] \in Joined /\ pc[c] = "apLoop" /\ cpu[c].run = 0 /\ ~Awaited(b, c)
  <2>1. pc[c] \in Joined
    BY <1>1, <1>2, PresentRunning
  <2>2. ApWorks(b, c)
    BY <1>1, <1>2, <2>1, Leads
  <2>3. ~Engaged(b, c)
    BY <1>1, <2>2 DEF ApWorks
  <2>4. cpu[c].run # 1 /\ pc[c] \notin {"apCheck", "apExec", "apIdle"}
    BY <1>2, <2>3 DEF Engaged, Run
  <2>5. pc[c] = "apLoop" /\ cpu[c].run = 0
    BY <1>1, <1>2, <2>4, PresentRunning
  <2> QED
    BY <1>1, <2>1, <2>4, <2>5 DEF Awaited, Run
<1>10. cpu'[c].busy /\ cpu'[c].proc = k /\ cpu'[c].run = 1 /\ SameBut(c)
  <2>1. cpu[c] \in CpuData
    BY <1>3, Parts
  <2>2. cpu'[c] = [cpu[c] EXCEPT !.busy = TRUE, !.proc = k, !.run = cpu[c].run + 1]
    BY <1>1, <1>3, Parts
  <2>3. SameBut(c)
    BY <1>1, <1>3, Parts DEF SameBut
  <2>4. cpu'[c].busy = TRUE /\ cpu'[c].proc = k /\ cpu'[c].run = cpu[c].run + 1
    BY <2>1, <2>2 DEF CpuData
  <2> QED
    BY <1>9, <2>3, <2>4
<1> HIDE DEF next
<1>11. pc'[c] = "apLoop" /\ Awaited(b, c)' /\ Engaged(b, c)'
  <2>1. pc'[c] = "apLoop"
    BY <1>1, <1>4, <1>9
  <2> QED
    BY <1>5, <1>10, <2>1 DEF Awaited, Engaged, Run
<1>12. ASSUME NEW d \in Cpus, d # b, d # c
       PROVE  /\ pc'[d] = pc[d] /\ cpu'[d] = cpu[d]
              /\ Awaited(b, d)' <=> Awaited(b, d)
              /\ Engaged(b, d)' <=> Engaged(b, d)
  <2>1. pc'[d] = pc[d] /\ cpu'[d] = cpu[d] /\ pc'[b] # "start"
    BY <1>4, <1>5, <1>10, <1>12 DEF SameBut, Broadcast
  <2> QED
    BY <1>1, <1>2, <1>5, <2>1 DEF Awaited, Engaged, Run
<1>13. ASSUME NEW d \in Cpus, d # b, pc'[d] \in Joined
       PROVE  ApWorks(b, d)'
  <2>0. pc'[b] # "start"
    BY <1>5 DEF Broadcast
  <2>1. CASE d = c
    BY <1>5, <1>7, <1>8, <1>10, <1>11, <2>0, <2>1 DEF ApWorks
  <2>2. CASE d # c
    <3>1. pc'[d] = pc[d] /\ cpu'[d] = cpu[d] /\ ApWorks(b, d)
      BY <1>2, <1>12, <1>13, <2>2, Leads
    <3>2. Awaited(b, d) => cpu[d].proc \in started' /\ d \in assigned'[cpu[d].proc]
      <4>1. Awaited(b, d) => cpu[d].proc \in started /\ d \in assigned[cpu[d].proc]
        BY <1>2, <3>1 DEF ApWorks
      <4> QED
        BY <1>1, <1>7, <1>8, <4>1 DEF started
    <3> QED
      BY <1>5, <1>12, <1>13, <2>0, <2>2, <3>1, <3>2 DEF ApWorks
  <2> QED
    BY <2>1, <2>2
<1>14. ASSUME NEW j \in started'
       PROVE  ProcedureKept(b, j)'
  <2>1. CASE j = k
    <3>1. token'[k] = None => pc'[b] = "blocked"
      BY <1>4, <1>7, Markers DEF next
    <3>2. Cardinality({c}) = 1
      BY FS_Singleton
    <3>3. pc'[c] \in Joined
      BY <1>11 DEF Joined, ApPcs
    <3>4. token'[k] # None => token'[k] = Cardinality(assigned'[k])
      BY <1>7, <3>2
    <3>5. ASSUME NEW d \in assigned'[k]
          PROVE  d # b /\ pc'[d] \in Joined /\ Awaited(b, d)' /\ cpu'[d].proc = k
      BY <1>1, <1>7, <1>10, <1>11, <3>3, <3>5
    <3>6. assigned'[k] \subseteq bsp'.waitFor
      BY <1>6, <1>7
    <3> QED
      BY <1>5, <2>1, <3>1, <3>4, <3>5, <3>6 DEF ProcedureKept
  <2>2. CASE j # k
    <3>1. j \in started /\ j \in Procedures
      BY <1>8, <1>14, <2>2 DEF started
    <3>2. ProcedureKept(b, j) /\ assigned[j] \in SUBSET Cpus
      BY <1>3, <3>1 DEF Works, started, Typed
    <3>3. ASSUME NEW d \in assigned[j]
          PROVE  d # b /\ pc'[d] \in Joined /\ Awaited(b, d)' /\ cpu'[d].proc = j
      <4>1. d \in Cpus /\ d # b /\ pc[d] \in Joined /\ Awaited(b, d) /\ cpu[d].proc = j
        BY <3>2, <3>3 DEF ProcedureKept
      <4>2. d # c
        BY <1>9, <4>1
      <4> QED
        BY <1>12, <4>1, <4>2
    <3>4. token[j] = None => assigned[j] = {}
      BY <1>1, <3>2 DEF ProcedureKept
    <3>5. token[j] # None => token[j] = Cardinality(assigned[j])
      BY <1>1, <3>2 DEF ProcedureKept
    <3> QED
      BY <1>5, <1>7, <2>2, <3>1, <3>3, <3>4, <3>5 DEF ProcedureKept
  <2> QED
    BY <2>1, <2>2
<1>15. BroadcastKept(b)'
  BY <1>5 DEF BroadcastKept, Broadcast
<1>16. Works(b)'
  BY <1>13, <1>14, <1>15 DEF Works
<1> QED
  BY <1>5, <1>16, WorksRestored

(* The procedures are kept by every step.                                   *)
LEMMA WInvStep ==
  ASSUME SInv, RInv', TraditionalBroadcasts, NEW c \in Cpus, Enter(c) \/ Acts(c)
  PROVE  WInv'
<1>1. Typed /\ RInv /\ \A d \in Cpus : d # c => pc'[d] = pc[d]
  BY Moved DEF SInv
<1>2. CASE Serving(c)
  BY <1>2, StartupThisSteps, StartupAllSteps, AcquireSteps, ScheduleSteps, StartSteps, ReturnSteps
     DEF Serving
<1>3. ASSUME NEW b \in Cpus, pc[b] \in Running, c # b
      PROVE  WInv'
  BY <1>3, OtherSteps
<1>4. CASE pc[c] \in Running /\ ~Serving(c)
  <2>1. HandlersDone(c) \/ Drained(c)
    <3>1. CASE Enter(c) \/ SmiRendezvous(c)
      BY <1>4, <3>1 DEF SmiRendezvous, Enter, Sample, CheckIn, Elect, Leave, Step, Running
    <3>2. CASE BSPHandler(c)
      BY <1>4, <3>2 DEF BSPHandler, BspInside, BspPresent, Arrival, ArrivalAgain, SetAllInSync,
         Lockdown, WaitForAllAPs, BspMtrrs, AllPresent, BspExit, ReleaseToExit, BspAbsent, GatherEnd,
         Reopen, Step, Running
    <3>3. CASE APHandler(c)
      BY <1>4, <3>3 DEF APHandler, SeeBsp, BspTimeout, GiveUp, ApPresent, ApSignal, ApMtrrs, ApWake,
         ApReset, ApCheck, ApExec, ApIdle, Step, Running
    <3> QED
      BY <1>4, <3>1, <3>2, <3>3 DEF Acts
  <2>2. CASE Drained(c)
    <3>1. pc[c] = "drain" /\ NotBusy
      BY <2>2 DEF Drained, Step
    <3>2. Resting
      BY <3>1, DrainedRests
    <3>3. pc'[c] \in {"exit", "lock"}
      BY <1>1, <2>2, Went DEF Drained, Step
    <3>4. \A b \in Cpus : b # c => pc[b] \notin Running
      BY <3>1, Leads DEF Leading, BspPcs, Running
    <3>5. \A b \in Cpus : pc'[b] \in Running => pc[b] \notin Running
      BY <1>1, <3>3, <3>4 DEF Running
    <3>6. ~ApExec(c)
      BY <3>1 DEF ApExec, Step
    <3> QED
      BY <1>4, <3>2, <3>5, <3>6, RestSteps
  <2> QED
    BY <2>1, <2>2, ReturnSteps
<1>5. CASE (\A b \in Cpus : pc[b] \notin Running) /\ ~Serving(c)
  <2>1. Resting
    BY <1>5, AtRest
  <2>2. ~ApExec(c)
    <3>1. SUFFICES ASSUME pc[c] = "apExec"
                   PROVE  FALSE
      BY DEF ApExec, Step
    <3>2. pc[c] \in Joined /\ pc[c] \notin Waiting
      BY <3>1 DEF Joined, ApPcs, Waiting
    <3>3. PICK b \in Cpus : b # c /\ Led(b)
      BY <3>2, HasBsp
    <3>4. Follows(config, pc[b], "apExec", cpu[c].run)
      BY <3>1, <3>2, <3>3 DEF Led, Others, Run
    <3>5. pc[b] \in Running
      BY <3>4 DEF Follows
    <3> QED
      BY <1>5, <3>5
  <2> QED
    BY <1>5, <2>1, <2>2, RestSteps
<1> QED
  BY <1>2, <1>3, <1>4, <1>5

-----------------------------------------------------------------------------
(* The invariant                                                            *)

(* Every call of a procedure is one that was asked for.                     *)
LEMMA Calls ==
  ASSUME SInv
  PROVE  Given
<1> SUFFICES ASSUME NEW c \in Cpus, pc[c] = "apExec"
             PROVE  cpu[c].proc \in started /\ c \in assigned[cpu[c].proc]
  BY DEF Given
<1>1. pc[c] \in Joined /\ pc[c] \notin Waiting
  BY DEF Joined, ApPcs, Waiting
<1>2. PICK b \in Cpus : b # c /\ Led(b) /\ Works(b)
  BY <1>1, HasBsp
<1>3. Follows(config, pc[b], "apExec", cpu[c].run) /\ ApWorks(b, c)
  BY <1>1, <1>2 DEF Led, Others, Works, Run
<1>4. pc[b] \in Running /\ Awaited(b, c)
  BY <1>3 DEF Follows, Awaited
<1> QED
  BY <1>1, <1>2, <1>3, <1>4 DEF ApWorks

(* Before the first SMI nobody is in SMM.                                   *)
LEMMA InitSInv == Init => SInv
<1> SUFFICES ASSUME Init PROVE SInv
  OBVIOUS
<1>1. Typed
  BY InitTyped
<1>2. /\ \A c \in Cpus : pc[c] = "out" /\ mtrr[c] = "os"
      /\ \A c \in Cpus : cpu[c].run = 0 /\ cpu[c].present = FALSE
      /\ \A k \in Procedures : assigned[k] = None
  BY DEF Init
<1>3. /\ sync.counter = 0 /\ sync.inside = FALSE
      /\ config.election => sync.bsp = None
  <2>1. PICK d \in IF config.election THEN {None} ELSE Cpus :
          sync = [counter |-> 0, inside |-> FALSE, allInSync |-> FALSE, bsp |-> d]
    BY DEF Init
  <2> QED
    BY <2>1
<1>4. "out" \notin Leading \cup Joined \cup PresentPcs \cup SavedPcs \cup SmmPcs
  BY DEF Leading, Joined, BspPcs, ApPcs, PresentPcs, Waiting, SavedPcs, SmmPcs, Running
<1>5. \A c \in Cpus : Own(c)
  BY <1>2, <1>4 DEF Own, Run, Mtrr
<1>6. NoBsp /\ Members = {}
  BY <1>2, <1>4 DEF NoBsp, Members
<1>7. Open
  <2>1. Cardinality({}) = 0
    BY FS_EmptySet
  <2> QED
    BY <1>2, <1>3, <1>4, <1>6, <2>1 DEF Open
<1>8. Resting
  BY <1>2, <1>4 DEF Resting, started
<1>9. RInv /\ WInv /\ EInv
  BY <1>5, <1>6, <1>7, <1>8 DEF RInv, WInv, EInv, NoBsp
<1> QED
  BY <1>1, <1>9 DEF SInv

(* An SMI adds to whom one is pending for.                                  *)
LEMMA SmiSteps ==
  ASSUME SInv, Smi
  PROVE  SInv'
<1>1. /\ smi' = [count |-> smi.count + 1, status |-> TRUE, pending |-> Cpus] /\ smi.count < MaxSmi
      /\ config' = config /\ pc' = pc /\ valid' = valid /\ sync' = sync /\ cpu' = cpu /\ bsp' = bsp
      /\ mtrr' = mtrr /\ token' = token /\ assigned' = assigned
  BY DEF Smi
<1>2. smi' \in SmiData /\ smi'.pending = Cpus
  <2>1. smi.count \in 0 .. MaxSmi
    BY DEF SInv, Typed, SmiData
  <2>2. smi.count + 1 \in 0 .. MaxSmi
    BY <1>1, <2>1, SmmAssumption
  <2> QED
    BY <1>1, <2>2 DEF SmiData
<1>3. Typed'
  BY <1>1, <1>2 DEF SInv, Typed
<1>4. RInv'
  <2>1. Members' = Members /\ \A b \in Cpus : Owing(b)' = Owing(b)
    BY <1>1 DEF Members, Owing
  <2> QED
    BY <1>1, <2>1 DEF SInv, RInv, Own, Run, NoBsp, Open, Led, Way, Others, Counts
<1>5. WInv'
  <2>1. started' = started
    BY <1>1 DEF started
  <2> QED
    BY <1>1, <2>1 DEF SInv, WInv, NoBsp, Works, ApWorks, Engaged, Awaited, Run, ProcedureKept,
       BroadcastKept, Resting
<1>6. EInv'
  BY <1>1, <1>2 DEF EInv, Excluded
<1> QED
  BY <1>3, <1>4, <1>5, <1>6 DEF SInv

(* Nothing changes, or only ApWrapperFunc.                                  *)
AllButWrap == <<config, smi, pc, valid, sync, cpu, bsp, mtrr, token, assigned>>
LEMMA SmmStutter ==
  ASSUME SInv, UNCHANGED AllButWrap
  PROVE  SInv'
<1>1. /\ smi' = smi
      /\ config' = config /\ pc' = pc /\ valid' = valid /\ sync' = sync /\ cpu' = cpu /\ bsp' = bsp
      /\ mtrr' = mtrr /\ token' = token /\ assigned' = assigned
  BY DEF AllButWrap
<1>2. Typed'
  BY <1>1 DEF SInv, Typed
<1>3. RInv'
  <2>1. Members' = Members /\ \A b \in Cpus : Owing(b)' = Owing(b)
    BY <1>1 DEF Members, Owing
  <2> QED
    BY <1>1, <2>1 DEF SInv, RInv, Own, Run, NoBsp, Open, Led, Way, Others, Counts
<1>4. WInv'
  <2>1. started' = started
    BY <1>1 DEF started
  <2> QED
    BY <1>1, <2>1 DEF SInv, WInv, NoBsp, Works, ApWorks, Engaged, Awaited, Run, ProcedureKept,
       BroadcastKept, Resting
<1>5. EInv'
  BY <1>1 DEF SInv, EInv, Excluded
<1> QED
  BY <1>2, <1>3, <1>4, <1>5 DEF SInv

(* A step in SMM is one of those above, or stores to ApWrapperFunc.         *)
Storing(b) == \E c \in Cpus, k \in Procedures : StoreWrapper(b, c, k)
LEMMA Does ==
  ASSUME Typed, NEW c \in Cpus, Inside(c)
  PROVE  Acts(c) \/ (Storing(c) /\ UNCHANGED AllButWrap)
<1>1. config.block \in BOOLEAN
  BY SmmAssumption DEF Typed
<1>2. CASE Handlers(c)
  <2>1. ASSUME NEW d \in Cpus, NEW k \in Procedures, SmmStartupThisAp(c, d, k)
        PROVE  Serving(c)
    BY <1>1, <2>1 DEF SmmStartupThisAp, Serving
  <2>2. ASSUME NEW d \in Cpus, NEW k \in Procedures, StoreWrapper(c, d, k)
        PROVE  Storing(c) /\ UNCHANGED AllButWrap
    BY <2>2 DEF StoreWrapper, Storing, AllButWrap
  <2>3. ASSUME NEW d \in Cpus, NEW k \in Procedures, NEW blocking \in BOOLEAN,
               StartupThisAp(c, d, k, blocking)
        PROVE  Serving(c)
    BY <2>3 DEF StartupThisAp, Serving
  <2>4. Serving(c) \/ (Storing(c) /\ UNCHANGED AllButWrap)
    BY <1>2, <2>1, <2>2, <2>3 DEF Handlers, Serving
  <2> QED
    BY <2>4 DEF Acts
<1> QED
  BY <1>2 DEF Inside, Acts

(* The invariant is inductive.                                              *)
LEMMA SInvStep ==
  ASSUME SInv, TraditionalBroadcasts, [Next /\ Timing]_vars
  PROVE  SInv'
<1>1. CASE Smi
  BY <1>1, SmiSteps
<1>2. ASSUME NEW c \in Cpus, Timing, Enter(c) \/ Acts(c)
      PROVE  SInv'
  <2>1. Typed'
    BY <1>2, Calls, BspTyped, ApTyped DEF SInv, Acts
  <2>2. RInv'
    BY <1>2, <2>1, RInvStep
  <2>3. WInv' /\ EInv'
    BY <1>2, <2>2, WInvStep, EInvStep
  <2> QED
    BY <2>1, <2>2, <2>3 DEF SInv
<1>3. CASE UNCHANGED AllButWrap
  BY <1>3, SmmStutter
<1>4. CASE UNCHANGED vars
  BY <1>3, <1>4 DEF vars, AllButWrap
<1>5. Typed
  BY DEF SInv
<1> QED
  BY <1>1, <1>2, <1>3, <1>4, <1>5, Does DEF Next

-----------------------------------------------------------------------------
(* Theorems                                                                 *)

(* The invariant holds in every reachable state.                            *)
LEMMA Invariant ==
  ASSUME TraditionalBroadcasts
  PROVE  TimelySpec => []SInv
<1>1. Init => SInv
  BY InitSInv
<1>2. SInv /\ [Next /\ Timing]_vars => SInv'
  BY SInvStep
<1> QED
  BY <1>1, <1>2, PTL DEF TimelySpec

(* One processor at a time is in BSPHandler, up to the store that reopens the
   counter, and BspIndex names it: whatever the order in which processors come,
   and whether or not the BSP is elected.                                   *)
THEOREM OneBspHolds ==
  ASSUME TraditionalBroadcasts
  PROVE  TimelySpec => []OneBsp
<1>1. SInv => OneBsp
  <2> SUFFICES ASSUME SInv, NEW c \in Cpus, NEW d \in Cpus
               PROVE  /\ pc[c] \in Leading /\ pc[d] \in Leading => c = d
                      /\ pc[c] \in BspPcs \ {"reopen", "unsync"} => sync.bsp = c
    BY DEF OneBsp, Leading
  <2>1. pc[c] \in Leading => Led(c) /\ \A e \in Cpus : e # c => pc[e] \notin Leading
    BY Leads
  <2> QED
    BY <2>1 DEF Led, Way, Leading
<1> QED
  BY <1>1, Invariant, PTL

(* A processor leaves SmiRendezvous with its Run semaphore used up and marked
   absent, as the assertion at its end says: no release of ReleaseAllAPs or of
   an AP is one too many or comes too late.                                 *)
THEOREM SemaphoresDrainedHolds ==
  ASSUME TraditionalBroadcasts
  PROVE  TimelySpec => []SemaphoresDrained
<1>1. SInv => SemaphoresDrained
  <2> SUFFICES ASSUME SInv, NEW c \in Cpus, pc[c] \in Outside
               PROVE  Run(c) = 0 /\ ~cpu[c].present
    BY DEF SemaphoresDrained
  <2>1. Own(c)
    BY DEF SInv, RInv
  <2>2. pc[c] \notin Leading \cup Joined
    BY DEF Outside, Leading, Joined, BspPcs, ApPcs
  <2> QED
    BY <2>1, <2>2 DEF Own, PresentPcs
<1> QED
  BY <1>1, Invariant, PTL

(* SmmStartupThisAp and its wrapper.  A procedure it started and that was not
   overwritten is in ApWrapperFunc until its processor has called it; the call
   in progress has stored its own there; and where SmmStartupThisAp blocks
   nothing is overwritten.                                                  *)
WrapData == [func : [Cpus -> Procedures \cup {None}],
             call : [cpu : Cpus, proc : Procedures] \cup {None},
             calls : SUBSET Procedures, lost : SUBSET Procedures]
Wrapping ==
  /\ wrap \in WrapData
  /\ wrap.calls \subseteq started /\ wrap.lost \subseteq wrap.calls
  /\ \A c \in Cpus, k \in Procedures :
       wrap.call = [cpu |-> c, proc |-> k] => k \notin started /\ wrap.func[c] = k
  /\ \A k \in wrap.calls \ wrap.lost : \A c \in assigned[k] : wrap.func[c] = k
  /\ config.block => wrap.lost = {} /\ \A k \in wrap.calls : token[k] = None
  /\ bsp.proc \in (started \cup {None}) \ wrap.calls

(* Only SmmStartupThisAp touches it.                                        *)
LEMMA WrapSame ==
  ASSUME NEW c \in Cpus, Enter(c) \/ Inside(c)
  PROVE  \/ wrap' = wrap
         \/ \E d \in Cpus, k \in Procedures : StoreWrapper(c, d, k) \/ SmmStartupThisAp(c, d, k)
<1>1. CASE Enter(c) \/ SmiRendezvous(c)
  BY <1>1 DEF SmiRendezvous, Enter, Sample, CheckIn, Elect, Leave
<1>2. CASE BSPHandler(c)
  BY <1>2 DEF BSPHandler, BspInside, BspPresent, Arrival, ArrivalAgain, SetAllInSync, Lockdown,
     WaitForAllAPs, BspMtrrs, HandlersDone, Drained, AllPresent, BspExit, ReleaseToExit, BspAbsent,
     GatherEnd, Reopen
<1>3. CASE Handlers(c)
  BY <1>3 DEF Handlers, StartupThisAp, StartupAllAPs, AcquireAllBusy, ScheduleAll, StartAll, Unblock
<1>4. CASE APHandler(c)
  BY <1>4 DEF APHandler, SeeBsp, BspTimeout, GiveUp, ApPresent, ApSignal, ApMtrrs, ApWake, ApReset,
     ApCheck, ApExec, ApIdle
<1> QED
  BY <1>1, <1>2, <1>3, <1>4 DEF Inside

(* A step that leaves it alone, starts nothing that is about to be stored there,
   and gives no procedure to anyone new.                                    *)
LEMMA WrapKept ==
  ASSUME Wrapping, wrap' = wrap, config' = config, bsp'.proc = bsp.proc,
         \A k \in started : k \in started',
         \A k \in wrap.calls : assigned'[k] \subseteq assigned[k] /\ (token[k] = None => token'[k] = None),
         wrap.call = None \/ started' = started
  PROVE  Wrapping'
<1>1. wrap.calls' = wrap.calls /\ wrap.lost' = wrap.lost /\ wrap.func' = wrap.func /\ wrap.call' = wrap.call
  OBVIOUS
<1>2. \A c \in Cpus, k \in Procedures :
        wrap.call = [cpu |-> c, proc |-> k] => k \notin started' /\ wrap.func[c] = k
  <2>1. CASE wrap.call = None
    BY <2>1, Markers
  <2>2. CASE started' = started
    BY <2>2 DEF Wrapping
  <2> QED
    BY <2>1, <2>2
<1>3. bsp'.proc \in (started' \cup {None}) \ wrap.calls
  BY DEF Wrapping
<1>4. \A k \in wrap.calls \ wrap.lost : \A c \in assigned'[k] : wrap.func[c] = k
  BY DEF Wrapping
<1>5. config.block => wrap.lost = {} /\ \A k \in wrap.calls : token'[k] = None
  BY DEF Wrapping
<1>6. wrap \in WrapData /\ wrap.calls \subseteq started' /\ wrap.lost \subseteq wrap.calls
  BY DEF Wrapping
<1> QED
  BY <1>1, <1>2, <1>3, <1>4, <1>5, <1>6 DEF Wrapping

(* Steps other than those of SmmStartupThisAp.                              *)
LEMMA ProcKept ==
  ASSUME Typed, NEW c \in Cpus, Enter(c) \/ Acts(c), ~Serving(c)
  PROVE  bsp'.proc = bsp.proc
<1>1. bsp \in BspData
  BY DEF Typed
<1>2. bsp' = bsp \/ (\E n : bsp' = [bsp EXCEPT !.apCount = n]) \/ (\E S : bsp' = [bsp EXCEPT !.waitFor = S])
  <2>1. CASE Enter(c) \/ SmiRendezvous(c)
    BY <2>1 DEF SmiRendezvous, Enter, Sample, CheckIn, Elect, Leave
  <2>2. CASE BSPHandler(c)
    BY <2>2 DEF BSPHandler, BspInside, BspPresent, Arrival, ArrivalAgain, SetAllInSync, Lockdown,
       WaitForAllAPs, BspMtrrs, HandlersDone, Drained, AllPresent, BspExit, ReleaseToExit, BspAbsent,
       GatherEnd, Reopen
  <2>3. CASE APHandler(c)
    BY <2>3 DEF APHandler, SeeBsp, BspTimeout, GiveUp, ApPresent, ApSignal, ApMtrrs, ApWake, ApReset,
       ApCheck, ApExec, ApIdle
  <2> QED
    BY <2>1, <2>2, <2>3 DEF Acts
<1> QED
  BY <1>1, <1>2 DEF BspData
LEMMA GivenSame ==
  ASSUME Wrapping, wrap' = wrap, config' = config, bsp'.proc = bsp.proc,
         assigned' = assigned, token' = token
  PROVE  Wrapping'
<1>1. started' = started
  BY DEF started
<1>2. \A k \in wrap.calls : assigned'[k] \subseteq assigned[k] /\ (token[k] = None => token'[k] = None)
  OBVIOUS
<1> QED
  BY <1>1, <1>2, WrapKept
LEMMA WrapApExec ==
  ASSUME SInv, Wrapping, NEW c \in Cpus, ApExec(c)
  PROVE  Wrapping'
<1> DEFINE k == cpu[c].proc
<1>1. /\ assigned' = [assigned EXCEPT ![k] = @ \ {c}]
      /\ token' = [token EXCEPT ![k] = IF @ = None THEN None ELSE @ - 1]
      /\ wrap' = wrap /\ config' = config /\ bsp' = bsp
  BY DEF ApExec
<1>2. k \in started /\ k \in Procedures /\ assigned[k] \in SUBSET Cpus
  BY Calls DEF Given, ApExec, Step, started, SInv, Typed
<1>3. assigned \in [Procedures -> (SUBSET Cpus) \cup {None}] /\ token \in [Procedures -> Int \cup {None}]
  BY DEF SInv, Typed
<1>4. /\ assigned'[k] = assigned[k] \ {c} /\ (token[k] = None => token'[k] = None)
      /\ \A j \in Procedures : j # k => assigned'[j] = assigned[j] /\ token'[j] = token[j]
  BY <1>1, <1>2, <1>3
<1>5. assigned'[k] # None
  BY <1>2, <1>4, Markers
<1>6. started' = started
  BY <1>2, <1>4, <1>5 DEF started
<1>7. wrap.calls \subseteq Procedures
  BY DEF Wrapping, WrapData
<1>8. \A j \in wrap.calls : assigned'[j] \subseteq assigned[j] /\ (token[j] = None => token'[j] = None)
  BY <1>4, <1>7
<1> QED
  BY <1>1, <1>6, <1>8, WrapKept

(* The calls of InternalSmmStartupThisAp and InternalSmmStartupAllAPs.      *)
LEMMA StartedNew ==
  ASSUME SInv, Wrapping, NEW k \in Procedures, k \notin started, NEW S \in SUBSET Cpus, NEW n,
         assigned' = [assigned EXCEPT ![k] = S], token' = [token EXCEPT ![k] = n]
  PROVE  /\ started' = started \cup {k} /\ k \notin wrap.calls
         /\ assigned'[k] = S /\ token'[k] = n
         /\ \A j \in wrap.calls : assigned'[j] = assigned[j] /\ token'[j] = token[j]
<1>1. assigned \in [Procedures -> (SUBSET Cpus) \cup {None}] /\ token \in [Procedures -> Int \cup {None}]
  BY DEF SInv, Typed
<1>2. S # None
  BY Markers
<1>3. assigned'[k] = S /\ \A j \in Procedures : j # k => assigned'[j] = assigned[j] /\ token'[j] = token[j]
  BY <1>1
<1>4. started' = started \cup {k}
  BY <1>2, <1>3 DEF started
<1>5. k \notin wrap.calls /\ wrap.calls \subseteq Procedures
  BY DEF Wrapping, WrapData
<1>6. token'[k] = n
  BY <1>1
<1> QED
  BY <1>3, <1>4, <1>5, <1>6
LEMMA WrapStartups ==
  ASSUME SInv, Wrapping, NEW b \in Cpus, NEW k \in Procedures, NEW blocking \in BOOLEAN,
         (\E c \in Cpus : StartupThisAp(b, c, k, blocking)) \/ StartupAllAPs(b, k, blocking)
  PROVE  Wrapping'
<1>1. wrap.call = None /\ wrap' = wrap /\ config' = config /\ k \notin started
  BY DEF StartupThisAp, StartupAllAPs, InternalSmmStartupThisAp, NewProcedure
<1>2. bsp \in BspData
  BY DEF SInv, Typed
<1>3. \E S \in SUBSET Cpus : /\ assigned' = [assigned EXCEPT ![k] = S]
                             /\ \E n : token' = [token EXCEPT ![k] = n]
  <2>1. \A c \in Cpus : {c} \in SUBSET Cpus
    OBVIOUS
  <2>2. {} \in SUBSET Cpus
    OBVIOUS
  <2> QED
    BY <2>1, <2>2 DEF StartupThisAp, StartupAllAPs, InternalSmmStartupThisAp
<1>4. /\ started' = started \cup {k} /\ k \notin wrap.calls
      /\ \A j \in wrap.calls : assigned'[j] = assigned[j] /\ token'[j] = token[j]
  BY <1>1, <1>3, StartedNew
<1>5. bsp'.proc \in {k, bsp.proc}
  BY <1>2 DEF StartupThisAp, StartupAllAPs, InternalSmmStartupThisAp, BspData
<1>6. \A c \in Cpus, j \in Procedures : wrap.call # [cpu |-> c, proc |-> j]
  BY <1>1, Markers
<1>7. /\ wrap.calls' = wrap.calls /\ wrap.lost' = wrap.lost /\ wrap.func' = wrap.func
      /\ wrap.call' = wrap.call /\ config.block' = config.block
  BY <1>1
<1>8. bsp'.proc \in (started' \cup {None}) \ wrap.calls
  BY <1>4, <1>5 DEF Wrapping
<1>9. \A j \in wrap.calls \ wrap.lost : \A c \in assigned'[j] : wrap.func[c] = j
  BY <1>4 DEF Wrapping
<1>10. config.block => wrap.lost = {} /\ \A j \in wrap.calls : token'[j] = None
  BY <1>4 DEF Wrapping
<1>11. wrap' \in WrapData /\ wrap.calls \subseteq started' /\ wrap.lost \subseteq wrap.calls
  BY <1>1, <1>4 DEF Wrapping
<1> QED
  BY <1>6, <1>7, <1>8, <1>9, <1>10, <1>11 DEF Wrapping
LEMMA WrapSchedule ==
  ASSUME SInv, Wrapping, NEW b \in Cpus, ScheduleAll(b)
  PROVE  Wrapping'
<1> DEFINE k == bsp.proc
<1>1. /\ assigned' = [assigned EXCEPT ![k] = PresentAps(b)] /\ \E n : token' = [token EXCEPT ![k] = n]
      /\ wrap' = wrap /\ config' = config /\ bsp' = bsp
  BY DEF ScheduleAll, PresentAps
<1>2. pc[b] = "schedule"
  BY DEF ScheduleAll, Step
<1>3. pc[b] \in Leading
  BY <1>2 DEF Leading, BspPcs
<1>4. k \in Procedures /\ k \in started
  BY <1>2, <1>3, Leads DEF Works, BroadcastKept, Broadcast, started
<1>5. assigned \in [Procedures -> (SUBSET Cpus) \cup {None}] /\ token \in [Procedures -> Int \cup {None}]
  BY DEF SInv, Typed
<1>6. PresentAps(b) # None
  BY Markers DEF PresentAps
<1>7. /\ assigned'[k] # None
      /\ \A j \in Procedures : j # k => assigned'[j] = assigned[j] /\ token'[j] = token[j]
  BY <1>1, <1>4, <1>5, <1>6
<1>8. started' = started
  BY <1>4, <1>7 DEF started
<1>9. wrap.calls \subseteq Procedures /\ k \notin wrap.calls
  BY DEF Wrapping, WrapData
<1>10. \A j \in wrap.calls : assigned'[j] \subseteq assigned[j] /\ (token[j] = None => token'[j] = None)
  BY <1>7, <1>9
<1> QED
  BY <1>1, <1>8, <1>10, WrapKept

(* SmmStartupThisAp: the store, ...                                         *)
LEMMA WrapStore ==
  ASSUME SInv, Wrapping, NEW b \in Cpus, NEW c \in Cpus, NEW k \in Procedures, StoreWrapper(b, c, k)
  PROVE  Wrapping'
<1>1. /\ pc[b] = "handlers" /\ k \notin started /\ UNCHANGED AllButWrap
      /\ wrap' = [wrap EXCEPT !.func[c] = k, !.call = [cpu |-> c, proc |-> k],
                              !.lost = @ \cup Unread(c)]
  BY DEF StoreWrapper, NewProcedure, AllButWrap
<1>2. wrap \in WrapData
  BY DEF Wrapping
<1>3. /\ wrap'.func = [wrap.func EXCEPT ![c] = k] /\ wrap'.call = [cpu |-> c, proc |-> k]
      /\ wrap'.calls = wrap.calls /\ wrap'.lost = wrap.lost \cup Unread(c)
  BY <1>1, <1>2 DEF WrapData
<1>4. Unread(c) \subseteq wrap.calls
  BY DEF Unread
<1>5. wrap' \in WrapData
  <2>1. [wrap.func EXCEPT ![c] = k] \in [Cpus -> Procedures \cup {None}]
    BY <1>2 DEF WrapData
  <2>2. wrap.lost \cup Unread(c) \in SUBSET Procedures
    BY <1>2, <1>4 DEF WrapData
  <2>3. wrap' = [func |-> [wrap.func EXCEPT ![c] = k], call |-> [cpu |-> c, proc |-> k],
                 calls |-> wrap.calls, lost |-> wrap.lost \cup Unread(c)]
    BY <1>1, <1>2 DEF WrapData
  <2> QED
    BY <1>2, <2>1, <2>2, <2>3 DEF WrapData
<1>6. started' = started /\ assigned' = assigned /\ token' = token /\ config' = config /\ bsp' = bsp
  BY <1>1 DEF started, AllButWrap
<1>7. wrap.func \in [Cpus -> Procedures \cup {None}]
  BY <1>2 DEF WrapData
<1>8. \A d \in Cpus, j \in Procedures :
        wrap'.call = [cpu |-> d, proc |-> j] => j \notin started /\ wrap'.func[d] = j
  BY <1>1, <1>3, <1>7
<1>9. ASSUME NEW j \in wrap'.calls \ wrap'.lost, NEW d \in assigned[j]
      PROVE  wrap'.func[d] = j
  <2>1. j \in wrap.calls \ wrap.lost /\ d # c
    BY <1>3, <1>9 DEF Unread
  <2>2. j \in started
    BY <2>1 DEF Wrapping
  <2>3. assigned[j] \in SUBSET Cpus
    BY <2>2 DEF started, SInv, Typed
  <2>4. d \in Cpus /\ wrap.func[d] = j
    BY <1>9, <2>1, <2>3 DEF Wrapping
  <2> QED
    BY <1>3, <1>7, <2>1, <2>4
<1>10. config.block => wrap'.lost = {} /\ \A j \in wrap'.calls : token[j] = None
  <2>1. SUFFICES ASSUME config.block PROVE Unread(c) = {}
    BY <1>3 DEF Wrapping
  <2>2. pc[b] \in Leading
    BY <1>1 DEF Leading, BspPcs
  <2>3. ASSUME NEW j \in wrap.calls
        PROVE  assigned[j] = {}
    <3>1. j \in started /\ token[j] = None
      BY <2>1 DEF Wrapping
    <3>2. ProcedureKept(b, j)
      BY <2>2, <3>1, Leads DEF Works
    <3> QED
      BY <1>1, <3>1, <3>2 DEF ProcedureKept
  <2> QED
    BY <2>3 DEF Unread
<1>11. wrap'.calls \subseteq started /\ wrap'.lost \subseteq wrap'.calls
  BY <1>3, <1>4 DEF Wrapping
<1>12. bsp.proc \in (started \cup {None}) \ wrap'.calls
  BY <1>3 DEF Wrapping
<1> QED
  BY <1>5, <1>6, <1>8, <1>9, <1>10, <1>11, <1>12 DEF Wrapping

(* ... and the start of the wrapper.                                        *)
LEMMA WrapStart ==
  ASSUME SInv, Wrapping, NEW b \in Cpus, NEW c \in Cpus, NEW k \in Procedures, SmmStartupThisAp(b, c, k)
  PROVE  Wrapping'
<1>1. /\ wrap.call = [cpu |-> c, proc |-> k] /\ k \notin started
      /\ wrap' = [wrap EXCEPT !.call = None, !.calls = @ \cup {k}]
      /\ assigned' = [assigned EXCEPT ![k] = {c}] /\ config' = config
      /\ token' = [token EXCEPT ![k] = IF config.block THEN None ELSE 1]
      /\ bsp' = [bsp EXCEPT !.waitFor = {c}]
  BY DEF SmmStartupThisAp, InternalSmmStartupThisAp, NewProcedure
<1>2. wrap \in WrapData /\ bsp \in BspData
  BY DEF Wrapping, SInv, Typed
<1>3. wrap'.func = wrap.func /\ wrap'.call = None /\ wrap'.calls = wrap.calls \cup {k} /\ wrap'.lost = wrap.lost
  BY <1>1, <1>2 DEF WrapData
<1>4. wrap' \in WrapData
  BY <1>1, <1>2 DEF WrapData
<1>5. {c} \in SUBSET Cpus
  OBVIOUS
<1>6. /\ started' = started \cup {k} /\ k \notin wrap.calls
      /\ assigned'[k] = {c} /\ (config.block => token'[k] = None)
      /\ \A j \in wrap.calls : assigned'[j] = assigned[j] /\ token'[j] = token[j]
  BY <1>1, <1>5, StartedNew
<1>7. wrap.func[c] = k
  BY <1>1 DEF Wrapping
<1>8. \A d \in Cpus, j \in Procedures : wrap'.call # [cpu |-> d, proc |-> j]
  BY <1>3, Markers
<1>9. \A j \in wrap'.calls \ wrap'.lost : \A d \in assigned'[j] : wrap'.func[d] = j
  BY <1>3, <1>6, <1>7 DEF Wrapping
<1>10. config'.block => wrap'.lost = {} /\ \A j \in wrap'.calls : token'[j] = None
  BY <1>1, <1>3, <1>6 DEF Wrapping
<1>11. wrap'.calls \subseteq started' /\ wrap'.lost \subseteq wrap'.calls
  BY <1>3, <1>6 DEF Wrapping
<1>12. bsp'.proc \in (started' \cup {None}) \ wrap'.calls
  <2>1. bsp'.proc = bsp.proc
    BY <1>1, <1>2 DEF BspData
  <2>2. bsp.proc # k
    BY <1>1, Markers DEF Wrapping
  <2> QED
    BY <1>3, <1>6, <2>1, <2>2 DEF Wrapping
<1> QED
  BY <1>4, <1>8, <1>9, <1>10, <1>11, <1>12 DEF Wrapping

(* What the handlers do is no step of another part.                         *)
LEMMA Apart ==
  ASSUME Typed, NEW c \in Cpus, Serving(c)
  PROVE  ~(Enter(c) \/ SmiRendezvous(c) \/ BSPHandler(c) \/ APHandler(c))
<1>1. pc[c] \in Running /\ pc'[c] \in Running
  BY InHandlers, Went
<1>2. pc'[c] # "drain"
  <2>1. ASSUME NEW d \in Cpus, NEW k \in Procedures, NEW blocking \in BOOLEAN,
               InternalSmmStartupThisAp(c, d, k, blocking)
        PROVE  pc'[c] # "drain"
    <3>1. pc'[c] = IF blocking THEN "blocked" ELSE "handlers"
      BY <2>1, Went DEF InternalSmmStartupThisAp
    <3> QED
      BY <3>1
  <2>2. CASE StartAll(c)
    <3>1. pc'[c] = IF token[bsp.proc] = None THEN "blocked" ELSE "handlers"
      BY <2>2, Went DEF StartAll, Step
    <3> QED
      BY <3>1
  <2>3. CASE \/ \E k \in Procedures, blocking \in BOOLEAN : StartupAllAPs(c, k, blocking)
             \/ AcquireAllBusy(c) \/ ScheduleAll(c) \/ Unblock(c)
    BY <2>3, Went DEF StartupAllAPs, AcquireAllBusy, ScheduleAll, Unblock, Step
  <2> QED
    BY <2>1, <2>2, <2>3 DEF Serving
<1>3. ~(Enter(c) \/ SmiRendezvous(c))
  BY <1>1 DEF SmiRendezvous, Enter, Sample, CheckIn, Elect, Leave, Step, Running
<1>4. ~HandlersDone(c) /\ ~Drained(c)
  <2>1. HandlersDone(c) => pc'[c] = "drain"
    BY Went DEF HandlersDone, Step
  <2>2. Drained(c) => pc'[c] \in {"exit", "lock"}
    BY Went DEF Drained, Step
  <2> QED
    BY <1>1, <1>2, <2>1, <2>2 DEF Running
<1>5. ~BSPHandler(c)
  BY <1>1, <1>4 DEF BSPHandler, BspInside, BspPresent, Arrival, ArrivalAgain, SetAllInSync,
     Lockdown, WaitForAllAPs, BspMtrrs, AllPresent, BspExit, ReleaseToExit, BspAbsent, GatherEnd,
     Reopen, Step, Running
<1>6. ~APHandler(c)
  BY <1>1 DEF APHandler, SeeBsp, BspTimeout, GiveUp, ApPresent, ApSignal, ApMtrrs, ApWake,
     ApReset, ApCheck, ApExec, ApIdle, Step, Running
<1> QED
  BY <1>3, <1>5, <1>6

(* The wrapper's invariant is inductive.                                    *)
LEMMA WrappingStep ==
  ASSUME SInv, Wrapping, [Next]_vars
  PROVE  Wrapping'
<1>0. Typed
  BY DEF SInv
<1>1. CASE Smi \/ UNCHANGED vars
  BY <1>1, GivenSame DEF Smi, vars
<1>2. ASSUME NEW c \in Cpus, Enter(c) \/ Inside(c)
      PROVE  Wrapping'
  <2>1. CASE Handlers(c)
    <3>1. CASE AcquireAllBusy(c) \/ StartAll(c) \/ Unblock(c)
      <4>1. /\ wrap' = wrap /\ config' = config /\ assigned' = assigned /\ token' = token
            /\ bsp' = bsp \/ \E S : bsp' = [bsp EXCEPT !.waitFor = S]
        BY <3>1 DEF AcquireAllBusy, StartAll, Unblock
      <4>2. bsp'.proc = bsp.proc
        BY <1>0, <4>1 DEF Typed, BspData
      <4> QED
        BY <4>1, <4>2, GivenSame
    <3> QED
      BY <2>1, <3>1, WrapStartups, WrapSchedule, WrapStore, WrapStart DEF Handlers
  <2>2. CASE ApExec(c)
    BY <2>2, WrapApExec
  <2>3. CASE ~Handlers(c) /\ ~ApExec(c)
    <3>1. wrap' = wrap
      BY <1>2, <2>3, WrapSame DEF Handlers
    <3>2. Acts(c) \/ Enter(c)
      BY <1>2, <2>3 DEF Inside, Acts
    <3>3. CASE Serving(c)
      BY <1>0, <1>2, <2>3, <3>3, Apart DEF Inside
    <3>4. CASE ~Serving(c)
      BY <1>0, <2>3, <3>1, <3>2, <3>4, NoneGiven, ProcKept, Moved, GivenSame
    <3> QED
      BY <3>3, <3>4
  <2> QED
    BY <2>1, <2>2, <2>3
<1> QED
  BY <1>1, <1>2 DEF Next

(* It holds in every reachable state.                                       *)
LEMMA WrapInvariant ==
  ASSUME TraditionalBroadcasts
  PROVE  TimelySpec => []Wrapping
<1>1. Init => Wrapping
  <2> SUFFICES ASSUME Init PROVE Wrapping
    OBVIOUS
  <2>1. /\ wrap = [func |-> [c \in Cpus |-> None], call |-> None, calls |-> {}, lost |-> {}]
        /\ bsp.proc = None
    BY DEF Init
  <2>2. wrap \in WrapData
    BY <2>1 DEF WrapData
  <2>3. \A c \in Cpus, k \in Procedures : wrap.call # [cpu |-> c, proc |-> k]
    BY <2>1, Markers
  <2> QED
    BY <2>1, <2>2, <2>3 DEF Wrapping
<1>2. SInv /\ Wrapping /\ [Next /\ Timing]_vars => Wrapping'
  BY WrappingStep
<1> QED
  BY <1>1, <1>2, Invariant, PTL DEF TimelySpec

(* APHandler calls a procedure only when it was given to this processor, and
   calls it once.  One that SmmStartupThisAp started is still the one the
   wrapper finds, unless the call does not block and another was made for the
   processor before it had called this one.                                 *)
THEOREM ProcedureOnceHolds ==
  ASSUME TraditionalBroadcasts
  PROVE  TimelySpec => []ProcedureOnce
<1>1. SInv /\ Wrapping => ProcedureOnce
  <2> SUFFICES ASSUME SInv, Wrapping, NEW c \in Cpus, pc[c] = "apExec"
               PROVE  /\ cpu[c].proc \in started /\ c \in assigned[cpu[c].proc]
                      /\ Callee(c) = cpu[c].proc \/ (~config.block /\ cpu[c].proc \in wrap.lost)
    BY DEF ProcedureOnce
  <2>1. cpu[c].proc \in started /\ c \in assigned[cpu[c].proc]
    BY Calls DEF Given
  <2>2. config.block => wrap.lost = {}
    BY DEF Wrapping
  <2>3. cpu[c].proc \in wrap.calls \ wrap.lost => wrap.func[c] = cpu[c].proc
    BY <2>1 DEF Wrapping
  <2> QED
    BY <2>1, <2>2, <2>3 DEF Callee
<1> QED
  BY <1>1, Invariant, WrapInvariant, PTL

(* A blocking call returns, and the BSP leaves SMM, with every procedure called
   by every processor it was given to, and every token released.            *)
THEOREM ProceduresDoneHolds ==
  ASSUME TraditionalBroadcasts
  PROVE  TimelySpec => []ProceduresDone
<1>1. SInv => ProceduresDone
  <2> SUFFICES ASSUME SInv PROVE ProceduresDone
    OBVIOUS
  <2>1. ASSUME NEW b \in Cpus, pc[b] = "handlers", NEW k \in started, token[k] = None
        PROVE  assigned[k] = {}
    <3>1. pc[b] \in Leading
      BY <2>1 DEF Leading, BspPcs
    <3>2. ProcedureKept(b, k)
      BY <2>1, <3>1, Leads DEF Works
    <3> QED
      BY <2>1, <3>2 DEF ProcedureKept
  <2>2. ASSUME ~sync.inside
        PROVE  \A k \in started : assigned[k] = {} /\ token[k] \in {0, None}
    <3>1. ASSUME NEW b \in Cpus, pc[b] \in Running
          PROVE  FALSE
      <4>1. pc[b] \in Leading /\ pc[b] \in InsidePcs
        BY <3>1 DEF Running, Leading, BspPcs, InsidePcs, Restoring, Ending
      <4> QED
        BY <2>2, <4>1, Leads DEF Led, Way
    <3> QED
      BY <3>1, AtRest DEF Resting
  <2> QED
    BY <2>1, <2>2 DEF ProceduresDone
<1> QED
  BY <1>1, Invariant, PTL

(* In the modes that gather the processors first, one that is not in SMM while
   the handlers run has an SMI pending: SmmWaitForApArrival has sent it one, or
   has counted it in.                                                       *)
THEOREM NormalModeExcludedHolds ==
  ASSUME TraditionalBroadcasts
  PROVE  TimelySpec => []NormalModeExcluded
<1>1. SInv => NormalModeExcluded
  <2> SUFFICES ASSUME SInv, GatherFirst, NEW b \in Cpus, pc[b] \in Running,
                      NEW c \in Cpus, pc[c] = "out"
               PROVE  c \in smi.pending
    BY DEF NormalModeExcluded
  <2>1. pc[b] \in Leading
    BY DEF Running, Leading, BspPcs
  <2>2. Excluded(b) /\ Gathers(config)
    BY <2>1, Leads DEF GatherFirst, Gathers
  <2> QED
    BY <2>2 DEF Excluded
<1> QED
  BY <1>1, Invariant, PTL

(* The processors that gather to change MTRRs are all before the change, or all
   have saved theirs.                                                       *)
LEMMA MtrrsFollow ==
  ASSUME NEW cf, cf.mtrrs, NEW p \in InsidePcs, OnItsWay(cf, p), NEW q, NEW run, Follows(cf, p, q, run)
  PROVE  /\ p \in SmmPcs \cup SavedPcs \/ q \in SmmPcs =>
              p \in Saving \/ (p \in SmmPcs \cup SavedPcs /\ q \in SmmPcs \cup SavedPcs)
         /\ p \in Saving => q \notin SmmPcs /\ p \notin SmmPcs
<1>1. Gathers(cf) /\ p \in Leading /\ p # "allPresent"
      /\ p \notin Restoring \cup Ending \cup {"bspInside", "release", "gatherExit", "reopen"}
  BY DEF Gathers, OnItsWay, InsidePcs
<1>2. \/ p \in {"bspPresent", "arrival", "arrivalAgain", "lock", "lockdown", "gather"}
      \/ p \in Saving \/ p \in Setting \/ p \in Running \/ p = "exit"
  BY <1>1 DEF Leading, BspPcs, Restoring, Ending, Saving, Setting, Running
<1>3. CASE p \in {"bspPresent", "arrival", "arrivalAgain", "lock", "lockdown", "gather"}
  <2>1. /\ p \notin SmmPcs \cup SavedPcs \cup Saving \cup Setting \cup Running \cup Ending \cup Restoring
        /\ p \notin {"exit", "release", "gatherExit"} /\ ~Leaving(cf, p)
    BY <1>3 DEF SmmPcs, SavedPcs, Saving, Setting, Running, Ending, Restoring, Leaving
  <2>2. q \in {"elect", "waitBsp", "waitBspAgain", "apPresent", "giveUp", "apArrived", "apSave"}
    BY <2>1 DEF Follows
  <2>3. q \notin SmmPcs
    BY <2>2 DEF SmmPcs, Running
  <2> QED
    BY <2>1, <2>3
<1>4. CASE p \in Saving
  <2>1. /\ p \notin SmmPcs /\ ~Early(cf, p) /\ ~Arriving(cf, p) /\ ~Leaving(cf, p)
        /\ p \notin Setting \cup Running \cup Ending \cup Restoring \cup {"exit", "release", "gatherExit"}
    BY <1>1, <1>4 DEF Saving, SmmPcs, Setting, Running, Ending, Restoring, Early, Arriving, Calling, Leaving
  <2>2. q \in {"apSave", "apSaved", "apSet"}
    BY <2>1 DEF Follows
  <2> QED
    BY <1>4, <2>1, <2>2 DEF SmmPcs, Running
<1>5. CASE p \in Setting
  <2>1. /\ ~Early(cf, p) /\ ~Arriving(cf, p) /\ ~Leaving(cf, p) /\ p \in SmmPcs \cup SavedPcs
        /\ p \notin Saving \cup Running \cup Ending \cup Restoring \cup {"exit", "release", "gatherExit"}
    BY <1>1, <1>5 DEF Saving, Setting, Running, Ending, Restoring, Early, Arriving, Calling, Leaving,
       SmmPcs, SavedPcs
  <2>2. q \in {"apSet", "apSetDone", "apLoop"}
    BY <2>1 DEF Follows
  <2> QED
    BY <2>1, <2>2 DEF SmmPcs, SavedPcs
<1>6. CASE p \in Running
  <2>1. q \in {"apLoop", "apCheck", "apExec", "apIdle"}
    BY <1>1, <1>6, WhileRunning
  <2> QED
    BY <1>6, <2>1 DEF SmmPcs, Saving, Running
<1>7. CASE p = "exit"
  <2>1. /\ ~Early(cf, p) /\ ~Arriving(cf, p) /\ ~Leaving(cf, p)
        /\ p \notin Saving \cup Setting \cup Running \cup Ending \cup Restoring \cup {"gatherExit"}
    BY <1>1, <1>7 DEF Saving, Setting, Running, Ending, Restoring, Early, Arriving, Calling, Leaving
  <2>2. q = "apLoop"
    BY <2>1 DEF Follows
  <2> QED
    BY <1>7, <2>1, <2>2 DEF SmmPcs
<1> QED
  BY <1>2, <1>3, <1>4, <1>5, <1>6, <1>7

(* Processors that share MTRRs change them together: none sets its own before
   all that take part have saved theirs, none has its own back while a handler
   or a procedure may run, and all leave with what they came with.          *)
THEOREM MtrrsTogetherHolds ==
  ASSUME TraditionalBroadcasts
  PROVE  TimelySpec => []MtrrsTogether
<1>1. SInv => MtrrsTogether
  <2> SUFFICES ASSUME SInv PROVE MtrrsTogether
    OBVIOUS
  <2>0. \A c \in Cpus : Own(c)
    BY DEF SInv, RInv
  <2>1. ASSUME NEW c \in Cpus, pc[c] \in Outside
        PROVE  mtrr[c] = "os"
    <3>1. pc[c] \notin SavedPcs \cup SmmPcs
      BY <2>1 DEF Outside, SavedPcs, SmmPcs, Running
    <3> QED
      BY <2>0, <3>1 DEF Own, Mtrr
  <2>2. ASSUME config.mtrrs, NEW b \in Cpus, pc[b] \in Running, NEW c \in Cpus, cpu[c].present
        PROVE  mtrr[c] = "smm"
    <3>1. pc[c] \in SmmPcs /\ pc[c] \notin SavedPcs
      <4>1. CASE c = b
        BY <2>2, <4>1 DEF SmmPcs, SavedPcs, Running
      <4>2. CASE c # b
        BY <2>2, <4>2, PresentRunning DEF SmmPcs, SavedPcs
      <4> QED
        BY <4>1, <4>2
    <3> QED
      BY <2>0, <2>2, <3>1 DEF Own, Mtrr
  <2>3. ASSUME NEW c \in Cpus, cpu[c].present, mtrr[c] = "smm", sync.inside,
               NEW d \in Cpus, cpu[d].present
        PROVE  mtrr[d] # "os"
    <3>1. config.mtrrs /\ pc[c] \in SmmPcs
      BY <2>0, <2>3 DEF Own, Mtrr
    <3>2. PICK b \in Cpus : pc[b] \in Leading
      BY <2>3 DEF SInv, RInv, Open, NoBsp
    <3>3. Led(b) /\ \A e \in Cpus : e # b => pc[e] \notin Leading
      BY <3>2, Leads
    <3>4. pc[b] \in InsidePcs /\ OnItsWay(config, pc[b])
      BY <2>3, <3>3 DEF Led, Way
    <3>5. ASSUME NEW e \in Cpus, cpu[e].present, e # b
          PROVE  Follows(config, pc[b], pc[e], cpu[e].run)
      <4>1. pc[e] \in Joined
        BY <2>0, <3>3, <3>5 DEF Own, PresentPcs
      <4> QED
        BY <3>2, <3>5, <4>1, Leads
    <3>6. pc[b] \notin Saving /\ pc[b] \in SmmPcs \cup SavedPcs
      <4>1. CASE c = b
        <5>1. SmmPcs \cap Saving = {}
          BY DEF SmmPcs, Saving, Running
        <5> QED
          BY <3>1, <4>1, <5>1
      <4>2. CASE c # b
        BY <2>3, <3>1, <3>4, <3>5, <4>2, MtrrsFollow
      <4> QED
        BY <4>1, <4>2
    <3>7. pc[d] \in SmmPcs \cup SavedPcs
      <4>1. CASE d = b
        BY <3>6, <4>1
      <4>2. CASE d # b
        BY <2>3, <3>1, <3>4, <3>5, <3>6, <4>2, MtrrsFollow
      <4> QED
        BY <4>1, <4>2
    <3> QED
      BY <2>0, <3>1, <3>7 DEF Own, Mtrr
  <2> QED
    BY <2>1, <2>2, <2>3 DEF MtrrsTogether
<1> QED
  BY <1>1, Invariant, PTL

-----------------------------------------------------------------------------
(* Type correctness                                                         *)

(* What the rendezvous does not count: ApCount after its end, and the tokens of
   procedures nobody has asked for.                                         *)
Limits ==
  /\ bsp.apCount \in 0 .. NumberOfCpus - 1
  /\ \A k \in Procedures \ started : token[k] = None

(* The members are some of the processors.                                  *)
LEMMA MembersBound ==
  /\ Cardinality(Members) \in Nat /\ Cardinality(Members) <= NumberOfCpus
  /\ NumberOfCpus \in Nat /\ NumberOfCpus >= 1
<1>1. Members \in SUBSET Cpus
  BY DEF Members
<1>2. Cardinality(Members) <= Cardinality(Cpus)
  BY <1>1, Markers, FS_Subset
<1>3. Cardinality(Members) \in Nat
  BY <1>1, Few
<1>4. Cpus \in SUBSET Cpus /\ Cpus # {}
  BY SmmAssumption
<1>5. Cardinality(Cpus) \in Nat /\ Cardinality(Cpus) # 0
  BY <1>4, Few
<1> QED
  BY <1>2, <1>3, <1>5 DEF NumberOfCpus

(* LockdownSemaphore counts the BSP and the APs.                            *)
LEMMA ApCountSet ==
  ASSUME SInv, NEW b \in Cpus, Lockdown(b)
  PROVE  bsp'.apCount \in 0 .. NumberOfCpus - 1
<1>1. pc[b] = "lockdown" /\ bsp' = [bsp EXCEPT !.apCount = sync.counter - 1]
  BY DEF Lockdown, Step
<1>2. pc[b] \in Leading /\ ~Closed(config, pc[b])
  BY <1>1 DEF Leading, BspPcs, Closed, Calling
<1>3. Typed /\ sync.counter = Cardinality(Members)
  BY <1>2, Leads DEF Led, Counts
<1>4. b \in Members /\ Members \in SUBSET Cpus
  BY <1>2 DEF Members
<1>5. Cardinality(Members) # 0
  BY <1>4, Few
<1>6. bsp'.apCount = sync.counter - 1
  BY <1>1, <1>3, Parts DEF BspData
<1> QED
  BY <1>3, <1>5, <1>6, MembersBound

LEMMA LimitsStep ==
  ASSUME SInv, Limits, [Next /\ Timing]_vars
  PROVE  Limits'
<1>0. Typed /\ bsp \in BspData
  BY Parts DEF SInv
<1>1. bsp'.apCount \in 0 .. NumberOfCpus - 1
  <2>1. CASE bsp' = bsp
    BY <2>1 DEF Limits
  <2>2. CASE \/ \E S : bsp' = [bsp EXCEPT !.waitFor = S]
             \/ \E k : bsp' = [bsp EXCEPT !.proc = k]
    <3>1. bsp'.apCount = bsp.apCount
      BY <1>0, <2>2 DEF BspData
    <3> QED
      BY <3>1 DEF Limits
  <2>3. ASSUME NEW c \in Cpus, Enter(c) \/ Acts(c)
        PROVE  bsp'.apCount \in 0 .. NumberOfCpus - 1
    <3>1. CASE Enter(c) \/ SmiRendezvous(c)
      BY <2>1, <3>1 DEF SmiRendezvous, Enter, Sample, CheckIn, Elect, Leave
    <3>2. CASE BSPHandler(c)
      BY <2>1, <2>2, <3>2, ApCountSet DEF BSPHandler, BspInside, BspPresent, Arrival, ArrivalAgain,
         SetAllInSync, WaitForAllAPs, BspMtrrs, HandlersDone, Drained, AllPresent, BspExit,
         ReleaseToExit, BspAbsent, GatherEnd, Reopen
    <3>3. CASE Serving(c)
      BY <2>1, <2>2, <3>3 DEF Serving, InternalSmmStartupThisAp, StartupAllAPs, AcquireAllBusy, ScheduleAll,
         StartAll, Unblock
    <3>4. CASE APHandler(c)
      BY <2>1, <3>4 DEF APHandler, SeeBsp, BspTimeout, GiveUp, ApPresent, ApSignal, ApMtrrs, ApWake,
         ApReset, ApCheck, ApExec, ApIdle
    <3> QED
      BY <2>3, <3>1, <3>2, <3>3, <3>4 DEF Acts
  <2>4. UNCHANGED AllButWrap => bsp'.apCount \in 0 .. NumberOfCpus - 1
    BY <2>1 DEF AllButWrap
  <2> QED
    BY <1>0, <2>1, <2>3, <2>4, Does DEF Next, Smi, vars
<1>2. ASSUME NEW k \in Procedures \ started'
      PROVE  token'[k] = None
  <2>0. token \in [Procedures -> Int \cup {None}] /\ assigned \in [Procedures -> (SUBSET Cpus) \cup {None}]
    BY <1>0 DEF Typed
  <2>1. CASE token' = token /\ assigned' = assigned
    BY <1>2, <2>1 DEF Limits, started
  <2>2. ASSUME NEW j \in Procedures, NEW n, NEW S \in SUBSET Cpus,
               token' = [token EXCEPT ![j] = n], assigned' = [assigned EXCEPT ![j] = S]
        PROVE  token'[k] = None
    <3>1. S # None
      BY Markers
    <3>2. assigned'[j] = S /\ \A i \in Procedures : i # j => assigned'[i] = assigned[i] /\ token'[i] = token[i]
      BY <2>0, <2>2
    <3>3. k # j
      BY <1>2, <3>1, <3>2 DEF started
    <3> QED
      BY <1>2, <3>2, <3>3 DEF Limits, started
  <2>3. ASSUME NEW c \in Cpus, Enter(c) \/ Acts(c)
        PROVE  token'[k] = None
    <3>1. CASE ~Serving(c) /\ ~ApExec(c)
      BY <1>0, <2>1, <2>3, <3>1, NoneGiven
    <3>2. CASE ApExec(c)
      <4>1. /\ pc[c] = "apExec" /\ cpu[c].proc \in Procedures /\ assigned[cpu[c].proc] # None
        BY <3>2, Calls DEF ApExec, Step, Given, started
      <4>2. assigned[cpu[c].proc] \ {c} \in SUBSET Cpus
        BY <2>0, <4>1
      <4>3. /\ assigned' = [assigned EXCEPT ![cpu[c].proc] = assigned[cpu[c].proc] \ {c}]
            /\ \E n : token' = [token EXCEPT ![cpu[c].proc] = n]
        BY <3>2 DEF ApExec
      <4> QED
        BY <2>2, <4>1, <4>2, <4>3
    <3>3. ASSUME NEW d \in Cpus, NEW j \in Procedures, NEW blocking \in BOOLEAN,
                 InternalSmmStartupThisAp(c, d, j, blocking)
          PROVE  token'[k] = None
      <4>1. /\ assigned' = [assigned EXCEPT ![j] = {d}] /\ {d} \in SUBSET Cpus
            /\ \E n : token' = [token EXCEPT ![j] = n]
        BY <3>3 DEF InternalSmmStartupThisAp
      <4> QED
        BY <2>2, <4>1
    <3>4. ASSUME NEW j \in Procedures, NEW blocking \in BOOLEAN, StartupAllAPs(c, j, blocking)
          PROVE  token'[k] = None
      <4> DEFINE S == {}
      <4>1. S \in SUBSET Cpus
        OBVIOUS
      <4>2. assigned' = [assigned EXCEPT ![j] = S] /\ \E n : token' = [token EXCEPT ![j] = n]
        BY <3>4 DEF StartupAllAPs
      <4> HIDE DEF S
      <4> QED
        BY <2>2, <4>1, <4>2
    <3>5. CASE ScheduleAll(c)
      <4>1. pc[c] = "schedule"
        BY <3>5 DEF ScheduleAll, Step
      <4>2. pc[c] \in Leading
        BY <4>1 DEF Leading, BspPcs
      <4>3. bsp.proc \in Procedures
        BY <4>1, <4>2, Leads DEF Works, BroadcastKept, Broadcast, started
      <4>4. PresentAps(c) \in SUBSET Cpus
        BY DEF PresentAps
      <4>5. /\ assigned' = [assigned EXCEPT ![bsp.proc] = PresentAps(c)]
            /\ \E n : token' = [token EXCEPT ![bsp.proc] = n]
        BY <3>5 DEF ScheduleAll, PresentAps
      <4> QED
        BY <2>2, <4>3, <4>4, <4>5
    <3>6. CASE AcquireAllBusy(c) \/ StartAll(c) \/ Unblock(c)
      BY <2>1, <3>6 DEF AcquireAllBusy, StartAll, Unblock
    <3> QED
      BY <2>3, <3>1, <3>2, <3>3, <3>4, <3>5, <3>6 DEF Serving
  <2>4. UNCHANGED AllButWrap => token'[k] = None
    BY <2>1 DEF AllButWrap
  <2> QED
    BY <1>0, <2>1, <2>3, <2>4, Does DEF Next, Smi, vars
<1> QED
  BY <1>1, <1>2 DEF Limits

(* The bounds of TypeOK: the counter and the semaphores count processors.   *)
LEMMA Bounded ==
  ASSUME SInv, Limits, Wrapping
  PROVE  TypeOK
<1>0. Typed
  BY DEF SInv
<1>1. sync.counter \in Locked .. NumberOfCpus
  <2>1. CASE NoBsp
    <3>1. sync.counter = Cardinality(Members)
      BY <2>1 DEF SInv, RInv, Open
    <3> QED
      BY <3>1, MembersBound DEF Locked
  <2>2. ASSUME NEW b \in Cpus, pc[b] \in Leading
        PROVE  sync.counter \in Locked .. NumberOfCpus
    <3>1. sync.counter = Locked \/ sync.counter = Cardinality(Members)
      BY <2>2, Leads DEF Led, Counts
    <3> QED
      BY <3>1, MembersBound DEF Locked
  <2> QED
    BY <2>1, <2>2 DEF NoBsp
<1>2. ASSUME NEW c \in Cpus
      PROVE  cpu[c].run \in 0 .. NumberOfCpus
  <2>0. cpu[c].run \in Nat
    BY <1>0, Parts
  <2>1. CASE pc[c] \notin Leading \cup Joined
    <3>1. cpu[c].run = 0
      BY <2>1 DEF SInv, RInv, Own, Run
    <3> QED
      BY <3>1, MembersBound
  <2>2. CASE pc[c] \in Joined
    <3>1. CASE NoBsp
      <4>1. cpu[c].run = 0
        BY <2>2, <3>1 DEF SInv, RInv, Open, Run
      <4> QED
        BY <4>1, MembersBound
    <3>2. ASSUME NEW b \in Cpus, pc[b] \in Leading
          PROVE  cpu[c].run \in 0 .. NumberOfCpus
      <4>1. b # c
        BY <2>2, <3>2 DEF Leading, Joined, BspPcs, ApPcs
      <4>2. Follows(config, pc[b], pc[c], cpu[c].run)
        BY <2>2, <3>2, <4>1, Leads
      <4>3. cpu[c].run \in {0, 1}
        BY <4>2 DEF Follows
      <4> QED
        BY <4>3, MembersBound
    <3> QED
      BY <3>1, <3>2 DEF NoBsp
  <2>3. CASE pc[c] \in Leading
    <3>1. Led(c)
      BY <2>3, Leads
    <3>2. Cardinality(Owing(c)) \in Nat
      BY Counted
    <3>3. bsp.apCount \in Int /\ bsp.apCount <= NumberOfCpus - 1
      BY MembersBound DEF Limits
    <3>4. CASE pc[c] = "reopen"
      <4>1. cpu[c].run = 0
        BY <3>1, <3>4 DEF Led, Counts, Run
      <4> QED
        BY <4>1, MembersBound
    <3>5. CASE pc[c] \in Ending
      <4>1. cpu[c].run + Cardinality(Owing(c)) = bsp.apCount
        BY <3>1, <3>5 DEF Led, Counts, Run
      <4> QED
        BY <2>0, <3>2, <3>3, <4>1, MembersBound
    <3>6. CASE pc[c] \notin Ending \cup {"reopen"}
      <4>1. cpu[c].run + Cardinality(Owing(c)) + 1 = Cardinality(Members)
        BY <3>1, <3>6 DEF Led, Counts, Run
      <4> QED
        BY <2>0, <3>2, <4>1, MembersBound
    <3> QED
      BY <3>4, <3>5, <3>6
  <2> QED
    BY <2>1, <2>2, <2>3
<1>3. ASSUME NEW k \in Procedures
      PROVE  token[k] \in (0 .. NumberOfCpus) \cup {None}
  <2>1. CASE k \notin started
    BY <2>1 DEF Limits
  <2>2. CASE k \in started
    <3>1. assigned[k] \in SUBSET Cpus
      BY <1>0, <2>2 DEF started, Typed
    <3>2. Cardinality(assigned[k]) \in 0 .. NumberOfCpus
      <4>1. Cardinality(assigned[k]) <= Cardinality(Cpus) /\ Cardinality(assigned[k]) \in Nat
        BY <3>1, Markers, Few, FS_Subset
      <4> QED
        BY <4>1, MembersBound DEF NumberOfCpus
    <3>3. 0 \in 0 .. NumberOfCpus /\ NumberOfCpus \in 0 .. NumberOfCpus
      BY MembersBound
    <3>4. CASE NoBsp
      BY <2>2, <3>3, <3>4 DEF SInv, WInv, Resting
    <3>5. ASSUME NEW b \in Cpus, pc[b] \in Leading
          PROVE  token[k] \in (0 .. NumberOfCpus) \cup {None}
      <4>1. ProcedureKept(b, k) /\ BroadcastKept(b)
        BY <2>2, <3>5, Leads DEF Works
      <4> QED
        BY <3>2, <3>3, <4>1 DEF ProcedureKept, BroadcastKept
    <3> QED
      BY <3>4, <3>5 DEF NoBsp
  <2> QED
    BY <2>1, <2>2
<1>4. sync \in [counter : Locked .. NumberOfCpus, inside : BOOLEAN, allInSync : BOOLEAN,
                bsp : Cpus \cup {None}]
  BY <1>0, <1>1 DEF Typed, SyncData
<1>5. cpu \in [Cpus -> [run : 0 .. NumberOfCpus, busy : BOOLEAN, present : BOOLEAN,
                        proc : Procedures \cup {None}]]
  <2>1. \A c \in Cpus : cpu[c] \in [run : 0 .. NumberOfCpus, busy : BOOLEAN, present : BOOLEAN,
                                    proc : Procedures \cup {None}]
    BY <1>0, <1>2, Parts DEF CpuData
  <2> QED
    BY <1>0, <2>1, Parts
<1>6. bsp \in [apCount : 0 .. NumberOfCpus - 1, waitFor : SUBSET Cpus, proc : Procedures \cup {None}]
  BY <1>0 DEF Typed, BspData, Limits
<1>7. token \in [Procedures -> (0 .. NumberOfCpus) \cup {None}]
  BY <1>0, <1>3 DEF Typed
<1> QED
  BY <1>0, <1>4, <1>5, <1>6, <1>7 DEF Typed, TypeOK, SmiData, Places, Wrapping, WrapData

(* Type correctness, with its bounds: Counter, every Run semaphore and every
   RunningApCount stay between 0 (or the lock, -1) and the number of
   processors, so no release and no wait leaves the range of what is counted. *)
THEOREM TypeCorrect ==
  ASSUME TraditionalBroadcasts
  PROVE  TimelySpec => []TypeOK
<1>1. Init => SInv /\ Limits
  <2> SUFFICES ASSUME Init PROVE SInv /\ Limits
    OBVIOUS
  <2>1. bsp.apCount = 0 /\ \A k \in Procedures : token[k] = None
    BY DEF Init
  <2> QED
    BY <2>1, InitSInv, MembersBound DEF Limits
<1>2. SInv /\ Limits /\ [Next /\ Timing]_vars => SInv' /\ Limits'
  BY SInvStep, LimitsStep
<1>3. SInv /\ Limits /\ Wrapping => TypeOK
  BY Bounded
<1> QED
  BY <1>1, <1>2, <1>3, WrapInvariant, PTL DEF TimelySpec

=============================================================================
