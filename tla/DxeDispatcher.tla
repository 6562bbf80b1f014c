--------------------------- MODULE DxeDispatcher ----------------------------
(***************************************************************************)
(* The DXE dispatcher (Core/Dxe/Dispatcher/Dispatcher.c, Dependency.c).    *)
(*                                                                         *)
(* Files of firmware volumes become entries of mDiscoveredList.  Dispatch  *)
(* drains mScheduledQueue, loading and starting drivers, then searches the *)
(* discovered entries for those whose dependency expression holds, and     *)
(* begins again until a search finds none.                                 *)
(*                                                                         *)
(* The dispatcher runs at TPL_APPLICATION.  The drivers it starts and the  *)
(* notifications of its event install protocols and volumes and call       *)
(* Schedule and Trust; so may timer callbacks, between any two of its      *)
(* steps.  A section under mDispatcherLock is one step.  The notification  *)
(* of a new volume runs at TPL_CALLBACK, before the dispatcher goes on.    *)
(*                                                                         *)
(* A volume stands for all handles with its FvNameGuid: another handle is  *)
(* another notification of it.  File names are unique, an entry is its     *)
(* name.  FV images found in a HOB are not among the files.                *)
(***************************************************************************)
EXTENDS Integers, Sequences, FiniteSets, SequencesExt

CONSTANTS
  Entries,       \* files of all volumes
  Volumes,
  Protocols,
  None,
  Files,         \* the files of each volume, in the order of their discovery
  Apriori,       \* the a priori file of each volume
  VolumeIn,      \* the volume an FV image file holds, or None for a driver
  ArchProtocols, \* architectural protocols
  Extraction,    \* protocol without which some sections cannot be read
  Encapsulated,  \* the files whose sections these are
  Depexes,       \* what the depex section of each file may be (None: no section)
  LoadStatus,    \* what loading the image of each file may end in
  Meaning,       \* of each dependency expression: the sets of installed protocols
                 \* of which it is true; none for one that is ill formed
  MaxCallbacks   \* bound: calls made by timer callbacks

Opcodes == {"BEFORE", "AFTER", "SOR", "PUSH", "REPLACE_TRUE", "AND", "OR", "NOT",
            "TRUE", "FALSE", "END", "unknown"}
Depex == Seq([op : Opcodes, guid : Protocols \cup Entries \cup {None}])

ASSUME DispatcherAssumption ==
  /\ None \notin Entries \cup Volumes \cup Protocols \cup {"success", "violation"}
  /\ None \notin Depex
  /\ Files \in [Volumes -> Seq(Entries)] /\ Apriori \in [Volumes -> Seq(Entries)]
  /\ \A fv \in Volumes : IsInjective(Files[fv]) /\ IsInjective(Apriori[fv])
  /\ \A f, g \in Volumes : f # g => ToSet(Files[f]) \cap ToSet(Files[g]) = {}
  /\ VolumeIn \in [Entries -> Volumes \cup {None}]
  /\ ArchProtocols \subseteq Protocols /\ Extraction \in Protocols
  /\ Encapsulated \subseteq Entries
  /\ \A e \in Entries : \A c \in Depexes[e] :
       c # None => c \in Depex /\ c # <<>>
  /\ LoadStatus \in [Entries -> SUBSET {"success", "violation", "error"}]
  /\ MaxCallbacks \in Nat

AprioriEntries == UNION {ToSet(Apriori[fv]) \cap ToSet(Files[fv]) : fv \in Volumes}

(* The a priori files that are to be requested, or whose depex cannot be read at
   first: put on the queue regardless, they are in a second state as well.  *)
Odd == {e \in AprioriEntries :
          e \in Encapsulated \/ \E c \in Depexes[e] : c # None /\ c[1].op = "SOR"}

VARIABLES
  discovered,  \* mDiscoveredList
  queue,       \* mScheduledQueue
  driver,      \* EFI_CORE_DRIVER_ENTRY
  processed,   \* mFvHandleList
  notified,    \* volumes whose notification is due
  running,     \* gDispatcherRunning
  d,           \* the activation of CoreDispatcher, and what it calls
  installed,   \* protocols in the handle database
  present,     \* protocols that were ever installed
  started,     \* images whose entry point was called, in this order
  trusting,    \* calls of CoreTrust that found their driver and are about to take
               \* the lock, the innermost last
  broken,      \* the driver that was linked into the queue twice, or None
  callbacks,   \* calls made by timer callbacks
  disturbed    \* history: a callback changed something since the search began

env  == <<processed, installed, present, trusting, broken, callbacks>>
vars == <<discovered, queue, driver, processed, notified, running, d, installed,
          present, started, trusting, broken, callbacks, disturbed>>

(* image is None, or the LoadImageStatus of the image ImageHandle is of.    *)
Driver == [dependent : BOOLEAN, unrequested : BOOLEAN, scheduled : BOOLEAN,
           untrusted : BOOLEAN, initialized : BOOLEAN, protocolError : BOOLEAN,
           before : BOOLEAN, after : BOOLEAN,
           depex : Depex \cup {None}, image : {None, "success", "violation"}]

(* The activation of CoreDispatcher; frames are the calls of the insertion on
   the scheduled queue, each with the loop it is in.                        *)
Frames == [entry : Entries, phase : {"before", "put", "after"}, link : Nat \ {0}]
Activation ==
  [pc : {"idle", "drain", "loaded", "start", "image", "signal", "search", "evaluate",
         "insert", "exit"},
   entry : Entries \cup {None}, status : {"success", "violation", "error"},
   success : BOOLEAN, link : Nat \ {0}, ready : BOOLEAN, iterator : Nat \ {0},
   bools : Seq(BOOLEAN), frames : Seq(Frames)]

(* The elements of s that are in S, in their order; s without its element e. *)
Selected(s, S) ==
  LET pick[k \in 0 .. Len(s)] ==
        IF k = 0 THEN <<>>
        ELSE IF s[k] \in S THEN Append(pick[k - 1], s[k]) ELSE pick[k - 1]
  IN  pick[Len(s)]
Unlinked(s, e) == RemoveAt(s, CHOOSE k \in DOMAIN s : s[k] = e)

IsFvImage(e) == VolumeIn[e] # None
Readable(e)  == e \in Encapsulated => Extraction \in installed

(* No activation of CoreDispatcher.  Local variables have their values from
   here while they are not in use.                                          *)
Idle == [pc |-> "idle", entry |-> None, status |-> "success", success |-> FALSE,
         link |-> 1, ready |-> FALSE, iterator |-> 1, bools |-> <<>>, frames |-> <<>>]

Init ==
  /\ discovered = <<>> /\ queue = <<>> /\ started = <<>> /\ notified = <<>>
  /\ processed = {} /\ installed = {} /\ present = {}
  /\ \E file \in [Entries -> UNION {Depexes[e] : e \in Entries}] :
       /\ \A e \in Entries : file[e] \in Depexes[e]
       /\ driver = [e \in Entries |->
            [dependent |-> FALSE, unrequested |-> FALSE, scheduled |-> FALSE,
             untrusted |-> FALSE, initialized |-> FALSE, protocolError |-> FALSE,
             before |-> FALSE, after |-> FALSE, depex |-> file[e], image |-> None]]
  /\ running = FALSE
  /\ d = Idle
  /\ trusting = <<>> /\ broken = None
  /\ callbacks = 0 /\ disturbed = FALSE

(* InsertTailList of an entry that is linked destroys the list: nothing is said
   of what follows.                                                         *)
Whole   == broken = None
Quiet   == notified = <<>>
At(pc)  == d.pc = pc /\ Quiet /\ Whole /\ trusting = <<>>

(* InsertTailList on the scheduled queue, of an entry with the state r.     *)
Enqueue(e, r) ==
  \/ /\ e \notin ToSet(queue)
     /\ queue' = Append(queue, e) /\ driver' = [driver EXCEPT ![e] = r]
     /\ UNCHANGED broken
  \/ /\ e \in ToSet(queue)
     /\ broken' = e
     /\ UNCHANGED <<queue, driver>>

(* The search goes on with the next entry.                                  *)
SameEntry == [d EXCEPT !.pc = "search", !.entry = None,        \* mutant
                       !.iterator = 1, !.bools = <<>>, !.frames = <<>>]
NextEntry == [d EXCEPT !.pc = "search", !.link = @ + 1, !.entry = None,
                       !.iterator = 1, !.bools = <<>>, !.frames = <<>>]

-----------------------------------------------------------------------------
(* Discovery                                                                *)

(* CorePreProcessDepex                                                      *)
CorePreProcessDepex(r) ==
  LET op == r.depex[1].op
  IN  [r EXCEPT !.unrequested = @ \/ op = "SOR", !.dependent = @ \/ op # "SOR",
                !.before = @ \/ op = "BEFORE",   !.after = @ \/ op = "AFTER"]

(* CoreGetDepexSectionAndPreProccess: the entry after another read.         *)
CoreGetDepexSection(e) ==
  LET r == [driver[e] EXCEPT !.protocolError = ~Readable(e)]
  IN  IF ~Readable(e) THEN r
      ELSE IF r.depex = None THEN [r EXCEPT !.dependent = TRUE]
      ELSE CorePreProcessDepex(r)

(* A file is added to the discovered list unless it is an FV image whose depex
   is missing or cannot be read, which is processed at once.                *)
Listed(e) == IsFvImage(e) => Readable(e) /\ driver[e].depex # None

(* CoreProcessFvImageFile, for the files of s: the volumes it produces.     *)
Produced(s) ==
  LET images == Selected(s, {e \in Entries : Readable(e)})
  IN  [k \in DOMAIN images |-> VolumeIn[images[k]]]

(* CoreFwVolEventProtocolNotify, one turn of its loop.                      *)
FwVolNotify ==
  LET fv    == Head(notified)
      new   == Selected(Files[fv], {e \in Entries : Listed(e)})
      first == Selected(Apriori[fv], ToSet(new))
      image == Selected(Files[fv], {e \in Entries : ~Listed(e)})
  IN  /\ ~Quiet /\ Whole
      /\ \/ /\ fv \in processed
            /\ notified' = Tail(notified)
            /\ UNCHANGED <<discovered, queue, driver, processed>>
         \/ /\ fv \notin processed
            /\ processed' = processed \cup {fv}
            /\ discovered' = discovered \o new
            /\ driver' = [e \in Entries |->
                 IF e \in ToSet(first)
                 THEN [CoreGetDepexSection(e) EXCEPT !.dependent = FALSE,
                                                     !.scheduled = TRUE]
                 ELSE IF e \in ToSet(new) THEN CoreGetDepexSection(e) ELSE driver[e]]
            /\ queue' = queue \o first
            /\ notified' = Tail(notified) \o Produced(image)
      /\ UNCHANGED <<running, d, installed, present, started, trusting, broken,
                     callbacks, disturbed>>

-----------------------------------------------------------------------------
(* Services that drivers, notifications and callbacks call                  *)

InstallProtocol(p) ==
  /\ p \notin installed
  /\ installed' = installed \cup {p} /\ present' = present \cup {p}
  /\ UNCHANGED <<notified, driver, trusting>>

UninstallProtocol(p) ==
  /\ p \in installed
  /\ installed' = installed \ {p}
  /\ UNCHANGED <<present, notified, driver, trusting>>

(* The firmware volume driver installs, or reinstalls, the FV2 protocol.    *)
InstallVolume(fv) ==
  /\ notified' = <<fv>>
  /\ UNCHANGED <<installed, present, driver, trusting>>

CoreSchedule(e) ==
  /\ e \in ToSet(discovered) /\ driver[e].unrequested
  /\ driver' = [driver EXCEPT ![e].unrequested = FALSE, ![e].dependent = TRUE]
  /\ UNCHANGED <<installed, present, notified, trusting>>

(* CoreTrust tests the state of the driver without the lock.                *)
CoreTrust(e) ==
  /\ e \in ToSet(discovered) /\ driver[e].untrusted
  /\ trusting' = Append(trusting, e)
  /\ UNCHANGED <<installed, present, notified, driver>>

Service ==
  /\ \/ \E p \in Protocols : InstallProtocol(p) \/ UninstallProtocol(p)
     \/ \E fv \in Volumes : InstallVolume(fv)
     \/ \E e \in Entries : CoreSchedule(e) \/ CoreTrust(e)
  /\ UNCHANGED <<discovered, queue, processed, running, d, started, broken>>

(* By the boot manager, a driver's entry point, or a notification of the
   dispatcher's event.                                                      *)
Outside == d.pc \in {"idle", "image", "signal"}
Call ==
  /\ Outside /\ Quiet /\ Whole /\ trusting = <<>>
  /\ Service
  /\ UNCHANGED <<callbacks, disturbed>>

(* By a timer callback, which interrupts the dispatcher or a call of Trust. *)
Callback ==
  /\ ~Outside \/ trusting # <<>>
  /\ Quiet /\ Whole /\ callbacks < MaxCallbacks
  /\ Service
  /\ callbacks' = callbacks + 1 /\ disturbed' = (disturbed \/ ~Outside)

(* The innermost call of Trust has taken the lock: the driver is Scheduled. *)
TrustKeepsUntrusted ==                                         \* mutant
  /\ Quiet /\ Whole /\ trusting # <<>>
  /\ LET e == Last(trusting)
     IN  Enqueue(e, [driver[e] EXCEPT !.scheduled = TRUE])
  /\ trusting' = IF broken' = None THEN Front(trusting) ELSE trusting
  /\ UNCHANGED <<discovered, processed, notified, running, d, installed, present,
                 started, callbacks, disturbed>>
TrustInserts ==
  /\ Quiet /\ Whole /\ trusting # <<>>
  /\ LET e == Last(trusting)
     IN  Enqueue(e, [driver[e] EXCEPT !.untrusted = FALSE, !.scheduled = TRUE])
  /\ trusting' = IF broken' = None THEN Front(trusting) ELSE trusting
  /\ UNCHANGED <<discovered, processed, notified, running, d, installed, present,
                 started, callbacks, disturbed>>

-----------------------------------------------------------------------------
(* CoreDispatcher                                                           *)

(* If the event cannot be created, gDispatcherRunning stays set.            *)
Dispatch(created) ==
  /\ At("idle") /\ ~running
  /\ running' = TRUE
  /\ d' = IF created THEN [d EXCEPT !.pc = "drain"] ELSE d
  /\ UNCHANGED <<discovered, queue, driver, notified, started, disturbed, env>>

(* CoreLoadImage, unless there is an image already or the file is an FV image.
   After a security violation there is an image, too.                       *)
LoadImage(status) ==
  LET e    == Head(queue)
      skip == driver[e].image # None \/ IsFvImage(e)
  IN  /\ At("drain") /\ queue # <<>>
      /\ IF skip THEN status = "success" ELSE status \in LoadStatus[e]
      /\ driver' = [driver EXCEPT ![e].image =
                      IF skip \/ status = "error" THEN @ ELSE status]
      /\ d' = [d EXCEPT !.pc = "loaded", !.entry = e, !.status = status]
      /\ UNCHANGED <<discovered, queue, notified, running, started, disturbed, env>>

(* What becomes of a driver taken off the scheduled queue.                  *)
Dispatched(r, status) ==
  [r EXCEPT !.scheduled = FALSE,
            !.untrusted = @ \/ status = "violation",
            !.initialized = @ \/ status # "violation"]

TakeOff ==
  /\ At("loaded")
  /\ driver' = [driver EXCEPT ![d.entry] = Dispatched(@, d.status)]
  /\ queue' = Unlinked(queue, d.entry)
  /\ d' = IF d.status = "success" THEN [d EXCEPT !.pc = "start"]
          ELSE [d EXCEPT !.pc = "drain", !.entry = None, !.status = "success"]
  /\ UNCHANGED <<discovered, notified, running, started, disturbed, env>>

(* CoreStartImage enters the image unless it was started before or its load
   ended in a security violation.                                           *)
StartImage ==
  LET enter == driver[d.entry].image = "success" /\ d.entry \notin ToSet(started)
  IN  /\ At("start") /\ ~IsFvImage(d.entry)
      /\ started' = IF enter THEN Append(started, d.entry) ELSE started
      /\ d' = [d EXCEPT !.pc = IF enter THEN "image" ELSE "drain",
                         !.entry = None, !.success = TRUE]
      /\ UNCHANGED <<discovered, queue, driver, notified, running, disturbed, env>>

ImageReturns ==
  /\ At("image")
  /\ d' = [d EXCEPT !.pc = "drain"]
  /\ UNCHANGED <<discovered, queue, driver, notified, running, started, disturbed, env>>

ProcessFvImage ==
  /\ At("start") /\ IsFvImage(d.entry)
  /\ notified' = Produced(<<d.entry>>)
  /\ d' = [d EXCEPT !.pc = "drain", !.entry = None, !.success = TRUE]
  /\ UNCHANGED <<discovered, queue, driver, running, started, disturbed, env>>

(* The scheduled queue is empty: the dispatcher's event is signalled if a
   driver has been dispatched in this or an earlier round.                  *)
RoundEnd ==
  /\ At("drain") /\ queue = <<>>
  /\ d' = [d EXCEPT !.pc = IF d.success THEN "signal" ELSE "search"]
  /\ disturbed' = FALSE
  /\ UNCHANGED <<discovered, queue, driver, notified, running, started, env>>

SignalReturns ==
  /\ At("signal")
  /\ d' = [d EXCEPT !.pc = "search"]
  /\ UNCHANGED <<discovered, queue, driver, notified, running, started, disturbed, env>>

(* The search looks at an entry; CoreIsSchedulable begins if it is Dependent
   and neither BEFORE nor AFTER another.                                    *)
VisitWithoutRetry ==                                           \* mutant
  LET e == discovered[d.link]
      r == driver[e]
  IN  /\ At("search") /\ d.link <= Len(discovered)
      /\ d' = IF r.dependent /\ ~r.before /\ ~r.after
              THEN [d EXCEPT !.pc = "evaluate", !.entry = e] ELSE NextEntry
      /\ UNCHANGED <<discovered, queue, driver, notified, running, started,
                     disturbed, env>>
Visit ==
  LET e == discovered[d.link]
      r == IF driver[e].protocolError THEN CoreGetDepexSection(e) ELSE driver[e]
  IN  /\ At("search") /\ d.link <= Len(discovered)
      /\ driver' = [driver EXCEPT ![e] = r]
      /\ d' = IF r.dependent /\ ~r.before /\ ~r.after
              THEN [d EXCEPT !.pc = "evaluate", !.entry = e]
              ELSE NextEntry
      /\ UNCHANGED <<discovered, queue, notified, running, started, disturbed, env>>

SearchEnd ==
  /\ At("search") /\ d.link > Len(discovered)
  /\ d' = [d EXCEPT !.pc = IF d.ready THEN "drain" ELSE "exit",
                    !.link = 1, !.ready = FALSE]
  /\ UNCHANGED <<discovered, queue, driver, notified, running, started, disturbed, env>>

DispatchReturns ==
  /\ At("exit")
  /\ running' = FALSE
  /\ d' = Idle
  /\ UNCHANGED <<discovered, queue, driver, notified, started, disturbed, env>>

-----------------------------------------------------------------------------
(* CoreIsSchedulable: one instruction of the dependency expression a step.  *)

(* A call of CoreInsertOnScheduledQueueWhileProcessingBeforeAndAfter for e. *)
FrameSkipsBefore(e) == [entry |-> e, phase |-> "put", link |-> 1]  \* mutant
InsertFrame(e) == [entry |-> e, phase |-> "before", link |-> 1]

Result(result) ==
  d' = IF result
       THEN [d EXCEPT !.pc = "insert", !.iterator = 1, !.bools = <<>>,
                               !.frames = <<InsertFrame(d.entry)>>]
       ELSE NextEntry

(* The stack after the instruction i, or None if it ends the evaluation with
   FALSE: PopBool fails, or the opcode is unknown or not the first.         *)
Execute(i, at, s) ==
  LET n == Len(s)
  IN  CASE i.op = "SOR" /\ at = 1 -> s
        [] i.op = "PUSH"          -> Append(s, i.guid \in installed)
        [] i.op \in {"TRUE", "REPLACE_TRUE"} -> Append(s, TRUE)
        [] i.op = "FALSE"         -> Append(s, FALSE)
        [] i.op = "NOT" /\ n > 0  -> Append(SubSeq(s, 1, n - 1), ~s[n])
        [] i.op = "AND" /\ n > 1  -> Append(SubSeq(s, 1, n - 2), s[n] /\ s[n - 1])
        [] i.op = "OR" /\ n > 1   -> Append(SubSeq(s, 1, n - 2), s[n] \/ s[n - 1])
        [] OTHER -> None

(* A protocol that was found is not looked for again.                       *)
PatchedAlways(i) == IF i.op = "PUSH"                           \* mutant
                    THEN [i EXCEPT !.op = "REPLACE_TRUE"] ELSE i
Patched(i) == IF i.op = "PUSH" /\ i.guid \in installed
              THEN [i EXCEPT !.op = "REPLACE_TRUE"] ELSE i

Evaluate ==
  LET code == driver[d.entry].depex
      at   == d.iterator
      n    == Len(d.bools)
  IN  /\ At("evaluate")
      /\ \/ /\ code = None
            /\ Result(ArchProtocols \subseteq present)
            /\ UNCHANGED driver
         \/ /\ code # None /\ at > Len(code)
            /\ Result(FALSE)
            /\ UNCHANGED driver
         \/ /\ code # None /\ at <= Len(code) /\ code[at].op = "END"
            /\ Result(n > 0 /\ d.bools[n])
            /\ UNCHANGED driver
         \/ /\ code # None /\ at <= Len(code) /\ code[at].op # "END"
            /\ driver' = [driver EXCEPT ![d.entry].depex =
                            [code EXCEPT ![at] = Patched(code[at])]]
            /\ LET s == Execute(code[at], at, d.bools)
               IN  IF s = None THEN Result(FALSE)
                   ELSE d' = [d EXCEPT !.iterator = @ + 1, !.bools = s]
      /\ UNCHANGED <<discovered, queue, notified, running, started, disturbed, env>>

-----------------------------------------------------------------------------
(* CoreInsertOnScheduledQueueWhileProcessingBeforeAndAfter: d.frames is the
   recursion, each frame with its loop and the entry it has got to.         *)

Frame  == Last(d.frames)
Becomes(frame) == Append(Front(d.frames), frame)
Target(e) == driver[e].depex[1].guid

WantedSwapped(e) ==                                            \* mutant
  /\ e # Frame.entry /\ driver[e].dependent
  /\ \/ Frame.phase = "before" /\ driver[e].after
     \/ Frame.phase = "after" /\ driver[e].before
  /\ Target(e) = Frame.entry
Wanted(e) ==
  /\ e # Frame.entry /\ driver[e].dependent
  /\ \/ Frame.phase = "before" /\ driver[e].before
     \/ Frame.phase = "after" /\ driver[e].after
  /\ Target(e) = Frame.entry

Matches == {k \in Frame.link .. Len(discovered) : Wanted(discovered[k])}

InsertRecurse ==
  /\ At("insert") /\ Frame.phase # "put" /\ Matches # {}
  /\ LET k == Min(Matches)
     IN  d' = [d EXCEPT !.frames = Append(Becomes([Frame EXCEPT !.link = k + 1]),
                                          InsertFrame(discovered[k]))]
  /\ UNCHANGED <<discovered, queue, driver, notified, running, started, disturbed, env>>

(* The end of a loop: of the first, or of the second and of the call.       *)
InsertLoopEnd ==
  /\ At("insert") /\ Frame.phase # "put" /\ Matches = {}
  /\ d' = IF Frame.phase = "before"
          THEN [d EXCEPT !.frames = Becomes([Frame EXCEPT !.phase = "put"])]
          ELSE IF Len(d.frames) > 1 THEN [d EXCEPT !.frames = Front(@)]
          ELSE [NextEntry EXCEPT !.ready = TRUE]
  /\ UNCHANGED <<discovered, queue, driver, notified, running, started, disturbed, env>>

InsertPut ==
  /\ At("insert") /\ Frame.phase = "put"
  /\ Enqueue(Frame.entry, [driver[Frame.entry] EXCEPT !.dependent = FALSE,
                                                      !.scheduled = TRUE])
  /\ d' = IF broken' = None
          THEN [d EXCEPT !.frames = Becomes([Frame EXCEPT !.phase = "after", !.link = 1])]
          ELSE d
  /\ UNCHANGED <<discovered, processed, notified, running, installed, present, started,
                 trusting, callbacks, disturbed>>

-----------------------------------------------------------------------------

DispatcherStep ==
  \/ \E status \in {"success", "violation", "error"} : LoadImage(status)
  \/ TakeOff \/ StartImage \/ ImageReturns \/ ProcessFvImage
  \/ RoundEnd \/ SignalReturns \/ Visit \/ SearchEnd \/ DispatchReturns
  \/ Evaluate \/ InsertRecurse \/ InsertLoopEnd \/ InsertPut

Next ==
  \/ DispatcherStep \/ FwVolNotify \/ TrustInserts \/ Call \/ Callback
  \/ \E created \in BOOLEAN : Dispatch(created)

Spec == Init /\ [][Next]_vars

(* Drivers and notification functions return, whatever they call before.    *)
FairSpec == Spec /\ SF_vars(DispatcherStep) /\ WF_vars(FwVolNotify \/ TrustInserts)

-----------------------------------------------------------------------------
(* Properties                                                               *)

(* Type correctness.                                                        *)
TypeOK ==
  /\ discovered \in Seq(Entries) /\ queue \in Seq(Entries) /\ started \in Seq(Entries)
  /\ driver \in [Entries -> Driver]
  /\ processed \subseteq Volumes /\ notified \in Seq(Volumes)
  /\ running \in BOOLEAN /\ disturbed \in BOOLEAN
  /\ installed \subseteq present /\ present \subseteq Protocols
  /\ trusting \in Seq(Entries) /\ broken \in Entries \cup {None}
  /\ callbacks \in 0 .. MaxCallbacks
  /\ d \in Activation
  /\ d.pc = "insert" <=> d.frames # <<>>
  /\ d.pc # "idle" => running

States == {"dependent", "unrequested", "scheduled", "untrusted", "initialized",
           "protocolError"}

(* Every discovered file is on the discovered list once, in exactly one state,
   and on the scheduled queue, once, in the Scheduled state only, whatever
   discovers, requests, retries and schedules it; a driver is linked into the
   queue a second time only by a call of Trust that another call of Trust
   overtook between its test and the lock, or as one of the a priori drivers
   that are in two states.                                                  *)
OneState ==
  /\ IsInjective(discovered) /\ IsInjective(queue)
  /\ \A e \in Entries : driver[e].scheduled <=> e \in ToSet(queue)
  /\ \A e \in ToSet(discovered) :
       e \notin Odd => Cardinality({s \in States : driver[e][s]}) = 1
  /\ broken # None => broken \in Odd \/ (trusting # <<>> /\ Last(trusting) = broken)

(* The dependency expression as it was in the file, and the protocols it no
   longer looks for.                                                        *)
IsPatched(i) == i.op = "REPLACE_TRUE"
Original(e) == [k \in DOMAIN driver[e].depex |->
                 LET i == driver[e].depex[k]
                 IN  IF IsPatched(i) THEN [i EXCEPT !.op = "PUSH"] ELSE i]
Known(e) == {i.guid : i \in {j \in ToSet(driver[e].depex) : IsPatched(j)}}
Monotone(c) == \A k \in DOMAIN c : c[k].op # "NOT"

Satisfied(e) ==
  IF driver[e].depex = None THEN ArchProtocols \subseteq present
  ELSE Known(e) \cup installed \in Meaning[Original(e)]

(* A driver is scheduled for its own sake only if its dependency expression is
   true, where a protocol that was found by an earlier evaluation counts as
   installed.  If callbacks came between its instructions, an expression
   without NOT is still true of the protocols that were ever installed.     *)
DependencyMet ==
  d.pc = "insert" =>
    LET e == d.frames[1].entry
    IN  /\ ~disturbed => Satisfied(e)
        /\ driver[e].depex # None /\ Monotone(Original(e)) =>
             present \in Meaning[Original(e)]

(* The dispatcher ends only when nothing can be scheduled: no driver whose
   dependency expression is true, no depex that could now be read, unless a
   callback changed something after the last search had begun.              *)
Exhausted ==
  d.pc = "exit" /\ ~disturbed =>
    \A e \in ToSet(discovered) :
      /\ driver[e].dependent /\ ~driver[e].before /\ ~driver[e].after => ~Satisfied(e)
      /\ driver[e].protocolError => ~Readable(e)

(* A driver BEFORE another is started before it, a driver AFTER another is
   started after it, through any chain of such drivers; an a priori driver
   excepted, which is started regardless of its dependencies, and the a priori
   drivers that are put on the queue again.                                 *)
Ordered ==
  \A i, j \in DOMAIN started :
    LET e == started[i]
        hangs == /\ e \notin AprioriEntries /\ driver[e].depex # None
                 /\ Target(e) = started[j] /\ started[j] \notin Odd
    IN  hangs => /\ driver[e].before => i < j
                 /\ driver[e].after => j < i

(* Once a driver has been scheduled, none that is BEFORE or AFTER it is left
   behind, unless a callback came between two steps of the dispatcher.      *)
Companions ==
  [][At("insert") /\ Len(d'.frames) < Len(d.frames) /\ ~disturbed =>
       \A e \in ToSet(discovered) :
         driver[e].dependent /\ (driver[e].before \/ driver[e].after) =>
           Target(e) # Frame.entry]_vars

(* Dispatch returns, unless the scheduled queue was destroyed.              *)
DispatcherReturns == d.pc # "idle" ~> d.pc = "idle" \/ broken # None

(* What InsertTailList asserts: the entry is not a node of the list.        *)
LinkedOnce == broken = None

(* What the description of CoreDispatcher says: it exits when there are no
   more drivers to run.  A notification of the dispatcher's event that trusts a
   driver, or brings a volume with an a priori file, leaves them on the queue. *)
QueueDrained == d.pc = "exit" /\ ~disturbed => queue = <<>>

(* What the descriptions of Trust say: a driver that is promoted from Untrusted
   to Scheduled, and dispatched, is started.  CoreStartImage refuses it, since
   the image was loaded with a security violation.                          *)
TrustedStarts ==
  \A e \in Entries : driver[e].initialized /\ driver[e].image = "violation" =>
    e \in ToSet(started) \/ d.entry = e
=============================================================================
