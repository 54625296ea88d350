------------------------ MODULE ResizeWatcherProofs ------------------------
(***************************************************************************)
(* The self-pipe protocol for any number of handlers, callers and bytes:   *)
(* no write reaches a descriptor that was closed, and the resize watcher   *)
(* is such a pipe.                                                         *)
(***************************************************************************)
EXTENDS ResizeWatcher, FiniteSetTheorems, TLAPS

-----------------------------------------------------------------------------
(* The calls of notify and their counter. *)

Busy == {n \in Notifiers : notifier[n] # "idle"}

(* The calls in progress are finitely many. *)
LEMMA BusyFinite == ASSUME PipeTypeOK PROVE IsFiniteSet(Busy)
<1>1. IsFiniteSet(Notifiers)
  BY SignalPipeAssumptions, FS_Union DEF Notifiers
<1> QED
  BY <1>1, FS_Subset DEF Busy

(* A call that begins is counted. *)
LEMMA CountBegun ==
  ASSUME PipeTypeOK, InFlightCounts, NEW n \in Notifiers, notifier[n] = "idle",
         inFlight' = inFlight + 1, notifier' = [notifier EXCEPT ![n] = "announced"]
  PROVE  InFlightCounts'
<1>1. Busy' = Busy \cup {n} /\ n \notin Busy
  BY DEF Busy, PipeTypeOK
<1>2. Cardinality(Busy') = Cardinality(Busy) + 1
  BY <1>1, BusyFinite, FS_AddElement
<1> QED
  BY <1>2 DEF Busy, InFlightCounts

(* A call that leaves is no longer counted; the counter was not zero. *)
LEMMA CountLeft ==
  ASSUME PipeTypeOK, InFlightCounts, NEW n \in Notifiers, notifier[n] = "leaving",
         inFlight' = inFlight - 1, notifier' = [notifier EXCEPT ![n] = "idle"]
  PROVE  InFlightCounts' /\ inFlight' \in Nat
<1>1. Busy' = Busy \ {n} /\ n \in Busy
  BY DEF Busy, PipeTypeOK
<1>2. Cardinality(Busy') = Cardinality(Busy) - 1
  BY <1>1, BusyFinite, FS_RemoveElement
<1>3. Cardinality(Busy') \in Nat
  BY <1>1, BusyFinite, FS_Subset, FS_CardinalityType
<1> QED
  BY <1>2, <1>3 DEF Busy, InFlightCounts

(* A step inside a call leaves the set of calls in progress alone. *)
LEMMA CountKept ==
  ASSUME PipeTypeOK, InFlightCounts, NEW n \in Notifiers, notifier[n] # "idle",
         NEW where \in Notifying, notifier' = [notifier EXCEPT ![n] = where],
         inFlight' = inFlight
  PROVE  InFlightCounts'
<1>1. Busy' = Busy
  BY DEF Busy, PipeTypeOK, Notifying
<1> QED
  BY <1>1 DEF Busy, InFlightCounts

(* A nonblocking write keeps the pipe within its capacity. *)
LEMMA QueueType ==
  ASSUME PipeTypeOK, NEW byte \in {Wake, Stop}
  PROVE  Queue(byte) \in Seq({Wake, Stop}) /\ Len(Queue(byte)) <= Capacity
<1>1. Capacity \in Nat
  BY SignalPipeAssumptions
<1>2. CASE Len(pipe) < Capacity
  <2>1. Append(pipe, byte) \in Seq({Wake, Stop}) /\ Len(Append(pipe, byte)) = Len(pipe) + 1
    BY DEF PipeTypeOK
  <2> QED
    BY <1>1, <1>2, <2>1 DEF Queue, PipeTypeOK
<1>3. CASE ~(Len(pipe) < Capacity)
  BY <1>3 DEF Queue, PipeTypeOK
<1> QED
  BY <1>2, <1>3

-----------------------------------------------------------------------------
(* PipeInv is inductive. *)

LEMMA PipeInitInv == PipeInit => PipeInv
<1> SUFFICES ASSUME PipeInit PROVE PipeInv
  OBVIOUS
<1>1. PipeTypeOK
  <2>1. <<>> \in Seq({Wake, Stop}) /\ Len(<<>>) <= Capacity
    BY SignalPipeAssumptions
  <2> QED
    BY <2>1 DEF PipeInit, PipeTypeOK, Phases, Notifying
<1>2. InFlightCounts
  <2>1. {n \in Notifiers : notifier[n] # "idle"} = {}
    BY DEF PipeInit
  <2> QED
    BY <2>1, FS_EmptySet DEF InFlightCounts, PipeInit
<1> QED
  BY <1>1, <1>2 DEF PipeInit, PipeInv, NoForeignWrite, Ending

(* notify *)
LEMMA NotifyInv ==
  ASSUME PipeInv, NEW n \in Notifiers, Notify(n) PROVE PipeInv'
<1> USE DEF PipeInv, NoForeignWrite
<1>1. CASE Announce(n)
  <2>1. InFlightCounts'
    BY <1>1, CountBegun DEF Announce
  <2>2. PipeTypeOK'
    BY <1>1 DEF Announce, PipeTypeOK, Notifying
  <2> QED
    BY <1>1, <2>1, <2>2 DEF Announce, PipeTypeOK
<1>2. CASE Load(n)
  <2>1. InFlightCounts'
    BY <1>2, CountKept DEF Load, Notifying
  <2>2. PipeTypeOK'
    BY <1>2 DEF Load, PipeTypeOK, Notifying
  <2> QED
    BY <1>2, <2>1, <2>2 DEF Load, PipeTypeOK
<1>3. CASE Write(n)
  <2>1. InFlightCounts'
    BY <1>3, CountKept DEF Write, Notifying
  <2>2. PipeTypeOK'
    BY <1>3, QueueType DEF Write, PipeTypeOK, Notifying
  <2> QED
    BY <1>3, <2>1, <2>2 DEF Write, PipeTypeOK
<1>4. CASE Leave(n)
  <2>1. InFlightCounts' /\ inFlight' \in Nat
    BY <1>4, CountLeft DEF Leave
  <2>2. PipeTypeOK'
    BY <1>4, <2>1 DEF Leave, PipeTypeOK, Notifying
  <2> QED
    BY <1>4, <2>1, <2>2 DEF Leave, PipeTypeOK
<1> QED
  BY <1>1, <1>2, <1>3, <1>4 DEF Notify

(* A step that leaves the calls of notify alone leaves their count alone. *)
LEMMA CountUnchanged ==
  ASSUME InFlightCounts, UNCHANGED <<inFlight, notifier>> PROVE InFlightCounts'
BY DEF InFlightCounts

(* start *)
LEMMA StartInv ==
  ASSUME PipeInv, Start PROVE PipeInv'
<1> USE DEF PipeInv, NoForeignWrite, PipeTypeOK, slotVars, Phases, Ending
<1>0. InFlightCounts'
  BY CountUnchanged DEF Start, OpenPipe, Arm, InstallHandler, InstallFails, SpawnReader
<1>1. CASE OpenPipe
  BY <1>0, <1>1 DEF OpenPipe
<1>2. CASE Arm
  BY <1>0, <1>2 DEF Arm
<1>3. CASE InstallHandler
  BY <1>0, <1>3 DEF InstallHandler
<1>4. CASE InstallFails
  <2>1. <<>> \in Seq({Wake, Stop}) /\ Len(<<>>) <= Capacity
    BY SignalPipeAssumptions
  <2> QED
    BY <1>0, <1>4, <2>1 DEF InstallFails
<1>5. CASE SpawnReader
  BY <1>0, <1>5 DEF SpawnReader
<1> QED
  BY <1>1, <1>2, <1>3, <1>4, <1>5 DEF Start

(* stop *)
LEMMA StopInv ==
  ASSUME PipeInv, RestoreHandlers \/ StopWatcher PROVE PipeInv'
<1> USE DEF PipeInv, NoForeignWrite, PipeTypeOK, slotVars, Phases, Ending
<1>0. InFlightCounts'
  BY CountUnchanged DEF RestoreHandlers, StopWatcher, Withdraw, SeeDrained, GiveUp,
                        WriteStop, CloseEnd, Join
<1>1. CASE RestoreHandlers
  BY <1>0, <1>1 DEF RestoreHandlers
<1>2. CASE Withdraw
  BY <1>0, <1>2 DEF Withdraw
<1>3. CASE SeeDrained
  <2>1. Busy = {}
    BY <1>3, BusyFinite, FS_EmptySet DEF SeeDrained, InFlightCounts, Busy
  <2>2. \A n \in Notifiers : notifier[n] # "loaded"
    BY <2>1 DEF Busy
  <2> QED
    BY <1>0, <1>3, <2>2 DEF SeeDrained
<1>4. CASE GiveUp
  BY <1>0, <1>4 DEF GiveUp
<1>5. CASE WriteStop
  <2>1. pipe' \in Seq({Wake, Stop}) /\ Len(pipe') <= Capacity
    BY <1>5, QueueType DEF WriteStop
  <2>2. stopDropped' \in BOOLEAN
    BY <1>5 DEF WriteStop
  <2> QED
    BY <1>0, <1>5, <2>1, <2>2 DEF WriteStop
<1>6. CASE CloseEnd
  BY <1>0, <1>6 DEF CloseEnd
<1>7. CASE Join
  BY <1>0, <1>7 DEF Join
<1> QED
  BY <1>1, <1>2, <1>3, <1>4, <1>5, <1>6, <1>7 DEF StopWatcher

(* the watcher thread, and other files *)
LEMMA ReaderInv ==
  ASSUME PipeInv, ReadBytes \/ SeeEnd \/ OtherFile PROVE PipeInv'
<1> USE DEF PipeInv, NoForeignWrite, PipeTypeOK, slotVars, Phases, Ending
<1>0. InFlightCounts'
  BY CountUnchanged DEF ReadBytes, SeeEnd, OtherFile
<1>1. CASE ReadBytes
  <2> DEFINE taken == IF Len(pipe) < ReadLimit THEN Len(pipe) ELSE ReadLimit
  <2>1. taken \in 1 .. Len(pipe)
    BY <1>1, SignalPipeAssumptions DEF ReadBytes
  <2>2. pipe' = SubSeq(pipe, taken + 1, Len(pipe))
    BY <1>1 DEF ReadBytes
  <2>3. pipe' \in Seq({Wake, Stop}) /\ Len(pipe') = Len(pipe) - taken
    BY <2>1, <2>2
  <2>4. Len(pipe') <= Capacity
    BY <2>1, <2>3, SignalPipeAssumptions
  <2>5. reader' \in {"reading", "done"}
    BY <1>1 DEF ReadBytes
  <2> HIDE DEF taken
  <2> QED
    BY <1>0, <1>1, <2>3, <2>4, <2>5 DEF ReadBytes
<1>2. CASE SeeEnd
  BY <1>0, <1>2 DEF SeeEnd
<1>3. CASE OtherFile
  BY <1>0, <1>3 DEF OtherFile
<1> QED
  BY <1>1, <1>2, <1>3

LEMMA PipeStepInv == PipeInv /\ [PipeNext]_pipeVars => PipeInv'
<1> SUFFICES ASSUME PipeInv, [PipeNext]_pipeVars PROVE PipeInv'
  OBVIOUS
<1>1. CASE UNCHANGED pipeVars
  BY <1>1 DEF pipeVars, PipeInv, PipeTypeOK, InFlightCounts, NoForeignWrite
<1>2. CASE PipeNext
  BY <1>2, NotifyInv, StartInv, StopInv, ReaderInv DEF PipeNext
<1> QED
  BY <1>1, <1>2

(* Every self-pipe keeps the inductive invariant. *)
THEOREM PipeSafety == PipeSpec => []PipeInv
BY PipeInitInv, PipeStepInv, PTL DEF PipeSpec

-----------------------------------------------------------------------------
(* The resize watcher is a self-pipe: each of its steps is one of the pipe's *)
(* or leaves the pipe alone.                                                 *)
LEMMA WatcherStep == [Next]_vars => [PipeNext]_pipeVars
<1> SUFFICES ASSUME [Next]_vars PROVE [PipeNext]_pipeVars
  OBVIOUS
<1> USE DEF PipeNext, Notify, Notifiers
<1>1. CASE \E size \in Sizes : Resize(size)
  BY <1>1 DEF Resize
<1>2. CASE ToBackground \/ ToForeground
  BY <1>2 DEF ToBackground, ToForeground
<1>3. CASE \E h \in Handlers : TakeWinch(h)
  BY <1>3 DEF TakeWinch
<1>4. CASE \E c \in Callers : WakeAfterContinue(c)
  BY <1>4 DEF WakeAfterContinue
<1>5. CASE \E n \in Notifiers : NotifyStep(n)
  BY <1>5 DEF NotifyStep
<1>6. CASE StartStep
  BY <1>6 DEF StartStep
<1>7. CASE StopBegins
  BY <1>7 DEF StopBegins
<1>8. CASE (StopWatcher /\ UNCHANGED sizeVars) \/ (OtherFile /\ UNCHANGED sizeVars)
  BY <1>8
<1>9. CASE Thread
  BY <1>9 DEF Thread, ReadSize, StartSync, SyncSize, Woken, WatchEnds
<1>10. CASE UNCHANGED vars
  BY <1>10 DEF vars
<1> QED
  BY <1>1, <1>2, <1>3, <1>4, <1>5, <1>6, <1>7, <1>8, <1>9, <1>10 DEF Next

(* The resize watcher implements the self-pipe. *)
THEOREM WatcherIsPipe == Spec => PipeSpec
<1>1. Init => PipeInit
  BY DEF Init
<1> QED
  BY <1>1, WatcherStep, PTL DEF Spec, PipeSpec

(* No call of notify, from a handler or from the signal watcher, writes into *)
(* a number that was closed or given to another file.                        *)
THEOREM WritesReachThePipe == Spec => []NoForeignWrite
<1>1. PipeInv => NoForeignWrite
  BY DEF PipeInv
<1> QED
  BY <1>1, WatcherIsPipe, PipeSafety, PTL
(* Each step of the watcher, of a resize or of job control keeps the sizes *)
(* and the thread's place in range.                                        *)
LEMMA ResizeStepInv == ResizeInv /\ [Next]_vars => ResizeInv'
<1> SUFFICES ASSUME ResizeInv, [Next]_vars PROVE ResizeInv'
  OBVIOUS
<1>0. PipeInv'
  BY WatcherStep, PipeStepInv DEF ResizeInv
<1> DEFINE Ranges == /\ {outer, pty, last, seen} \subseteq Sizes
                     /\ sizing \in {"start", "startsync", "waiting", "woken", "sync", "over"}
                     /\ {winch, continued, foreground} \subseteq BOOLEAN
                     /\ resizes \in 0 .. MaxResizes
<1>a. Ranges
  BY DEF ResizeInv
<1> SUFFICES Ranges'
  BY <1>0 DEF ResizeInv
<1>1. CASE \E size \in Sizes : Resize(size)
  BY <1>1, <1>a, ResizeAssumptions DEF Resize, threadVars
<1>2. CASE ToBackground \/ ToForeground
  BY <1>2, <1>a DEF ToBackground, ToForeground, threadVars
<1>3. CASE \E h \in Handlers : TakeWinch(h)
  BY <1>3, <1>a DEF TakeWinch, threadVars
<1>4. CASE \E c \in Callers : WakeAfterContinue(c)
  BY <1>4, <1>a DEF WakeAfterContinue, threadVars
<1>5. CASE \E n \in Notifiers : NotifyStep(n)
  BY <1>5, <1>a DEF NotifyStep, worldVars, threadVars, sizeVars
<1>6. CASE StartStep
  BY <1>6, <1>a DEF StartStep, worldVars, threadVars, sizeVars
<1>7. CASE StopBegins
  BY <1>7, <1>a DEF StopBegins, worldVars, threadVars, sizeVars
<1>8. CASE (StopWatcher /\ UNCHANGED sizeVars) \/ (OtherFile /\ UNCHANGED sizeVars)
  BY <1>8, <1>a DEF worldVars, threadVars, sizeVars
<1>9. CASE Thread
  BY <1>9, <1>a DEF Thread, ReadSize, StartSync, SyncSize, Woken, WatchEnds, worldVars, threadVars, sizeVars
<1>10. CASE UNCHANGED vars
  BY <1>10, <1>a DEF vars, worldVars, threadVars, sizeVars
<1> QED
  BY <1>1, <1>2, <1>3, <1>4, <1>5, <1>6, <1>7, <1>8, <1>9, <1>10 DEF Next

(* The watcher keeps the pipe's invariant and its own ranges. *)
THEOREM ResizeSafety == Spec => []ResizeInv
<1>1. Init => ResizeInv
  <2> SUFFICES ASSUME Init PROVE ResizeInv
    OBVIOUS
  <2>1. PipeInv
    BY PipeInitInv DEF Init
  <2>2. /\ {outer, pty, last, seen} \subseteq Sizes
        /\ sizing \in {"start", "startsync", "waiting", "woken", "sync", "over"}
        /\ {winch, continued, foreground} \subseteq BOOLEAN
    BY DEF Init
  <2>3. resizes \in 0 .. MaxResizes
    BY ResizeAssumptions DEF Init
  <2> QED
    BY <2>1, <2>2, <2>3 DEF ResizeInv
<1> QED
  BY <1>1, ResizeStepInv, PTL DEF Spec
=============================================================================
