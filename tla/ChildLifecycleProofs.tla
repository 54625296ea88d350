------------------------ MODULE ChildLifecycleProofs ------------------------
(***************************************************************************)
(* The child and the threads that signal and reap it: whatever the child   *)
(* does about its signals and however the threads overlap, nobody is left  *)
(* running, and a stranger with the child's number is struck on one path   *)
(* only.  And the command before it is a child: it ends as from a shell.   *)
(***************************************************************************)
EXTENDS WrappedCommand, Integers, Sequences, SequenceTheorems, WellFoundedInduction, TLAPS

-----------------------------------------------------------------------------
(* Types *)

(* Every step keeps the places of the threads and the types of what they share. *)
LEMMA TypeKept == TypeOK /\ [Next]_vars => TypeOK'
<1> SUFFICES ASSUME TypeOK, [Next]_vars PROVE TypeOK'
  OBVIOUS
<1> USE DEF TypeOK, Cleaners,
            worldVars, lockVars, threadVars, resultVars
<1>1. CASE World /\ UNCHANGED <<lockVars, threadVars, resultVars>>
  BY <1>1 DEF World, Fork, OthersExit, ChildExits, Unstick, ReuseNumber
<1>2. ASSUME NEW t \in Cleaners, CleanupOf(t) PROVE TypeOK'
  <2> USE DEF CleanupOf, CleanupStep, CleanupPlaces
  <2>1. CASE Kill(t, "hup") \/ Kill(t, "kill")
    <3>1. pending' \subseteq {"hup", "kill", "stop"} /\ others' \in BOOLEAN
      BY <2>1 DEF Kill
    <3>2. struck' \subseteq {"main", "watcher", "input"}
      BY <2>1 DEF Kill
    <3>3. cleanup' \in [Cleaners -> CleanupPlaces]
      BY <1>2 DEF Cleanup, HangUp, SeeExit, SeeNoChild, KillRemains, CollectLeader,
                  GraceEnds, KillStubborn, TryReap, StopTrying
    <3>4. UNCHANGED <<child, ignoresHup, stuck, stranger, lockVars, main, watch, input,
                      resultVars>>
      BY <1>2, <2>1 DEF Kill
    <3> QED
      BY <3>1, <3>2, <3>3, <3>4
  <2>2. CASE SeeExit(t) \/ SeeNoChild(t) \/ GraceEnds(t) \/ StopTrying(t)
    <3>1. cleanup' \in [Cleaners -> CleanupPlaces]
      BY <2>2 DEF SeeExit, SeeNoChild, GraceEnds, StopTrying
    <3>2. UNCHANGED <<worldVars, lockVars, main, watch, input, resultVars>>
      BY <1>2, <2>2 DEF SeeExit, SeeNoChild, GraceEnds, StopTrying
    <3> QED
      BY <3>1, <3>2
  <2>3. CASE CollectLeader(t) \/ TryReap(t)
    <3>1. child' \in {"none", "running", "zombie", "reaped"}
      BY <2>3 DEF CollectLeader, TryReap, Reap
    <3>2. cleanup' \in [Cleaners -> CleanupPlaces]
      BY <2>3 DEF CollectLeader, TryReap
    <3>3. UNCHANGED <<pending, ignoresHup, stuck, others, stranger, struck, lockVars,
                      main, watch, input, resultVars>>
      BY <1>2, <2>3 DEF CollectLeader, TryReap, Reap
    <3> QED
      BY <3>1, <3>2, <3>3
  <2> QED
    BY <1>2, <2>1, <2>2, <2>3 DEF Cleanup, HangUp, KillRemains, KillStubborn
<1>3. CASE Main
  <2> USE DEF MainStep, MainPlaces
  <2>1. CASE Spawn \/ SpawnFails \/ Register
    BY <2>1 DEF Spawn, SpawnFails, Register
  <2>2. CASE RestoreMask \/ StartLoop \/ SetUpFails
    BY <2>2 DEF RestoreMask, StartLoop, SetUpFails
  <2>8. CASE StartInput
    BY <2>8 DEF StartInput, InputPlaces
  <2>3. CASE StreamEnds \/ StreamFails \/ WaitForExit
    BY <2>3 DEF StreamEnds, StreamFails, WaitForExit
  <2>4. CASE LockForReap \/ ReapChild \/ ClearRegistration
    BY <2>4 DEF LockForReap, ReapChild, ClearRegistration, Acquire, Release, Reap
  <2>5. CASE ClaimChild
    BY <2>5 DEF ClaimChild, Acquire, CleanupStep, CleanupPlaces
  <2>6. CASE ClaimOver \/ TakeFailure
    BY <2>6 DEF ClaimOver, TakeFailure, Release
  <2>7. CASE EndSession
    BY <2>7 DEF EndSession, WatchPlaces
  <2> QED
    BY <1>3, <2>1, <2>2, <2>3, <2>4, <2>5, <2>6, <2>7, <2>8 DEF Main, Onward
<1>4. CASE Watcher \/ Continue
  <2> USE DEF WatchStep, WatchPlaces
  <2>1. CASE TakeTerminating \/ TakeStop \/ NothingToTerminate \/ Continue
    BY <2>1 DEF TakeTerminating, TakeStop, NothingToTerminate, Continue
  <2>2. CASE TakeOver
    BY <2>2 DEF TakeOver, Acquire, CleanupStep, CleanupPlaces
  <2>3. CASE TakeOverDone \/ ExitBySignal \/ LockToForward
    BY <2>3 DEF TakeOverDone, ExitBySignal, LockToForward, Acquire, Release
  <2>4. CASE Forward
    BY <2>4 DEF Forward, Release, Kill
  <2> QED
    BY <1>4, <2>1, <2>2, <2>3, <2>4 DEF Watcher, WatcherOnward
<1>5. CASE Input \/ CloseSlave
  <2> USE DEF InputStep, InputPlaces
  <2>1. CASE InputFails \/ LockToWake \/ CloseSlave
    BY <2>1 DEF InputFails, LockToWake, CloseSlave, Acquire
  <2>2. CASE HangUpGroup
    BY <2>2 DEF HangUpGroup, Kill
  <2>3. CASE KillGroup
    <3>1. pending' \subseteq {"hup", "kill", "stop"} /\ others' \in BOOLEAN
      BY <2>3 DEF KillGroup, Kill
    <3>2. struck' \subseteq {"main", "watcher", "input"}
      BY <2>3 DEF KillGroup, Kill
    <3>3. input' \in InputPlaces /\ lock' = None
      BY <2>3 DEF KillGroup, Release
    <3>4. UNCHANGED <<child, ignoresHup, stuck, stranger, registered, main, watch, cleanup,
                      resultVars>>
      BY <2>3 DEF KillGroup, Kill
    <3> QED
      BY <3>1, <3>2, <3>3, <3>4
  <2> QED
    BY <1>5, <2>1, <2>2, <2>3 DEF Input, InputOnward
<1>6. CASE UNCHANGED vars
  BY <1>6 DEF vars
<1> QED
  BY <1>1, <1>2, <1>3, <1>4, <1>5, <1>6 DEF Next, Wrapper

-----------------------------------------------------------------------------
(* Custody: the lock, the registration and the cleanups.  Each step of each *)
(* thread keeps the three parts of the invariant.                           *)

(* Three steps that are long to check with everything expanded. *)

(* The input worker starts. *)
LEMMA StartInputCustody ==
  ASSUME ChildInv, outcome = None, StartInput PROVE Places' /\ Custody' /\ Outcomes'
<1> USE DEF ChildInv, Places, Custody, Outcomes, StartInput, MainStep, worldVars, lockVars,
            resultVars
<1>1. Places'
  <2>1. LockDiscipline'
    BY DEF LockDiscipline, QuietStart
  <2>2. CleanupPlace'
    BY DEF CleanupPlace, CleaningUp
  <2>3. QuietStart'
    BY DEF QuietStart, Masked
  <2> QED
    BY <2>1, <2>2, <2>3
<1>2. Custody'
  BY DEF RegisteredExists, SomebodyTookOver, CleanupProgress, CleaningUp
<1>3. Outcomes'
  BY NoneAssumption DEF NobodyLeftRunning, HangUpIsReported, LeavingNobody, EndedWhere
<1> QED
  BY <1>1, <1>2, <1>3

(* The wait of reap_child. *)
LEMMA WaitCustody ==
  ASSUME ChildInv, outcome = None, WaitForExit PROVE Places' /\ Custody' /\ Outcomes'
<1> USE DEF ChildInv, Places, Custody, Outcomes, worldVars, lockVars, resultVars
<1>1. /\ main = "waiting" /\ main' \in {"exitseen", "finishing"}
      /\ main' = "exitseen" => child = "zombie"
      /\ main' = "finishing" => child = "reaped"
      /\ UNCHANGED <<worldVars, lockVars, watch, input, cleanup, resultVars>>
  BY DEF WaitForExit, MainStep
<1>2. Places'
  BY <1>1 DEF LockDiscipline, CleanupPlace, CleaningUp, QuietStart, Masked
<1>3. Custody'
  BY <1>1 DEF RegisteredExists, SomebodyTookOver, CleanupProgress, CleaningUp
<1>4. Outcomes'
  BY <1>1, NoneAssumption DEF NobodyLeftRunning, HangUpIsReported, LeavingNobody, EndedWhere
<1> QED
  BY <1>2, <1>3, <1>4

(* forward_signal_to_child: under the lock a registered number is the child's. *)
LEMMA ForwardCustody ==
  ASSUME ChildInv, outcome = None, Forward PROVE Places' /\ Custody' /\ Outcomes'
<1> USE DEF ChildInv, Places, Custody, Outcomes
<1>1. /\ watch \in {"forwardstop", "forwardcont"} /\ watch' \in {"stopped", "idle"}
      /\ lock = "watcher" /\ lock' = None
      /\ UNCHANGED <<child, ignoresHup, stuck, stranger, registered, main, input, cleanup,
                     slaveClosed, inputFailed, outcome>>
  BY DEF Forward, WatchStep, Release, Kill, worldVars, resultVars, LockDiscipline
<1>2. ("kill" \in pending => "kill" \in pending') /\ (others' => others)
  BY DEF Forward, WatchStep, Kill, worldVars, TypeOK
<1>3. Places'
  BY <1>1, NoneAssumption
  DEF LockDiscipline, CleanupPlace, CleaningUp, QuietStart, Masked
<1>4. Custody'
  BY <1>1, <1>2
  DEF RegisteredExists, SomebodyTookOver, CleanupProgress, CleaningUp, Cleaners
<1>5. Outcomes'
  BY <1>1, <1>2 DEF NobodyLeftRunning, HangUpIsReported, LeavingNobody, EndedWhere, Cleaners
<1> QED
  BY <1>3, <1>4, <1>5
(* Every other step. *)

USE NoneAssumption
DEF ChildInv, TypeOK, Cleaners,
    Places, LockDiscipline, CleanupPlace, CleaningUp, QuietStart, Masked,
    Custody, RegisteredExists, SomebodyTookOver, CleanupProgress,
    Outcomes, NobodyLeftRunning, HangUpIsReported, LeavingNobody, EndedWhere,
    worldVars, lockVars, threadVars, resultVars

(* The child, its descendants and the kernel. *)
LEMMA WorldCustody ==
  ASSUME ChildInv, World, UNCHANGED <<lockVars, threadVars, resultVars>>
  PROVE  Places' /\ Custody' /\ Outcomes'
<1>1. CASE Fork
  BY <1>1 DEF Fork
<1>2. CASE OthersExit
  <2>1. Places'
    BY <1>2 DEF OthersExit
  <2>2. Custody'
    BY <1>2 DEF OthersExit
  <2>3. Outcomes'
    BY <1>2 DEF OthersExit
  <2> QED
    BY <2>1, <2>2, <2>3
<1>3. CASE ChildExits
  <2>1. Places'
    BY <1>3 DEF ChildExits
  <2>2. Custody'
    BY <1>3 DEF ChildExits
  <2>3. Outcomes'
    BY <1>3 DEF ChildExits
  <2> QED
    BY <2>1, <2>2, <2>3
<1>4. CASE Unstick
  <2>1. Places'
    BY <1>4 DEF Unstick
  <2>2. Custody'
    BY <1>4 DEF Unstick
  <2>3. Outcomes'
    BY <1>4 DEF Unstick
  <2> QED
    BY <2>1, <2>2, <2>3
<1>5. CASE ReuseNumber
  <2>1. Places'
    BY <1>5 DEF ReuseNumber
  <2>2. Custody'
    BY <1>5 DEF ReuseNumber
  <2>3. Outcomes'
    BY <1>5 DEF ReuseNumber
  <2> QED
    BY <2>1, <2>2, <2>3
<1> QED
  BY <1>1, <1>2, <1>3, <1>4, <1>5 DEF World

(* terminate_and_reap_process_group *)
LEMMA CleanupCustody ==
  ASSUME ChildInv, outcome = None, NEW t \in Cleaners, CleanupOf(t)
  PROVE  Places' /\ Custody' /\ Outcomes'
<1>1. CASE HangUp(t)
  BY <1>1 DEF CleanupOf, HangUp, Kill, CleanupStep
<1>2. CASE SeeExit(t)
  BY <1>2 DEF CleanupOf, SeeExit, CleanupStep
<1>3. CASE SeeNoChild(t)
  BY <1>3 DEF CleanupOf, SeeNoChild, CleanupStep
<1>4. CASE KillRemains(t)
  BY <1>4 DEF CleanupOf, KillRemains, Kill, CleanupStep
<1>5. CASE CollectLeader(t)
  BY <1>5 DEF CleanupOf, CollectLeader, Reap, CleanupStep
<1>6. CASE GraceEnds(t)
  BY <1>6 DEF CleanupOf, GraceEnds, CleanupStep
<1>7. CASE KillStubborn(t)
  BY <1>7 DEF CleanupOf, KillStubborn, Kill, CleanupStep
<1>8. CASE TryReap(t)
  BY <1>8 DEF CleanupOf, TryReap, Reap, CleanupStep
<1>9. CASE StopTrying(t)
  BY <1>9 DEF CleanupOf, StopTrying, CleanupStep
<1> QED
  BY <1>1, <1>2, <1>3, <1>4, <1>5, <1>6, <1>7, <1>8, <1>9 DEF CleanupOf, Cleanup

(* The main thread up to the end of the stream *)
LEMMA SessionCustody ==
  ASSUME ChildInv, outcome = None,
         \/ Spawn \/ SpawnFails \/ Register \/ RestoreMask \/ StartInput \/ StartLoop
         \/ SetUpFails \/ StreamEnds \/ StreamFails
  PROVE  Places' /\ Custody' /\ Outcomes'
<1>1. CASE Spawn
  BY <1>1 DEF Spawn, MainStep
<1>2. CASE SpawnFails
  BY <1>2 DEF SpawnFails, MainStep
<1>3. CASE Register
  BY <1>3 DEF Register, MainStep
<1>4. CASE RestoreMask
  BY <1>4 DEF RestoreMask, MainStep
<1>5. CASE StartInput
  BY <1>5, StartInputCustody
<1>6. CASE StartLoop
  BY <1>6 DEF StartLoop, MainStep
<1>7. CASE SetUpFails
  BY <1>7 DEF SetUpFails
<1>8. CASE StreamEnds
  BY <1>8 DEF StreamEnds, MainStep
<1>9. CASE StreamFails
  BY <1>9 DEF StreamFails, MainStep
<1> QED
  BY <1>1, <1>2, <1>3, <1>4, <1>5, <1>6, <1>7, <1>8, <1>9

(* The main thread after it *)
LEMMA EndCustody ==
  ASSUME ChildInv, outcome = None,
         \/ WaitForExit \/ LockForReap \/ ReapChild \/ ClearRegistration
         \/ ClaimChild \/ ClaimOver \/ TakeFailure \/ EndSession
  PROVE  Places' /\ Custody' /\ Outcomes'
<1>1. CASE WaitForExit
  BY <1>1, WaitCustody
<1>2. CASE LockForReap
  BY <1>2 DEF LockForReap, Acquire, MainStep
<1>3. CASE ReapChild
  BY <1>3 DEF ReapChild, Reap, MainStep
<1>4. CASE ClearRegistration
  BY <1>4 DEF ClearRegistration, Release, MainStep
<1>5. CASE ClaimChild
  BY <1>5 DEF ClaimChild, Acquire, CleanupStep, MainStep
<1>6. CASE ClaimOver
  BY <1>6 DEF ClaimOver, Release, MainStep
<1>7. CASE TakeFailure
  BY <1>7 DEF TakeFailure, MainStep
<1>8. CASE EndSession
  BY <1>8 DEF EndSession
<1> QED
  BY <1>1, <1>2, <1>3, <1>4, <1>5, <1>6, <1>7, <1>8

(* The signal watcher *)
LEMMA WatcherCustody ==
  ASSUME ChildInv, outcome = None, Watcher \/ Continue
  PROVE  Places' /\ Custody' /\ Outcomes'
<1>1. CASE TakeTerminating
  BY <1>1 DEF TakeTerminating, WatchStep
<1>2. CASE TakeOver
  BY <1>2 DEF TakeOver, Acquire, CleanupStep, WatchStep
<1>3. CASE NothingToTerminate
  BY <1>3 DEF NothingToTerminate, WatchStep
<1>4. CASE TakeOverDone
  BY <1>4 DEF TakeOverDone, Release, WatchStep
<1>5. CASE ExitBySignal
  BY <1>5 DEF ExitBySignal, WatchStep
<1>6. CASE TakeStop
  BY <1>6 DEF TakeStop, WatchStep
<1>7. CASE LockToForward
  BY <1>7 DEF LockToForward, Acquire, WatchStep
<1>8. CASE Forward
  BY <1>8, ForwardCustody
<1>9. CASE Continue
  BY <1>9 DEF Continue, WatchStep
<1> QED
  BY <1>1, <1>2, <1>3, <1>4, <1>5, <1>6, <1>7, <1>8, <1>9 DEF Watcher, WatcherOnward

(* The input worker, and the thread that closes the slave *)
LEMMA InputCustody ==
  ASSUME ChildInv, outcome = None, Input \/ CloseSlave
  PROVE  Places' /\ Custody' /\ Outcomes'
<1>1. CASE InputFails
  BY <1>1 DEF InputFails, InputStep
<1>2. CASE LockToWake
  BY <1>2 DEF LockToWake, Acquire, InputStep
<1>3. CASE HangUpGroup
  BY <1>3 DEF HangUpGroup, Kill, InputStep
<1>4. CASE KillGroup
  BY <1>4 DEF KillGroup, Kill, Release, InputStep, GroupExists
<1>5. CASE CloseSlave
  <2>1. Places'
    BY <1>5 DEF CloseSlave
  <2>2. Custody'
    BY <1>5 DEF CloseSlave
  <2>3. Outcomes'
    BY <1>5 DEF CloseSlave
  <2> QED
    BY <2>1, <2>2, <2>3
<1> QED
  BY <1>1, <1>2, <1>3, <1>4, <1>5 DEF Input, InputOnward

HIDE DEF Places, Custody, Outcomes, TypeOK

LEMMA NextInv == ChildInv /\ [Next]_vars => ChildInv'
<1> SUFFICES ASSUME ChildInv, [Next]_vars PROVE Places' /\ Custody' /\ Outcomes'
  BY TypeKept
<1>1. CASE World /\ UNCHANGED <<lockVars, threadVars, resultVars>>
  BY <1>1, WorldCustody
<1>2. CASE Running /\ Main
  BY <1>2, SessionCustody, EndCustody DEF Running, Main, Onward
<1>3. CASE Running /\ (Watcher \/ Continue)
  BY <1>3, WatcherCustody DEF Running
<1>4. CASE outcome = None /\ Continue
  BY <1>4, WatcherCustody
<1>5. CASE Running /\ (Input \/ CloseSlave)
  BY <1>5, InputCustody DEF Running
<1>6. CASE Running /\ \E t \in Cleaners : CleanupOf(t)
  BY <1>6, CleanupCustody DEF Running
<1>7. CASE UNCHANGED vars
  BY <1>7
  DEF vars, Places, LockDiscipline, CleanupPlace, QuietStart, Custody, RegisteredExists,
      SomebodyTookOver, CleanupProgress, Outcomes, NobodyLeftRunning, HangUpIsReported,
      LeavingNobody, EndedWhere
<1> QED
  BY <1>1, <1>2, <1>3, <1>4, <1>5, <1>6, <1>7 DEF Next, Wrapper

(* It holds before the child is spawned. *)
LEMMA InitInv == Init => ChildInv
BY DEF Init, TypeOK, MainPlaces, WatchPlaces, InputPlaces, CleanupPlaces, Places, Custody,
       Outcomes

-----------------------------------------------------------------------------
(* The strike: who signals a number that is a stranger's. *)

(* Of the three threads only the main one, in its failure path, signals a   *)
(* number it does not know to be the child's, and then the watcher has      *)
(* reaped the child and is on its way out.                                  *)
LEMMA StrikeKept ==
  ASSUME ChildInv, StrangerNotStruck, [Next]_vars
  PROVE  StrangerNotStruck'
<1> USE DEF StrangerNotStruck, Places, Custody, TypeOK
<1>1. ASSUME NEW t \in Cleaners, CleanupOf(t) PROVE StrangerNotStruck'
  <2>1. watch' = watch /\ struck' \in {struck, IF stranger THEN struck \cup {t} ELSE struck}
        /\ CleaningUp(t)
    BY <1>1 DEF CleanupOf, Cleanup, HangUp, SeeExit, SeeNoChild, KillRemains, CollectLeader,
               GraceEnds, KillStubborn, TryReap, StopTrying, Kill, Reap, CleanupStep, worldVars
  <2>2. ASSUME stranger PROVE t = "main" /\ watch \in {"leaving", "left"}
    <3>1. child = "reaped"
      BY <2>2
    <3>2. t = "main"
      BY <2>1, <3>1
    <3>3. cleanup["watcher"] = "over" /\ lock = "main"
      BY <2>1, <3>1, <3>2
    <3> QED
      BY <3>2, <3>3
  <2> QED
    BY <2>1, <2>2
<1>2. ASSUME Forward PROVE StrangerNotStruck'
  <2>1. lock = "watcher" /\ watch \in {"forwardstop", "forwardcont"}
    BY <1>2 DEF Forward, WatchStep
  <2>2. registered => ~stranger
    BY <2>1
  <2>3. struck' = struck
    BY <1>2, <2>2 DEF Forward, Kill, worldVars
  <2> QED
    BY <2>1, <2>3
<1>3. ASSUME HangUpGroup \/ KillGroup PROVE StrangerNotStruck'
  <2>1. watch' = watch /\ input \in {"hangingup", "waiting"}
    BY <1>3 DEF HangUpGroup, KillGroup, InputStep
  <2>2. ~stranger
    BY <2>1
  <2> QED
    BY <1>3, <2>1, <2>2 DEF HangUpGroup, KillGroup, Kill
<1>4. ASSUME struck' = struck, watch \in {"leaving", "left"} => watch' \in {"leaving", "left"}
      PROVE  StrangerNotStruck'
  BY <1>4
<1>5. CASE World /\ UNCHANGED <<lockVars, threadVars, resultVars>>
  BY <1>4, <1>5 DEF World, Fork, OthersExit, ChildExits, Unstick, ReuseNumber, threadVars
<1>6. CASE Main
  BY <1>4, <1>6 DEF Main, Onward, Spawn, SpawnFails, Register, SetUpFails, StreamFails,
       RestoreMask, StartInput, StartLoop, StreamEnds, WaitForExit, LockForReap, ReapChild,
       ClearRegistration, ClaimChild, ClaimOver, TakeFailure, EndSession, Reap, worldVars
<1>7. CASE TakeTerminating \/ TakeOver \/ NothingToTerminate \/ TakeOverDone \/ ExitBySignal
           \/ TakeStop \/ LockToForward \/ Continue
  BY <1>4, <1>7 DEF TakeTerminating, TakeOver, NothingToTerminate, TakeOverDone, ExitBySignal,
       TakeStop, LockToForward, Continue, WatchStep, worldVars
<1>8. CASE InputFails \/ LockToWake \/ CloseSlave
  BY <1>4, <1>8 DEF InputFails, LockToWake, CloseSlave, worldVars, threadVars
<1>9. CASE UNCHANGED vars
  BY <1>4, <1>9 DEF vars, worldVars, threadVars
<1> QED
  BY <1>1, <1>2, <1>3, <1>5, <1>6, <1>7, <1>8, <1>9
  DEF Next, Wrapper, Watcher, WatcherOnward, Input, InputOnward

-----------------------------------------------------------------------------
(* However the main thread, the signal watcher and the input worker overlap, *)
(* and whatever the child does about its signals, the child is in somebody's *)
(* custody until it is reaped or condemned, a termination that is over has   *)
(* left nobody of its group, and a session that the input worker hung up     *)
(* does not report the exit status of the child it killed.                   *)
THEOREM ChildSafety == Spec => []ChildInv
<1>1. Init => ChildInv
  BY InitInv
<1>2. ChildInv /\ [Next]_vars => ChildInv'
  BY NextInv
<1> QED
  BY <1>1, <1>2, PTL DEF Spec

(* A stranger that came by the child's number is signalled on one path only: *)
(* by the main thread's failure path, when the watcher has reaped the child  *)
(* and is on its way out.                                                    *)
THEOREM StrangersAreSpared == Spec => []StrangerNotStruck
<1>1. Init => StrangerNotStruck
  BY DEF Init, StrangerNotStruck
<1>2. ChildInv /\ StrangerNotStruck /\ [Next]_vars => StrangerNotStruck'
  BY StrikeKept
<1> QED
  BY <1>1, <1>2, ChildSafety, PTL DEF Spec
-----------------------------------------------------------------------------
(* The command, before it is a child: the least of a set of numbers. *)

LEMMA LeastNatural ==
  ASSUME NEW T \in SUBSET Nat, T # {}
  PROVE  \E n \in T : \A m \in T : n <= m
<1> DEFINE Less == {ss \in Nat \X Nat : ss[1] < ss[2]}
<1>1. IsWellFoundedOn(Less, Nat)
  BY NatLessThanWellFounded, Zenon DEF OpToRel
<1>4. ASSUME NEW a \in Nat, NEW b \in Nat, <<a, b>> \notin Less PROVE b <= a
  BY <1>4
<1> HIDE DEF Less
<1>2. PICK n \in T : \A m \in T : <<m, n>> \notin Less
  BY <1>1, WFMin
<1>3. \A m \in T : n <= m
  BY <1>2, <1>4
<1> QED
  BY <1>3

LEMMA MinIsLeast ==
  ASSUME NEW T \in SUBSET Nat, T # {}
  PROVE  Command!Min(T) \in T /\ \A m \in T : Command!Min(T) <= m
<1>1. PICK n \in T : \A m \in T : n <= m
  BY LeastNatural
<1> QED
  BY <1>1 DEF Command!Min

(* The least of a set is the least of a larger one that adds greater ones. *)
LEMMA MinStays ==
  ASSUME NEW T \in SUBSET Nat, T # {}, NEW U \in SUBSET Nat, T \subseteq U,
         \A u \in U : u \in T \/ \E t \in T : t <= u
  PROVE  Command!Min(U) = Command!Min(T)
<1> DEFINE a == Command!Min(T)
           b == Command!Min(U)
<1>1. a \in T /\ \A m \in T : a <= m
  BY MinIsLeast
<1>2. b \in U /\ \A m \in U : b <= m
  BY MinIsLeast
<1> HIDE DEF a, b
<1>3. a \in Nat /\ b \in Nat /\ b <= a
  BY <1>1, <1>2
<1>4. a <= b
  <2>1. CASE b \in T
    BY <1>1, <2>1
  <2>2. ASSUME NEW t \in T, t <= b PROVE a <= b
    <3>1. t \in Nat /\ a <= t
      BY <1>1
    <3> QED
      BY <1>3, <2>2, <3>1
  <2> QED
    BY <1>2, <2>1, <2>2
<1>5. a = b
  BY <1>3, <1>4
<1> QED
  BY <1>5 DEF a, b

(* What a line names, in a buffer of n bytes. *)
Buffer(text, n) == [i \in 1 .. n |-> IF i <= Len(text) THEN text[i] ELSE "nul"]
Ends(text, n, marks) == {i \in 1 .. n : Buffer(text, n)[i] \in marks}
End(text, n, marks) == IF Ends(text, n, marks) = {} THEN n + 1 ELSE Command!Min(Ends(text, n, marks))
Inked(text, n, marks) == {i \in 1 .. End(text, n, marks) - 1 : Buffer(text, n)[i] # "blank"}
First(text, n, marks) == Command!Min(Inked(text, n, marks))
Breaks(text, n, marks) ==
  {i \in First(text, n, marks) .. End(text, n, marks) - 1 : Buffer(text, n)[i] \in {"blank", "nul"}}
Stop(text, n, marks) ==
  IF Breaks(text, n, marks) = {} THEN End(text, n, marks) ELSE Command!Min(Breaks(text, n, marks))
Name(text, n, marks) == SubSeq(Buffer(text, n), First(text, n, marks), Stop(text, n, marks) - 1)

LEMMA NameFacts ==
  ASSUME NEW text, NEW n, NEW marks, NEW unended \in BOOLEAN, NEW whole \in BOOLEAN
  PROVE  Command!NameInLine(text, [size |-> n, ends |-> marks, unended |-> unended], whole) =
           IF \/ Inked(text, n, marks) = {} \/ Name(text, n, marks) = <<>>
              \/ Ends(text, n, marks) = {} /\
                   (~unended \/ (Breaks(text, n, marks) = {} /\ whole))
           THEN None ELSE Name(text, n, marks)
BY DEF Command!NameInLine, Name, Stop, Breaks, First, Inked, End, Ends, Buffer

(* A name that a buffer holds whole is the name in a longer buffer too. *)
LEMMA LongerBuffer ==
  ASSUME NEW text \in Seq(STRING), NEW n \in Nat, NEW N \in Nat, n > 0, n <= N, NEW marks,
         "nul" \in marks, Inked(text, n, marks) # {},
         Ends(text, n, marks) # {} \/ Breaks(text, n, marks) # {}
  PROVE  /\ Inked(text, N, marks) # {}
         /\ Ends(text, N, marks) # {} \/ Breaks(text, N, marks) # {}
         /\ Name(text, N, marks) = Name(text, n, marks)
<1> DEFINE b == Buffer(text, n)
           B == Buffer(text, N)
           e == Ends(text, n, marks)
           E == Ends(text, N, marks)
           f == End(text, n, marks)
           F == End(text, N, marks)
           k == Inked(text, n, marks)
           K == Inked(text, N, marks)
           r == Breaks(text, n, marks)
           R == Breaks(text, N, marks)
<1>1. \A i \in 1 .. n : i \in 1 .. N /\ B[i] = b[i]
  BY DEF Buffer
<1>2. e \in SUBSET Nat /\ E \in SUBSET Nat /\ e \subseteq E
  BY <1>1 DEF Ends
<1>3. \A i \in E : i \in e \/ i > n
  BY <1>1 DEF Ends
<1>4. f \in Nat /\ F \in Nat /\ 1 <= f /\ f <= n + 1 /\ f <= F /\ F <= N + 1
      /\ (e # {} => F = f) /\ (e = {} => f = n + 1)
  <2>1. CASE e # {}
    <3>1. Command!Min(E) = Command!Min(e)
      <4>1. \A u \in E : u \in e \/ \E t \in e : t <= u
        <5>1. PICK t \in e : TRUE
          BY <2>1
        <5>2. t \in Nat /\ t <= n
          BY <5>1 DEF Ends
        <5> QED
          BY <1>2, <1>3, <5>1, <5>2
      <4> HIDE DEF e, E
      <4> QED
        BY <1>2, <2>1, <4>1, MinStays
    <3>2. Command!Min(e) \in e
      BY <1>2, <2>1, MinIsLeast
    <3> QED
      BY <1>2, <2>1, <3>1, <3>2 DEF End, Ends
  <2>2. CASE e = {}
    <3>1. f = n + 1
      BY <2>2 DEF End
    <3>2. CASE E = {}
      BY <2>2, <3>1, <3>2 DEF End
    <3>3. CASE E # {}
      <4>1. Command!Min(E) \in E
        BY <1>2, <3>3, MinIsLeast
      <4>2. F \in E
        BY <3>3, <4>1 DEF End
      <4>3. F \in 1 .. N /\ F > n
        BY <1>3, <2>2, <4>2 DEF Ends
      <4> QED
        BY <2>2, <3>1, <4>3
    <3> QED
      BY <3>2, <3>3
  <2> QED
    BY <2>1, <2>2
<1>5. k \in SUBSET Nat /\ K \in SUBSET Nat /\ k \subseteq K /\ \A i \in K : i \in k \/ i >= f
  BY <1>1, <1>4 DEF Inked
<1>6. /\ First(text, N, marks) = First(text, n, marks)
      /\ First(text, n, marks) \in 1 .. f - 1
  <2>1. PICK t \in k : TRUE
    OBVIOUS
  <2>2. t \in Nat /\ t < f
    BY <1>4, <2>1 DEF Inked
  <2>3. \A u \in K : u \in k \/ \E v \in k : v <= u
    BY <1>4, <1>5, <2>1, <2>2
  <2>4. Command!Min(k) \in k
    BY <1>5, MinIsLeast
  <2>5. Command!Min(K) = Command!Min(k)
    BY <1>5, <2>3, MinStays
  <2> QED
    BY <2>4, <2>5 DEF First, Inked
<1>7. r \in SUBSET Nat /\ R \in SUBSET Nat /\ r \subseteq R /\ \A i \in R : i \in r \/ i >= f
  BY <1>1, <1>4, <1>6 DEF Breaks
<1>8. /\ Stop(text, N, marks) = Stop(text, n, marks)
      /\ Stop(text, n, marks) \in 1 .. f
  <2>1. CASE r # {}
    <3>1. PICK t \in r : TRUE
      BY <2>1
    <3>2. t \in Nat /\ t < f
      BY <1>4, <1>6, <3>1 DEF Breaks
    <3>3. \A u \in R : u \in r \/ \E v \in r : v <= u
      BY <1>4, <1>7, <3>1, <3>2
    <3>4. Command!Min(r) \in r
      BY <1>7, <2>1, MinIsLeast
    <3>5. Command!Min(R) = Command!Min(r)
      BY <1>7, <2>1, <3>3, MinStays
    <3>6. R # {}
      BY <1>7, <2>1
    <3>7. Command!Min(r) \in 1 .. f
      BY <1>4, <1>6, <3>4 DEF Breaks
    <3> QED
      BY <2>1, <3>5, <3>6, <3>7 DEF Stop
  <2>2. CASE r = {}
    <3>1. e # {} /\ F = f
      BY <1>4, <2>2
    <3>2. R = {}
      BY <1>1, <1>4, <1>6, <2>2, <3>1 DEF Breaks
    <3> QED
      BY <1>4, <2>2, <3>1, <3>2 DEF Stop
  <2> QED
    BY <2>1, <2>2
<1>9. Name(text, N, marks) = Name(text, n, marks)
  <2> DEFINE i == First(text, n, marks)
             j == Stop(text, n, marks) - 1
             C == STRING \cup {"nul"}
  <2>1. i \in Int /\ j \in Int /\ i >= 1 /\ j <= n
    BY <1>4, <1>6, <1>8
  <2> HIDE DEF i, j
  <2>2. \A x \in i .. j : b[x] \in C /\ B[x] \in C /\ B[x] = b[x]
    <3> SUFFICES ASSUME NEW x \in i .. j PROVE b[x] \in C /\ B[x] = b[x]
      OBVIOUS
    <3>1. x \in 1 .. n
      BY <2>1
    <3>2. b[x] = IF x <= Len(text) THEN text[x] ELSE "nul"
      BY <3>1 DEF Buffer
    <3>3. B[x] = b[x]
      BY <1>1, <3>1
    <3>4. CASE x <= Len(text)
      <4>1. x \in 1 .. Len(text)
        BY <3>1, <3>4
      <4>2. text[x] \in STRING
        BY <4>1
      <4> HIDE DEF b, B
      <4> QED
        BY <3>2, <3>3, <3>4, <4>2
    <3>5. CASE ~(x <= Len(text))
      <4>1. "nul" \in C
        OBVIOUS
      <4> HIDE DEF b, B
      <4> QED
        BY <3>2, <3>3, <3>5, <4>1
    <3> QED
      BY <3>4, <3>5
  <2> HIDE DEF b, B, C
  <2>3. /\ SubSeq(b, i, j) \in Seq(C)
        /\ Len(SubSeq(b, i, j)) = IF i <= j THEN j - i + 1 ELSE 0
        /\ \A x \in 1 .. j - i + 1 : SubSeq(b, i, j)[x] = b[i + x - 1]
    <3>1. \A x \in i .. j : b[x] \in C
      BY <2>2
    <3> QED
      BY <2>1, <3>1, SubSeqProperties
  <2>4. /\ SubSeq(B, i, j) \in Seq(C)
        /\ Len(SubSeq(B, i, j)) = IF i <= j THEN j - i + 1 ELSE 0
        /\ \A x \in 1 .. j - i + 1 : SubSeq(B, i, j)[x] = B[i + x - 1]
    <3>1. \A x \in i .. j : B[x] \in C
      BY <2>2
    <3> QED
      BY <2>1, <3>1, SubSeqProperties
  <2>5. \A x \in 1 .. j - i + 1 : i + x - 1 \in i .. j
    BY <2>1
  <2>6. SubSeq(B, i, j) = SubSeq(b, i, j)
    <3> DEFINE s == SubSeq(b, i, j)
               t == SubSeq(B, i, j)
    <3>1. Len(s) = Len(t) /\ \A x \in 1 .. Len(s) : s[x] = t[x]
      BY <2>1, <2>2, <2>3, <2>4, <2>5
    <3>2. s \in Seq(C) /\ t \in Seq(C)
      BY <2>3, <2>4
    <3>3. s = t
      <4> HIDE DEF s, t
      <4> QED
        BY <3>1, <3>2, SeqEqual
    <3> QED
      BY <3>3
  <2> QED
    BY <1>6, <1>8, <2>6 DEF Name, i, j, b, B
<1> QED
  BY <1>2, <1>5, <1>7, <1>9

-----------------------------------------------------------------------------
(* What the check takes for the interpreter is what the kernel takes for it. *)
LEMMA KernelAgrees ==
  ASSUME Command!SpawnConstants, setup \in Command!Invocations, NEW text \in Seq(STRING),
         setup.kernel # "unknown",
         Command!ScriptInterpreter(text, Command!KernelShebang) # None
  PROVE  Command!KernelInterpreter(text)
           = Command!ScriptInterpreter(text, Command!KernelShebang)
<1> DEFINE syntax == Command!KernelShebang
           marks == syntax.ends
           n == BufferBytes
           Whole == /\ Inked(text, n, marks) # {} /\ Name(text, n, marks) # <<>>
                    /\ Ends(text, n, marks) = {} =>
                         syntax.unended /\ Breaks(text, n, marks) # {}
<1>1. /\ syntax = [size |-> n, ends |-> marks, unended |-> syntax.unended]
      /\ syntax.unended \in BOOLEAN
      /\ setup.kernel # "xnu" => "nul" \in marks /\ syntax.unended
  BY DEF Command!KernelShebang, Command!LinuxShebang, Command!XnuShebang
<1>2. /\ n \in Nat /\ n > 0 /\ LongBuffer \in Nat /\ n <= LongBuffer
      /\ setup.kernel \in {"cuts", "refuses", "long", "xnu"}
  BY DEF Command!SpawnConstants, Command!Invocations, Command!Kernels
<1> HIDE DEF syntax
<1>3. Whole /\ Command!ScriptInterpreter(text, syntax) = Name(text, n, marks)
  <2>1. Command!ScriptInterpreter(text, syntax) # None
    BY DEF syntax
  <2>2. Command!ScriptInterpreter(text, syntax) = Command!NameInLine(text, syntax, TRUE)
    BY DEF Command!ScriptInterpreter
  <2>3. Command!NameInLine(text, syntax, TRUE) =
          Command!NameInLine(text, [size |-> n, ends |-> marks, unended |-> syntax.unended], TRUE)
    <3>1. syntax = [size |-> n, ends |-> marks, unended |-> syntax.unended]
      BY <1>1
    <3> QED
      BY <3>1, Zenon
  <2> DEFINE unended == syntax.unended
             name == Command!ScriptInterpreter(text, syntax)
  <2>4. unended \in BOOLEAN
    BY <1>1
  <2> HIDE DEF n, marks, unended
  <2>5. Command!NameInLine(text, [size |-> n, ends |-> marks, unended |-> unended], TRUE) =
          IF \/ Inked(text, n, marks) = {} \/ Name(text, n, marks) = <<>>
             \/ Ends(text, n, marks) = {} /\ (~unended \/ (Breaks(text, n, marks) = {} /\ TRUE))
          THEN None ELSE Name(text, n, marks)
    BY <2>4, NameFacts, Zenon
  <2>6. name = IF \/ Inked(text, n, marks) = {} \/ Name(text, n, marks) = <<>>
                  \/ Ends(text, n, marks) = {} /\ (~unended \/ Breaks(text, n, marks) = {})
               THEN None ELSE Name(text, n, marks)
    BY <2>2, <2>3, <2>5, Zenon DEF unended
  <2> HIDE DEF name
  <2>7. name # None
    BY <2>1 DEF name
  <2>8. Whole /\ name = Name(text, n, marks)
    BY <2>4, <2>6, <2>7, Zenon DEF unended
  <2> QED
    BY <2>8 DEF name
<1>4. CASE setup.kernel # "long"
  <2> DEFINE whole == setup.kernel # "cuts"
  <2>1. Command!KernelInterpreter(text) =
          Command!NameInLine(text, [size |-> n, ends |-> marks, unended |-> syntax.unended], whole)
    <3>1. [syntax EXCEPT !.size = IF setup.kernel = "long" THEN LongBuffer ELSE @]
            = [size |-> n, ends |-> marks, unended |-> syntax.unended]
      BY <1>1, <1>4
    <3> QED
      BY <3>1 DEF Command!KernelInterpreter, syntax
  <2>2. whole \in BOOLEAN
    OBVIOUS
  <2> HIDE DEF n, marks, whole
  <2> QED
    BY <1>1, <1>3, <2>1, <2>2, NameFacts DEF syntax
<1>5. CASE setup.kernel = "long"
  <2>1. Command!KernelInterpreter(text) =
          Command!NameInLine(text, [size |-> LongBuffer, ends |-> marks, unended |-> syntax.unended], TRUE)
    <3>1. [syntax EXCEPT !.size = IF setup.kernel = "long" THEN LongBuffer ELSE @]
            = [size |-> LongBuffer, ends |-> marks, unended |-> syntax.unended]
      BY <1>1, <1>5
    <3>2. setup.kernel # "cuts"
      BY <1>5
    <3> QED
      BY <3>1, <3>2 DEF Command!KernelInterpreter, syntax
  <2>2. /\ Inked(text, LongBuffer, marks) # {}
        /\ Ends(text, LongBuffer, marks) # {} \/ Breaks(text, LongBuffer, marks) # {}
        /\ Name(text, LongBuffer, marks) = Name(text, n, marks)
    <3>1. "nul" \in marks /\ Inked(text, n, marks) # {}
          /\ (Ends(text, n, marks) # {} \/ Breaks(text, n, marks) # {})
      BY <1>1, <1>3, <1>5
    <3> HIDE DEF n, marks
    <3> QED
      BY <1>2, <3>1, LongerBuffer
  <2>3. syntax.unended
    BY <1>1, <1>5
  <2> HIDE DEF n, marks
  <2> QED
    BY <1>1, <1>3, <2>1, <2>2, <2>3, NameFacts DEF syntax
<1> QED
  BY <1>4, <1>5 DEF syntax

-----------------------------------------------------------------------------
(* Looking the program up *)

Tried == Command!ProgramCandidates(setup.program, Command!StartDirectory)

(* It is not named relative to a directory the child does not start in. *)
OwnDirectory ==
  \/ setup.entered
  \/ "here" \notin {Command!ProgramCandidates(setup.program, "here")[i] :
                      i \in DOMAIN Command!ProgramCandidates(setup.program, "here")}

LEMMA SearchFacts ==
  ASSUME setup \in Command!Invocations, NEW base \in {"here", "home"}
  PROVE  /\ Command!SearchPath(base, "bin") \in Seq({"here", "home", "bin"})
         /\ Len(Command!SearchPath(base, "bin")) = Len(setup.path)
         /\ DOMAIN Command!SearchPath(base, "bin") = 1 .. Len(setup.path)
         /\ \A i \in 1 .. Len(setup.path) :
              Command!SearchPath(base, "bin")[i] = IF setup.path[i] = "." THEN base ELSE "bin"
<1>1. setup.path \in Seq({".", "bin"}) /\ Len(setup.path) \in Nat
  BY DEF Command!Invocations
<1> QED
  BY <1>1 DEF Command!SearchPath

LEMMA TriedFacts ==
  ASSUME setup \in Command!Invocations
  PROVE  Tried \in Seq(Command!Places)
<1> DEFINE base == Command!StartDirectory
<1>1. base \in {"here", "home"} /\ setup.program \in Command!Programs
  BY DEF Command!StartDirectory, Command!Invocations
<1>2. Command!SearchPath(base, "bin") \in Seq(Command!Places)
  <2> HIDE DEF base
  <2>1. /\ Command!SearchPath(base, "bin") \in Seq({"here", "home", "bin"})
    BY <1>1, SearchFacts
  <2>2. {"here", "home", "bin"} \subseteq Command!Places
    BY DEF Command!Places
  <2> QED
    BY <2>1, <2>2
<1>3. base \in Command!Places /\ "bin" \in Command!Places
  BY <1>1 DEF Command!Places
<1> HIDE DEF base
<1>4. Command!ProgramCandidates(setup.program, base) \in Seq(Command!Places)
  BY <1>1, <1>2, <1>3 DEF Command!ProgramCandidates, Command!Programs
<1> QED
  BY <1>4 DEF Tried, base

(* The name that is looked up never is one portable-pty would search for.    *)
LEMMA StartCandidates ==
  ASSUME setup \in Command!Invocations
  PROVE  /\ Command!SpawnCandidates = Tried
         /\ \A base : Command!ProgramCandidates(Command!CwdRelativeProgram(setup.program), base)
                        = Command!ProgramCandidates(setup.program, base)
<1> DEFINE p == setup.program
           q == Command!CwdRelativeProgram(p)
           C(r, base) == Command!ProgramCandidates(r, base)
<1>1. p \in Command!Programs /\ q \in Command!Programs /\ q # "bin/tool"
      /\ setup.interactive \in BOOLEAN
  BY DEF Command!Invocations, Command!CwdRelativeProgram, Command!Programs
<1>2. \A base : C(q, base) = C(p, base)
  BY DEF Command!ProgramCandidates, Command!CwdRelativeProgram
<1>3. \A base : Command!PortableCandidates(q, base) = C(q, base)
  BY <1>1 DEF Command!PortableCandidates
<1>5. Command!SpawnCandidates = IF setup.interactive
                                THEN Command!PortableCandidates(q, Command!StartDirectory)
                                ELSE C(q, Command!StartDirectory)
  BY DEF Command!SpawnCandidates
<1>6. Tried = C(p, Command!StartDirectory)
  BY DEF Tried
<1> QED
  BY <1>2, <1>3, <1>5, <1>6

(* Wherever it is looked up, the same candidates. *)
LEMMA SameCandidates ==
  ASSUME setup \in Command!Invocations, OwnDirectory
  PROVE  /\ Command!ProgramCandidates(Command!CwdRelativeProgram(setup.program), "here") = Tried
         /\ Command!SpawnCandidates = Tried
         /\ Command!ProgramCandidates(Command!CwdRelativeProgram(setup.program),
              Command!StartDirectory) = Tried
<1> DEFINE p == setup.program
           C(r, base) == Command!ProgramCandidates(r, base)
<1>1. p \in Command!Programs
  BY DEF Command!Invocations
<1>4. C(p, "here") = C(p, Command!StartDirectory)
  <2>1. CASE setup.entered
    BY <2>1 DEF Command!StartDirectory
  <2>2. CASE ~setup.entered
    <3>1. Command!StartDirectory = "home"
      BY <2>2 DEF Command!StartDirectory
    <3>2. \A i \in DOMAIN C(p, "here") : C(p, "here")[i] # "here"
      BY <2>2 DEF OwnDirectory
    <3>3. CASE p = "bare"
      <4>1. C(p, "here") = Command!SearchPath("here", "bin")
            /\ C(p, "home") = Command!SearchPath("home", "bin")
        BY <3>3 DEF Command!ProgramCandidates
      <4>2. \A i \in 1 .. Len(setup.path) : setup.path[i] # "."
        BY <3>2, <4>1, SearchFacts
      <4>3. Command!SearchPath("here", "bin") = Command!SearchPath("home", "bin")
        BY <4>2 DEF Command!SearchPath
      <4> QED
        BY <3>1, <4>1, <4>3
    <3>4. CASE p \in {"empty", "/bin/tool"}
      BY <3>1, <3>4 DEF Command!ProgramCandidates
    <3>5. CASE p \in {"bin/tool", "./bin/tool"}
      <4>1. C(p, "here") = <<"here">>
        BY <3>5 DEF Command!ProgramCandidates
      <4>2. 1 \in DOMAIN C(p, "here") /\ C(p, "here")[1] = "here"
        BY <4>1
      <4> HIDE DEF C
      <4> QED
        BY <3>2, <4>2
    <3> QED
      BY <1>1, <3>3, <3>4, <3>5 DEF Command!Programs
  <2> QED
    BY <2>1, <2>2
<1>5. Tried = C(p, Command!StartDirectory)
  BY DEF Tried
<1> QED
  BY <1>4, <1>5, StartCandidates

(* A program is found where a file can be executed. *)
LEMMA FoundFacts ==
  ASSUME Command!SpawnConstants, setup \in Command!Invocations,
         NEW w \in Command!FileSystems, NEW list \in Seq(Command!Places)
  PROVE  LET found == Command!ResolveProgram(w, list)
         IN /\ found = None <=> Command!Viable(w, list) = {}
            /\ found # None => /\ found \in Command!Places /\ Command!Executable(w.files[found])
                               /\ Command!Seen(w, found) = w.files[found]
<1> DEFINE V == Command!Viable(w, list)
           k == Command!Min(V)
<1>1. V \in SUBSET Nat
  BY DEF Command!Viable
<1>2. ASSUME V # {} PROVE k \in V
  BY <1>1, <1>2, MinIsLeast
<1>3. ASSUME NEW i \in V
      PROVE  /\ list[i] \in Command!Places /\ list[i] # None
             /\ Command!Executable(Command!Seen(w, list[i]))
  <2>1. i \in 1 .. Len(list) /\ Command!Executable(Command!Seen(w, list[i]))
    BY <1>3 DEF Command!Viable
  <2>2. list[i] \in Command!Places
    BY <2>1
  <2> QED
    BY <2>1, <2>2 DEF Command!SpawnConstants
<1>4. ASSUME NEW p, Command!Executable(Command!Seen(w, p))
      PROVE  Command!Seen(w, p) = w.files[p] /\ Command!Executable(w.files[p])
  BY <1>4 DEF Command!Seen, Command!Executable
<1>5. Command!ResolveProgram(w, list) = IF V = {} THEN None ELSE list[k]
  BY DEF Command!ResolveProgram
<1> HIDE DEF V, k
<1> QED
  BY <1>2, <1>3, <1>4, <1>5 DEF V, k

LEMMA FoundPlace ==
  ASSUME Command!SpawnConstants, setup \in Command!Invocations,
         Command!World \in Command!FileSystems
  PROVE  Command!ResolveProgram(Command!World, Command!SpawnCandidates)
           \in Command!Places \cup {None}
<1> DEFINE w == Command!World
<1>1. Tried \in Seq(Command!Places) /\ Command!SpawnCandidates = Tried
  BY TriedFacts, StartCandidates
<1> HIDE DEF w
<1>2. Command!ResolveProgram(w, Tried) \in Command!Places \cup {None}
  BY <1>1, FoundFacts DEF w
<1> QED
  BY <1>1, <1>2 DEF w

(* It is still the first when it alone has changed, and can be executed.  *)
LEMMA StillFound ==
  ASSUME Command!SpawnConstants, setup \in Command!Invocations,
         NEW w \in Command!FileSystems, NEW v \in Command!FileSystems,
         NEW list \in Seq(Command!Places), NEW p \in Command!Places,
         Command!ResolveProgram(w, list) = p,
         \A q \in Command!Places : q # p => v.files[q] = w.files[q],
         Command!Executable(v.files[p])
  PROVE  Command!ResolveProgram(v, list) = p
<1> DEFINE V == Command!Viable(w, list)
           U == Command!Viable(v, list)
<1>1. V \in SUBSET Nat /\ U \in SUBSET Nat
  BY DEF Command!Viable
<1>2. p # None
  BY DEF Command!SpawnConstants
<1>3. V # {}
  BY <1>2 DEF Command!ResolveProgram
<1>4. list[Command!Min(V)] = p
  BY <1>2, <1>3 DEF Command!ResolveProgram
<1>5. Command!Min(V) \in V /\ \A m \in V : Command!Min(V) <= m
  BY <1>1, <1>3, MinIsLeast
<1>6. ASSUME NEW i \in 1 .. Len(list)
      PROVE  i \in U <=> i \in V
  <2>1. list[i] \in Command!Places
    OBVIOUS
  <2>2. CASE list[i] # p
    BY <2>1, <2>2 DEF Command!Viable, Command!Seen
  <2>3. CASE list[i] = p
    <3>1. Command!Executable(Command!Seen(w, p))
      BY <1>4, <1>5 DEF Command!Viable
    <3>2. Command!Executable(Command!Seen(v, p))
      BY <3>1 DEF Command!Seen, Command!Executable
    <3> QED
      BY <2>3, <3>1, <3>2 DEF Command!Viable
  <2> QED
    BY <2>2, <2>3
<1>7. U = V
  BY <1>6 DEF Command!Viable
<1>8. Command!ResolveProgram(v, list) = list[Command!Min(V)]
  BY <1>3, <1>7 DEF Command!ResolveProgram
<1> QED
  BY <1>4, <1>8

-----------------------------------------------------------------------------
(* How a spawn ends *)

Answers(end) ==
  OwnDirectory =>
    \/ \E w \in Command!Worlds : end = Command!ShellOutcome(w)
    \/ /\ before # None /\ Command!Failed(end)
       /\ \/ \E w \in Command!Worlds : Command!Failed(Command!ShellOutcome(w))
          \/ resolved # None /\ files[resolved] # before.files[resolved]
    \/ end = Command!Aborted /\ setup.interactive /\ Command!OnlyExecKnows
    \/ end = Command!Code(1) /\ ~setup.entered /\ ~setup.homeOpen

Shared == <<setup, files, line, usable, denial, before>>

(* Of given files, the invocation decides what is found and what comes of it. *)
LEMMA SetupDecides ==
  ASSUME setup' = setup
  PROVE  /\ \A w : (Command!ShellOutcome(w))' = Command!ShellOutcome(w)
         /\ OwnDirectory' <=> OwnDirectory
         /\ \A w : (Command!InterpreterRefusal(w))' = Command!InterpreterRefusal(w)
         /\ \A w : (Command!ResolveProgram(w, Command!SpawnCandidates))'
                     = Command!ResolveProgram(w, Command!SpawnCandidates)
<1>1. \A p, base : (Command!ProgramCandidates(p, base))' = Command!ProgramCandidates(p, base)
  BY DEF Command!ProgramCandidates, Command!SearchPath
<1>2. \A w, list : (Command!ResolveProgram(w, list))' = Command!ResolveProgram(w, list)
  BY DEF Command!ResolveProgram, Command!Viable, Command!Seen
<1>3. Command!StartDirectory' = Command!StartDirectory
  BY DEF Command!StartDirectory
<1>4. \A w, place : (Command!ExecError(w, place))' = Command!ExecError(w, place)
  BY DEF Command!ExecError, Command!KernelInterpreter, Command!KernelShebang
<1>5. \A w, place : (Command!Seen(w, place))' = Command!Seen(w, place)
  BY DEF Command!Seen
<1>6. Command!KernelShebang' = Command!KernelShebang
  BY DEF Command!KernelShebang
<1>7. Command!SpawnCandidates' = Command!SpawnCandidates
  BY <1>1, <1>3 DEF Command!SpawnCandidates, Command!PortableCandidates, Command!SearchPath
<1>8. \A w : (Command!ShellOutcome(w))' = Command!ShellOutcome(w)
  BY <1>1, <1>2, <1>3, <1>4, <1>5 DEF Command!ShellOutcome
<1>9. \A w : (Command!InterpreterRefusal(w))' = Command!InterpreterRefusal(w)
  BY <1>1, <1>2, <1>5, <1>6 DEF Command!InterpreterRefusal
<1>10. OwnDirectory' <=> OwnDirectory
  BY <1>1 DEF OwnDirectory
<1> QED
  BY <1>2, <1>7, <1>8, <1>9, <1>10

LEMMA EndsAsShell ==
  ASSUME NEW end, Command!Ends(end), UNCHANGED Shared, Answers(end)
  PROVE  Command!SpawnsAsAShell'
<1>1. result' = end /\ resolved' = resolved
  BY DEF Command!Ends
<1>2. Command!OnlyExecKnows' <=> Command!OnlyExecKnows
  BY <1>1 DEF Shared, Command!OnlyExecKnows, Command!KernelShebang
<1>3. before' = before /\ files' = files /\ setup' = setup
  BY DEF Shared
<1>4. Command!Worlds' = Command!Worlds
  BY DEF Shared, Command!Worlds, Command!World
<1> QED
  BY <1>1, <1>2, <1>3, <1>4, SetupDecides
  DEF Answers, Command!SpawnsAsAShell, OwnDirectory, Command!Failed, Command!Aborted, Command!Code

(* Unended, it has no outcome yet to compare. *)
LEMMA NotYet == ASSUME result' = None PROVE Command!SpawnsAsAShell'
BY DEF Command!SpawnsAsAShell

LEMMA ShellFails ==
  ASSUME Command!SpawnConstants, NEW w, Command!ResolveProgram(w, Tried) = None
  PROVE  /\ Command!ShellOutcome(w) =
              IF \E i \in 1 .. Len(Tried) : Command!Seen(w, Tried[i]) # "none"
              THEN Command!Code(126) ELSE Command!Code(127)
         /\ Command!Failed(Command!ShellOutcome(w))
<1>1. Command!ShellOutcome(w) =
              IF \E i \in 1 .. Len(Tried) : Command!Seen(w, Tried[i]) # "none"
              THEN Command!Code(126) ELSE Command!Code(127)
  BY DEF Command!ShellOutcome, Tried
<1>2. Command!Failed(Command!Code(126)) /\ Command!Failed(Command!Code(127))
  BY DEF Command!Failed, Command!Code
<1> QED
  BY <1>1, <1>2

LEMMA ShellExecutes ==
  ASSUME Command!SpawnConstants, NEW w, NEW p, p # None, Command!ResolveProgram(w, Tried) = p
  PROVE  /\ Command!ExecError(w, p) = None => Command!ShellOutcome(w) = Command!Ran(p)
         /\ Command!ExecError(w, p) # None =>
              /\ Command!ShellOutcome(w) = Command!ExecFailureExitCode(Command!ExecError(w, p))
              /\ Command!Failed(Command!ShellOutcome(w))
<1>1. Command!ShellOutcome(w) = IF Command!ExecError(w, p) = None THEN Command!Ran(p)
                                ELSE Command!ExecFailureExitCode(Command!ExecError(w, p))
  BY DEF Command!ShellOutcome, Tried
<1>2. \A error : Command!Failed(Command!ExecFailureExitCode(error))
  BY DEF Command!Failed, Command!ExecFailureExitCode, Command!Code
<1> QED
  BY <1>1, <1>2

(* A refusal is what execve would have said. *)
LEMMA RefusalAnswers ==
  ASSUME Command!SpawnConstants, Command!SpawnInv,
         Command!InterpreterRefusal(Command!World) # None
  PROVE  Answers(Command!InterpreterRefusal(Command!World))
<1> DEFINE w == Command!World
           p == Command!ResolveProgram(w, Tried)
           name == Command!ScriptInterpreter(line, Command!KernelShebang)
<1>1. SUFFICES ASSUME OwnDirectory
               PROVE  Command!InterpreterRefusal(w) = Command!ShellOutcome(w)
  BY DEF Answers, Command!Worlds
<1>2. /\ setup \in Command!Invocations /\ w \in Command!FileSystems /\ line \in Seq(STRING)
      /\ w.line = line
  BY DEF Command!SpawnInv, Command!TypeOK, Command!World, Command!FileSystems
<1>3. Tried \in Seq(Command!Places)
  BY <1>2, TriedFacts
<1>4. Command!ProgramCandidates(Command!CwdRelativeProgram(setup.program), "here") = Tried
  BY <1>1, <1>2, SameCandidates
<1> HIDE DEF w
<1>5. /\ setup.kernel # "unknown" /\ p # None /\ Command!Seen(w, p) = "script" /\ name # None
      /\ Command!InterpreterState(w, name) # "usable"
      /\ Command!InterpreterRefusal(w) = IF Command!InterpreterState(w, name) = "none"
                                         THEN Command!Code(127) ELSE Command!Code(126)
  BY <1>2, <1>4 DEF Command!InterpreterRefusal, w
<1>6. w.files[p] = "script"
  BY <1>2, <1>3, <1>5, FoundFacts
<1>7. Command!KernelInterpreter(line) = name
  BY <1>2, <1>5, KernelAgrees
<1> HIDE DEF p, name
<1>8. Command!ExecError(w, p) = IF Command!InterpreterState(w, name) = "none" THEN "ENOENT" ELSE "EACCES"
  BY <1>2, <1>5, <1>6, <1>7 DEF Command!ExecError
<1>9. Command!ExecError(w, p) # None
  BY <1>8 DEF Command!SpawnConstants
<1>10. Command!ShellOutcome(w) = Command!ExecFailureExitCode(Command!ExecError(w, p))
  BY <1>5, <1>9, ShellExecutes DEF p
<1> QED
  BY <1>5, <1>8, <1>10 DEF Command!ExecFailureExitCode

(* A program that was not found. *)
LEMMA ReportAnswers ==
  ASSUME Command!SpawnConstants, Command!SpawnInv, at = "report"
  PROVE  Answers(Command!SpawnFailureExitCode(Command!World,
                   Command!ProgramCandidates(Command!CwdRelativeProgram(setup.program),
                     IF setup.interactive THEN "here" ELSE Command!StartDirectory)))
<1> DEFINE v == Command!World
           end == Command!SpawnFailureExitCode(v, Tried)
<1>1. /\ setup \in Command!Invocations /\ v \in Command!FileSystems
      /\ before \in Command!FileSystems \cup {None}
  BY DEF Command!SpawnInv, Command!TypeOK
<1>2. SUFFICES ASSUME OwnDirectory PROVE Answers(end)
  BY <1>1, SameCandidates DEF Answers
<1>3. Tried \in Seq(Command!Places) /\ Command!SpawnCandidates = Tried
  BY <1>1, <1>2, TriedFacts, SameCandidates
<1>4. Command!Failed(end)
  BY DEF Command!SpawnFailureExitCode, Command!Failed, Command!Code
<1>5. CASE Command!Viable(v, Tried) = {}
  <2>1. Command!ResolveProgram(v, Tried) = None
    BY <1>5 DEF Command!ResolveProgram
  <2>2. end = Command!ShellOutcome(v)
    BY <1>5, <2>1, ShellFails DEF Command!SpawnFailureExitCode
  <2> QED
    BY <2>2 DEF Answers, Command!Worlds
<1>6. CASE Command!Viable(v, Tried) # {}
  <2>1. end = Command!Code(1)
    BY <1>6 DEF Command!SpawnFailureExitCode
  <2>2. CASE ~setup.entered /\ ~setup.homeOpen
    BY <2>1, <2>2 DEF Answers
  <2>3. CASE resolved = None
    <3>1. PICK w \in Command!Worlds : Command!ResolveProgram(w, Tried) = None
      BY <1>3, <2>3 DEF Command!SpawnInv, Command!OnItsWay
    <3>2. w # v
      BY <1>1, <1>3, <1>6, <3>1, FoundFacts
    <3>3. before # None
      BY <3>1, <3>2 DEF Command!Worlds
    <3>4. Command!Failed(Command!ShellOutcome(w))
      BY <3>1, ShellFails
    <3> QED
      BY <1>4, <3>1, <3>3, <3>4 DEF Answers
  <2> QED
    BY <2>2, <2>3 DEF Command!SpawnInv, Command!OnItsWay
<1> QED
  BY <1>5, <1>6

(* What becomes of executing a program depends on its file and, for a script, *)
(* on the interpreters.                                                     *)
LEMMA ExecDepends ==
  ASSUME Command!SpawnConstants, NEW v \in Command!FileSystems, NEW w \in Command!FileSystems,
         NEW p \in Command!Places, v.files[p] = w.files[p], v.line = w.line, v.denial = w.denial
  PROVE  /\ v.usable = w.usable => Command!ExecError(v, p) = Command!ExecError(w, p)
         /\ v.usable = {} /\ Command!ExecError(w, p) # None => Command!ExecError(v, p) # None
<1>1. ASSUME v.usable = w.usable
      PROVE  Command!ExecError(v, p) = Command!ExecError(w, p)
  BY <1>1 DEF Command!ExecError, Command!InterpreterState
<1>2. ASSUME v.usable = {}, Command!ExecError(w, p) # None
      PROVE  Command!ExecError(v, p) # None
  <2>1. v.files[p] \in Command!Kinds /\ v.denial \in {"none", "denied"}
    BY DEF Command!FileSystems
  <2> QED
    BY <1>2, <2>1 DEF Command!ExecError, Command!InterpreterState, Command!SpawnConstants,
                      Command!Kinds
<1> QED
  BY <1>1, <1>2

(* A file that executes without an error is a program. *)
LEMMA NoErrorExecutes ==
  ASSUME Command!SpawnConstants, NEW v \in Command!FileSystems, NEW p \in Command!Places,
         Command!ExecError(v, p) = None
  PROVE  Command!Executable(v.files[p])
<1>1. v.files[p] \in Command!Kinds
  BY DEF Command!FileSystems
<1> QED
  BY <1>1 DEF Command!ExecError, Command!SpawnConstants, Command!Kinds, Command!Executable

(* Where the check passed, only what it does not look at can go wrong. *)
LEMMA CheckedExecutes ==
  ASSUME Command!SpawnConstants, Command!SpawnInv, OwnDirectory,
         resolved # None, Command!ResolveProgram(Command!World, Tried) = resolved,
         Command!InterpreterRefusal(Command!World) = None,
         Command!ExecError(Command!World, resolved) # None
  PROVE  Command!OnlyExecKnows
<1> DEFINE w == Command!World
           name == Command!ScriptInterpreter(line, Command!KernelShebang)
<1>1. SUFFICES ASSUME files[resolved] # "orphan", setup.kernel # "unknown", name # None,
                      setup.entered \/ name[1] = "/"
               PROVE  FALSE
  BY DEF Command!OnlyExecKnows
<1>2. /\ setup \in Command!Invocations /\ w \in Command!FileSystems /\ line \in Seq(STRING)
      /\ w.line = line /\ w.files = files
  BY DEF Command!SpawnInv, Command!TypeOK, Command!World, Command!FileSystems
<1>3. Tried \in Seq(Command!Places)
  BY <1>2, TriedFacts
<1>4. Command!ProgramCandidates(Command!CwdRelativeProgram(setup.program), "here") = Tried
  BY <1>2, SameCandidates
<1>5. Command!KernelInterpreter(line) = name
  BY <1>1, <1>2, KernelAgrees
<1> HIDE DEF w, name
<1>6. /\ Command!Executable(w.files[resolved])
      /\ Command!Seen(w, resolved) = w.files[resolved]
  BY <1>2, <1>3, FoundFacts DEF w
<1>7. w.files[resolved] \in {"binary", "script"}
  BY <1>1, <1>2, <1>6 DEF Command!Executable
<1>8. w.files[resolved] = "script" /\ Command!InterpreterState(w, name) # "usable"
  BY <1>1, <1>2, <1>5, <1>7 DEF Command!ExecError, w
<1>9. Command!InterpreterRefusal(w) = IF Command!InterpreterState(w, name) = "none"
                                      THEN Command!Code(127) ELSE Command!Code(126)
  BY <1>1, <1>2, <1>4, <1>6, <1>8 DEF Command!InterpreterRefusal, w, name
<1> QED
  BY <1>9 DEF w, Command!SpawnConstants

LEMMA ExecAnswers ==
  ASSUME Command!SpawnConstants, Command!SpawnInv, at = "exec"
  PROVE  LET error == Command!ExecError(Command!World, resolved)
         IN Answers(IF error = None THEN Command!Ran(resolved)
                    ELSE IF setup.interactive THEN Command!Aborted
                    ELSE Command!ExecFailureExitCode(error))
<1> DEFINE v == Command!World
           p == resolved
           error == Command!ExecError(v, p)
           end == IF error = None THEN Command!Ran(p)
                  ELSE IF setup.interactive THEN Command!Aborted
                  ELSE Command!ExecFailureExitCode(error)
<1>1. SUFFICES ASSUME OwnDirectory PROVE Answers(end)
  BY DEF Answers
<1>2. /\ setup \in Command!Invocations /\ v \in Command!FileSystems
      /\ before \in Command!FileSystems \cup {None}
      /\ p \in Command!Places /\ p # None
      /\ v.files = files /\ v.line = line /\ v.usable = usable /\ v.denial = denial
  BY DEF Command!SpawnInv, Command!TypeOK, Command!World, Command!OnItsWay
<1>3. Tried \in Seq(Command!Places) /\ Command!SpawnCandidates = Tried
  BY <1>1, <1>2, TriedFacts, SameCandidates
<1>4. PICK w \in Command!Worlds : Command!ResolveProgram(w, Tried) = p
  BY <1>3 DEF Command!SpawnInv, Command!OnItsWay
<1>5. v \in Command!Worlds /\ w \in {v, before} /\ (w # v => before # None /\ w = before)
  BY DEF Command!Worlds
<1>6. error # None => Command!Failed(end)
  BY DEF Command!Failed, Command!Aborted, Command!ExecFailureExitCode, Command!Code
<1> HIDE DEF v
<1>7. CASE w = v
  <2>1. CASE error = None \/ ~setup.interactive
    <3>1. end = Command!ShellOutcome(v)
      BY <1>2, <1>4, <1>7, <2>1, ShellExecutes
    <3> QED
      BY <1>5, <3>1 DEF Answers
  <2>2. CASE error # None /\ setup.interactive
    <3>1. end = Command!Aborted
      BY <2>2
    <3>2. CASE before # None
      <4>1. Command!Failed(Command!ShellOutcome(v))
        BY <1>2, <1>4, <1>7, <2>2, ShellExecutes
      <4> QED
        BY <1>5, <1>6, <2>2, <3>2, <4>1 DEF Answers
    <3>3. CASE before = None
      <4>1. Command!InterpreterRefusal(v) = None
        BY <3>3 DEF Command!SpawnInv, Command!OnItsWay, Command!Worlds, v
      <4>2. Command!OnlyExecKnows
        BY <1>1, <1>2, <1>4, <1>7, <2>2, <4>1, CheckedExecutes DEF v
      <4> QED
        BY <2>2, <3>1, <4>2 DEF Answers
    <3> QED
      BY <3>2, <3>3
  <2> QED
    BY <2>1, <2>2
<1>8. CASE w # v
  <2>1. /\ before # None /\ w = before /\ w \in Command!FileSystems
        /\ v.line = w.line /\ v.denial = w.denial
        /\ \/ /\ v.usable = w.usable
              /\ \A q, r \in Command!Places :
                   v.files[q] # w.files[q] /\ v.files[r] # w.files[r] => q = r
           \/ v.usable = {} /\ v.files = w.files
    BY <1>2, <1>5, <1>8 DEF Command!SpawnInv, Command!OneChange
  <2>2. CASE error = None
    <3>1. end = Command!Ran(p)
      BY <2>2
    <3>2. CASE Command!ExecError(w, p) = None
      <4>1. end = Command!ShellOutcome(w)
        BY <1>2, <1>4, <3>1, <3>2, ShellExecutes
      <4> QED
        BY <4>1 DEF Answers
    <3>3. CASE Command!ExecError(w, p) # None
      <4>1. v.files[p] # w.files[p]
        BY <1>2, <2>1, <2>2, <3>3, ExecDepends
      <4>2. \A q \in Command!Places : q # p => v.files[q] = w.files[q]
        BY <1>2, <2>1, <4>1
      <4>3. Command!Executable(v.files[p])
        BY <1>2, <2>2, NoErrorExecutes
      <4>4. Command!ResolveProgram(v, Tried) = p
        BY <1>2, <1>3, <1>4, <2>1, <4>2, <4>3, StillFound
      <4>5. end = Command!ShellOutcome(v)
        BY <1>2, <2>2, <3>1, <4>4, ShellExecutes
      <4> QED
        BY <1>5, <4>5 DEF Answers
    <3> QED
      BY <3>2, <3>3
  <2>3. CASE error # None
    <3>1. CASE Command!ExecError(w, p) # None
      <4>1. Command!Failed(Command!ShellOutcome(w))
        BY <1>2, <1>4, <3>1, ShellExecutes
      <4> QED
        BY <1>6, <2>1, <2>3, <4>1 DEF Answers
    <3>2. CASE v.files[p] # w.files[p]
      <4>1. files[resolved] # before.files[resolved]
        BY <1>2, <2>1, <3>2
      <4> QED
        BY <1>2, <1>6, <2>1, <2>3, <4>1 DEF Answers
    <3>3. CASE Command!ExecError(w, p) = None /\ v.files[p] = w.files[p]
      <4>1. v.files = w.files
        BY <1>2, <2>1, <2>3, <3>3, ExecDepends
      <4>2. Command!Executable(v.files[p])
        BY <1>2, <2>1, <3>3, NoErrorExecutes
      <4>3. Command!ResolveProgram(v, Tried) = p
        BY <1>2, <1>3, <1>4, <2>1, <4>1, <4>2, StillFound
      <4>4. Command!Failed(Command!ShellOutcome(v))
        BY <1>2, <2>3, <4>3, ShellExecutes
      <4> QED
        BY <1>5, <1>6, <2>1, <2>3, <4>4 DEF Answers
    <3> QED
      BY <3>1, <3>2, <3>3
  <2> QED
    BY <2>2, <2>3
<1> QED
  BY <1>7, <1>8 DEF v

-----------------------------------------------------------------------------
(* The steps *)

LEMMA SpawnStarts ==
  ASSUME Command!SpawnConstants, Command!Init
  PROVE  Command!SpawnInv
<1>1. PICK invocation \in Command!Invocations, w \in Command!FileSystems :
        Command!Begin(invocation, w)
  BY DEF Command!Init
<1>2. Command!World = w
  BY <1>1 DEF Command!Begin, Command!World, Command!FileSystems
<1>3. /\ setup \in Command!Invocations /\ Command!World \in Command!FileSystems
      /\ before = None /\ at = "check" /\ resolved = None /\ result = None
  BY <1>1, <1>2 DEF Command!Begin
<1> QED
  BY <1>3 DEF Command!SpawnInv, Command!TypeOK, Command!OneChange, Command!OnItsWay,
              Command!SpawnsAsAShell

(* A step that does not change the files keeps what is known of them. *)
LEMMA FilesKept ==
  ASSUME Command!SpawnInv, UNCHANGED Shared
  PROVE  /\ (setup \in Command!Invocations)' /\ (Command!World \in Command!FileSystems)'
         /\ (before \in Command!FileSystems \cup {None})' /\ Command!OneChange'
<1>1. Command!World' = Command!World
  BY DEF Shared, Command!World
<1>2. /\ setup' = setup /\ before' = before /\ files' = files /\ line' = line
      /\ usable' = usable /\ denial' = denial
  BY DEF Shared
<1>3. Command!OneChange'
  BY <1>2 DEF Command!SpawnInv, Command!OneChange, Command!Places
<1>4. /\ (setup \in Command!Invocations)' /\ (before \in Command!FileSystems \cup {None})'
  BY <1>2 DEF Command!SpawnInv, Command!TypeOK, Command!Invocations, Command!FileSystems
<1>5. (Command!World \in Command!FileSystems)'
  BY <1>1 DEF Command!SpawnInv, Command!TypeOK, Command!FileSystems
<1> QED
  BY <1>3, <1>4, <1>5

LEMMA EndKeeps ==
  ASSUME Command!SpawnInv, NEW end, Command!Ends(end), UNCHANGED Shared, Answers(end)
  PROVE  Command!SpawnInv'
<1>1. Command!SpawnsAsAShell'
  BY EndsAsShell
<1>2. Command!TypeOK' /\ Command!OneChange'
  BY FilesKept DEF Command!SpawnInv, Command!TypeOK, Command!Ends
<1>3. Command!OnItsWay'
  BY DEF Command!OnItsWay, Command!Ends
<1> QED
  BY <1>1, <1>2, <1>3 DEF Command!SpawnInv

(* One file, or all interpreters: what was so before is so of the files before. *)
LEMMA EditKeeps ==
  ASSUME Command!SpawnConstants, Command!SpawnInv, Command!Edit
  PROVE  Command!SpawnInv'
<1> DEFINE w == Command!World
<1>1. /\ setup' = setup /\ at' = at /\ resolved' = resolved /\ result' = None
      /\ before = None /\ before' = w /\ line' = line /\ denial' = denial
  BY DEF Command!Edit, Command!SpawnInv, Command!OnItsWay
<1>2. /\ w \in Command!FileSystems /\ w # None /\ w.files = files /\ w.usable = usable
      /\ w.line = line /\ w.denial = denial /\ files \in [Command!Places -> Command!Kinds]
  BY DEF Command!SpawnInv, Command!TypeOK, Command!World, Command!FileSystems,
         Command!SpawnConstants
<1>3. \/ /\ usable' = usable
         /\ \E place \in Command!Places, kind \in Command!Kinds :
              files' = [files EXCEPT ![place] = kind]
      \/ usable' = {} /\ files' = files
  BY DEF Command!Edit, Command!Places
<1>4. Command!World' \in Command!FileSystems
  <2>1. files' \in [Command!Places -> Command!Kinds]
    BY <1>2, <1>3
  <2>2. usable' \in SUBSET Seq(STRING) /\ line' \in Seq(STRING) /\ denial' \in {"none", "denied"}
    BY <1>1, <1>2, <1>3 DEF Command!FileSystems
  <2> QED
    BY <2>1, <2>2 DEF Command!World, Command!FileSystems
<1>5. Command!TypeOK'
  <2> HIDE DEF w
  <2> QED
    BY <1>1, <1>2, <1>4
    DEF Command!SpawnInv, Command!TypeOK, Command!Invocations, Command!FileSystems, Command!Places
<1>6. Command!OneChange'
  <2> HIDE DEF w
  <2> QED
    BY <1>1, <1>2, <1>3 DEF Command!OneChange, Command!Places
<1>7. \A x \in Command!Worlds : x \in Command!Worlds'
  BY <1>1, <1>2 DEF Command!Worlds
<1>8. Command!OnItsWay'
  BY <1>1, <1>7, SetupDecides DEF Command!SpawnInv, Command!OnItsWay
<1> QED
  BY <1>1, <1>5, <1>6, <1>8, NotYet DEF Command!SpawnInv

LEMMA SpawnKeeps ==
  ASSUME Command!SpawnConstants, Command!SpawnInv, [Command!Next]_(Command!vars)
  PROVE  Command!SpawnInv'
<1> USE DEF Shared, Command!worldVars
<1>1. CASE Command!Refuse
  <2> DEFINE end == Command!InterpreterRefusal(Command!World)
  <2>1. Command!Ends(end) /\ end # None /\ UNCHANGED Shared
    BY <1>1 DEF Command!Refuse
  <2>2. Answers(end)
    BY <2>1, RefusalAnswers
  <2> QED
    BY <2>1, <2>2, EndKeeps
<1>2. CASE Command!Accept
  <2>1. /\ UNCHANGED Shared /\ resolved' = resolved /\ result' = result /\ at' = "resolve"
        /\ at = "check" /\ Command!InterpreterRefusal(Command!World) = None
    BY <1>2 DEF Command!Accept
  <2>2. result = None /\ resolved = None
    BY <2>1 DEF Command!SpawnInv, Command!OnItsWay
  <2>3. Command!Worlds' = Command!Worlds /\ Command!World \in Command!Worlds
    BY <2>1 DEF Command!Worlds, Command!World
  <2>4. Command!OnItsWay'
    BY <2>1, <2>2, <2>3, SetupDecides DEF Command!OnItsWay
  <2>5. Command!TypeOK' /\ Command!OneChange'
    BY <2>1, <2>2, FilesKept DEF Command!TypeOK
  <2> QED
    BY <2>1, <2>2, <2>4, <2>5, NotYet DEF Command!SpawnInv
<1>3. CASE Command!Resolve
  <2> DEFINE found == Command!ResolveProgram(Command!World, Command!SpawnCandidates)
  <2>1. /\ UNCHANGED Shared /\ resolved' = found /\ result' = result
        /\ at' = IF found = None THEN "report" ELSE "exec"
        /\ at = "resolve"
    BY <1>3 DEF Command!Resolve
  <2>2. result = None
    BY <2>1 DEF Command!SpawnInv, Command!OnItsWay
  <2>3. Command!Worlds' = Command!Worlds /\ Command!World \in Command!Worlds
    BY <2>1 DEF Command!Worlds, Command!World
  <2>4. Command!OnItsWay'
    BY <2>1, <2>2, <2>3, SetupDecides DEF Command!SpawnInv, Command!OnItsWay
  <2>5. found \in Command!Places \cup {None}
    BY FoundPlace DEF Command!SpawnInv, Command!TypeOK
  <2>6. Command!TypeOK' /\ Command!OneChange'
    BY <2>1, <2>5, FilesKept DEF Command!TypeOK, Command!Places
  <2> QED
    BY <2>1, <2>2, <2>4, <2>6, NotYet DEF Command!SpawnInv
<1>4. CASE Command!Report
  <2> DEFINE end == Command!SpawnFailureExitCode(Command!World,
                      Command!ProgramCandidates(Command!CwdRelativeProgram(setup.program),
                        IF setup.interactive THEN "here" ELSE Command!StartDirectory))
  <2>1. Command!Ends(end) /\ at = "report" /\ UNCHANGED Shared
    BY <1>4 DEF Command!Report
  <2>2. Answers(end)
    BY <2>1, ReportAnswers
  <2> QED
    BY <2>1, <2>2, EndKeeps
<1>5. CASE Command!CannotEnter
  <2>1. /\ UNCHANGED Shared /\ at = "exec" /\ ~setup.entered /\ ~setup.homeOpen
    BY <1>5 DEF Command!CannotEnter
  <2>2. CASE setup.interactive
    <3>1. at' = "report" /\ resolved' = resolved /\ result' = result /\ result = None
      BY <1>5, <2>1, <2>2 DEF Command!CannotEnter, Command!SpawnInv, Command!OnItsWay
    <3>2. Command!Worlds' = Command!Worlds
      BY <2>1 DEF Command!Worlds, Command!World
    <3>3. Command!OnItsWay'
      BY <2>1, <3>1, <3>2, SetupDecides DEF Command!SpawnInv, Command!OnItsWay
    <3>4. Command!TypeOK' /\ Command!OneChange'
      BY <2>1, <3>1, FilesKept DEF Command!SpawnInv, Command!TypeOK
    <3> QED
      BY <3>1, <3>3, <3>4, NotYet DEF Command!SpawnInv
  <2>3. CASE ~setup.interactive
    <3>1. Command!Ends(Command!Code(1))
      BY <1>5, <2>3 DEF Command!CannotEnter
    <3>2. Answers(Command!Code(1))
      BY <2>1 DEF Answers
    <3> QED
      BY <2>1, <3>1, <3>2, EndKeeps
  <2> QED
    BY <2>2, <2>3
<1>6. CASE Command!Exec
  <2> DEFINE error == Command!ExecError(Command!World, resolved)
             end == IF error = None THEN Command!Ran(resolved)
                    ELSE IF setup.interactive THEN Command!Aborted
                    ELSE Command!ExecFailureExitCode(error)
  <2>1. Command!Ends(end) /\ at = "exec" /\ UNCHANGED Shared
    BY <1>6 DEF Command!Exec
  <2>2. Answers(end)
    BY <2>1, ExecAnswers
  <2> QED
    BY <2>1, <2>2, EndKeeps
<1>7. CASE Command!Edit
  BY <1>7, EditKeeps
<1>8. CASE UNCHANGED Command!vars
  <2>1. UNCHANGED Shared /\ at' = at /\ resolved' = resolved /\ result' = result
    BY <1>8 DEF Command!vars
  <2>2. Command!Worlds' = Command!Worlds
    BY <2>1 DEF Command!Worlds, Command!World
  <2>3. Command!OnItsWay' /\ Command!TypeOK' /\ Command!OneChange'
    BY <2>1, <2>2, SetupDecides, FilesKept DEF Command!SpawnInv, Command!OnItsWay, Command!TypeOK
  <2>4. Command!OnlyExecKnows' <=> Command!OnlyExecKnows
    BY <2>1 DEF Command!OnlyExecKnows, Command!KernelShebang
  <2>5. Command!SpawnsAsAShell'
    BY <2>1, <2>2, <2>4, SetupDecides
    DEF Command!SpawnInv, Command!SpawnsAsAShell, OwnDirectory, Command!Failed, Command!Aborted,
        Command!Code
  <2> QED
    BY <2>3, <2>5 DEF Command!SpawnInv
<1> QED
  BY <1>1, <1>2, <1>3, <1>4, <1>5, <1>6, <1>7, <1>8 DEF Command!Next

(* Whatever the program is called, whatever the PATH, wherever it and its      *)
(* interpreter are, and whenever the files change, the command ends as it    *)
(* would from a shell: what is resolved was found among the files of before  *)
(* or after, and the check passed on one of the two.                         *)
THEOREM RunsAsFromAShell == Command!Spec => []SpawnsAsAShell
<1>1. Command!Init => Command!SpawnInv
  BY SpawnStarts, SpawnAssumption
<1>2. Command!SpawnInv /\ [Command!Next]_(Command!vars) => Command!SpawnInv'
  BY SpawnKeeps, SpawnAssumption
<1>3. Command!SpawnInv => SpawnsAsAShell
  BY DEF SpawnsAsAShell
<1> QED
  BY <1>1, <1>2, <1>3, PTL DEF Command!Spec
=============================================================================
