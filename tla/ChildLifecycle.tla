--------------------------- MODULE ChildLifecycle ---------------------------
(***************************************************************************)
(* The wrapped child and the threads that signal and reap it               *)
(* (src/src/cli/pty.rs): the main thread spawns it, waits for it, or       *)
(* terminates it when something fails; the signal watcher forwards stops   *)
(* and terminates it; the input worker hangs it up when typing can no      *)
(* longer reach it.  FORWARD_CHILD_PID names it while it is registered and *)
(* FORWARD_CHILD_LOCK orders the three.                                    *)
(*                                                                         *)
(* The child leads a process group.  Its number is given to a stranger     *)
(* only once the child has been reaped and its group is empty, so what     *)
(* matters is who may still send a signal to the number then.  Every wait  *)
(* with a deadline may also end before what it waits for.                  *)
(***************************************************************************)
CONSTANT None

ASSUME NoneAssumption ==
  None \notin {"main", "watcher", "input",
              "child", "inputfailure", "setupfailure", "signal"}

VARIABLES
  child,           \* the leader of the group
  pending,         \* signals it has been sent
  ignoresHup,      \* what it does about a signal it can catch
  stuck,           \* it sits in an uninterruptible sleep
  others,          \* descendants are left in its group
  stranger,        \* another process has its number
  struck,          \* history: threads that signalled a stranger
  registered,      \* FORWARD_CHILD_PID is not zero
  lock,            \* holder of FORWARD_CHILD_LOCK
  slaveClosed,     \* the parent's copy of the slave is closed
  main, watch, input,  \* where each thread is
  cleanup,         \* where terminate_and_reap_process_group is, of its two callers
  inputFailed,     \* input_worker_failure holds an error
  outcome          \* how the wrapper ended, and what it reports

worldVars == <<child, pending, ignoresHup, stuck, others, stranger, struck>>
lockVars == <<registered, lock>>
threadVars == <<main, watch, input, cleanup>>
resultVars == <<slaveClosed, inputFailed, outcome>>
vars == <<worldVars, lockVars, threadVars, resultVars>>

Cleaners == {"main", "watcher"}
Masked == main \in {"start", "spawned", "setup"}
GroupExists == child \in {"running", "zombie"} \/ others \/ stranger

Init ==
  /\ child = "none" /\ pending = {} /\ others = FALSE
  /\ ignoresHup \in BOOLEAN /\ stuck \in BOOLEAN
  /\ stranger = FALSE /\ struck = {}
  /\ registered = FALSE /\ lock = None
  /\ main = "start" /\ watch = "idle" /\ input = "none"
  /\ cleanup = [t \in Cleaners |-> "none"]
  /\ slaveClosed = FALSE /\ inputFailed = FALSE /\ outcome = None

-----------------------------------------------------------------------------
(* The child, its descendants, and the kernel's use of the number *)

Fork ==
  /\ child = "running" /\ ~stuck /\ "kill" \notin pending /\ ~others
  /\ others' = TRUE
  /\ UNCHANGED <<child, pending, ignoresHup, stuck, stranger, struck>>

OthersExit ==
  /\ others
  /\ others' = FALSE
  /\ UNCHANGED <<child, pending, ignoresHup, stuck, stranger, struck>>

ChildExits ==
  /\ child = "running" /\ ~stuck
  /\ child' = "zombie"
  /\ UNCHANGED <<pending, ignoresHup, stuck, others, stranger, struck>>

Condemned ==
  \/ "kill" \in pending
  \/ "hup" \in pending /\ ~ignoresHup /\ "stop" \notin pending

ChildDies == Condemned /\ ChildExits

(* Its output is read, and the write it sleeps in ends. *)
Unstick ==
  /\ stuck
  /\ stuck' = FALSE
  /\ UNCHANGED <<child, pending, ignoresHup, others, stranger, struck>>

ReuseNumber ==
  /\ child = "reaped" /\ ~others /\ ~stranger
  /\ stranger' = TRUE
  /\ UNCHANGED <<child, pending, ignoresHup, stuck, others, struck>>

World == Fork \/ OthersExit \/ ChildExits \/ Unstick \/ ReuseNumber

(* kill(-pid, signal) by a thread. *)
Kill(t, signal) ==
  /\ pending' = IF child \notin {"running", "zombie"} THEN pending
                ELSE IF signal = "cont" THEN pending \ {"stop"}
                ELSE pending \cup {signal}
  /\ others' = (others /\ signal # "kill")
  /\ struck' = IF stranger THEN struck \cup {t} ELSE struck
  /\ UNCHANGED <<child, ignoresHup, stuck, stranger>>

(* waitpid on a child that can be reaped, or has been. *)
Reap ==
  /\ child' = IF child = "zombie" THEN "reaped" ELSE child
  /\ UNCHANGED <<pending, ignoresHup, stuck, others, stranger, struck>>

-----------------------------------------------------------------------------
(* The lock *)

Acquire(t) == lock = None /\ lock' = t
Release == lock' = None

-----------------------------------------------------------------------------
(* terminate_and_reap_process_group, by the holder of the lock *)

CleanupStep(t, from, to) ==
  /\ cleanup[t] = from
  /\ cleanup' = [cleanup EXCEPT ![t] = to]

HangUp(t) ==
  /\ CleanupStep(t, "begin", "grace")
  /\ Kill(t, "hup")

(* child_exit_is_waitable: the leader stays waitable until the last signal. *)
SeeExit(t) ==
  /\ child = "zombie"
  /\ CleanupStep(t, "grace", "waitable")
  /\ UNCHANGED worldVars

SeeNoChild(t) ==
  /\ child = "reaped"
  /\ CleanupStep(t, "grace", "over")
  /\ UNCHANGED worldVars

(* Fault: an exited leader is collected and its group left alone. *)
SpareRemains(t) ==
  /\ CleanupStep(t, "waitable", "killed")
  /\ UNCHANGED worldVars

KillRemains(t) ==
  /\ CleanupStep(t, "waitable", "killed")
  /\ Kill(t, "kill")

CollectLeader(t) ==
  /\ CleanupStep(t, "killed", "over")
  /\ Reap

GraceEnds(t) ==
  /\ CleanupStep(t, "grace", "condemned")
  /\ UNCHANGED worldVars

KillStubborn(t) ==
  /\ CleanupStep(t, "condemned", "reaping")
  /\ Kill(t, "kill")

TryReap(t) ==
  /\ child \in {"zombie", "reaped"}
  /\ CleanupStep(t, "reaping", "over")
  /\ Reap

StopTrying(t) ==
  /\ CleanupStep(t, "reaping", "over")
  /\ UNCHANGED worldVars

Cleanup(t) ==
  \/ HangUp(t) \/ SeeExit(t) \/ SeeNoChild(t) \/ KillRemains(t) \/ CollectLeader(t)
  \/ GraceEnds(t) \/ KillStubborn(t) \/ TryReap(t) \/ StopTrying(t)

CleanupOf(t) ==
  /\ Cleanup(t)
  /\ UNCHANGED <<lockVars, main, watch, input, resultVars>>

-----------------------------------------------------------------------------
(* The main thread *)

MainStep(from, to) == main = from /\ main' = to

Spawn ==
  /\ MainStep("start", "spawned")
  /\ child' = "running"
  /\ UNCHANGED <<pending, ignoresHup, stuck, others, stranger, struck, lockVars,
                 watch, input, cleanup, resultVars>>

SpawnFails ==
  /\ MainStep("start", "returning")
  /\ UNCHANGED <<worldVars, lockVars, watch, input, cleanup, resultVars>>

(* set_forward_child_pid *)
Register ==
  /\ MainStep("spawned", "setup")
  /\ lock = None
  /\ registered' = TRUE
  /\ UNCHANGED <<worldVars, lock, watch, input, cleanup, resultVars>>

RestoreMask ==
  /\ MainStep("setup", "unmasked")
  /\ UNCHANGED <<worldVars, lockVars, watch, input, cleanup, resultVars>>

StartInput ==
  /\ MainStep("unmasked", "workers")
  /\ input' = "reading"
  /\ UNCHANGED <<worldVars, lockVars, watch, cleanup, resultVars>>

StartLoop ==
  /\ MainStep("workers", "looping")
  /\ UNCHANGED <<worldVars, lockVars, watch, input, cleanup, resultVars>>

(* cleanup_child_on_err *)
SetUpFails ==
  /\ main \in {"setup", "unmasked", "workers"}
  /\ main' = "abandoning"
  /\ UNCHANGED <<worldVars, lockVars, watch, input, cleanup, resultVars>>

(* close_slave_after_child_exit: after the wait of a thread of its own, or at *)
(* once when that thread cannot start or wait.                                *)
CloseSlave ==
  /\ main # "start" /\ ~slaveClosed
  /\ child \in {"zombie", "reaped"} \/ main = "spawned"
  /\ slaveClosed' = TRUE
  /\ UNCHANGED <<worldVars, lockVars, threadVars, inputFailed, outcome>>

(* The master reads to its end once nobody holds the slave; a child that *)
(* sleeps in a write to it does.                                         *)
StreamEnds ==
  /\ MainStep("looping", "waiting")
  /\ slaveClosed /\ (child = "running" => ~stuck)
  /\ UNCHANGED <<worldVars, lockVars, watch, input, cleanup, resultVars>>

StreamFails ==
  /\ MainStep("looping", "claiming")
  /\ UNCHANGED <<worldVars, lockVars, watch, input, cleanup, resultVars>>

(* Fault: the lock is taken before the wait for the exit. *)
WaitHoldingLock ==
  \/ /\ MainStep("waiting", "waitlocked")
     /\ Acquire("main")
     /\ UNCHANGED <<worldVars, registered, watch, input, cleanup, resultVars>>
  \/ /\ MainStep("waitlocked", "reaping")
     /\ child # "running"
     /\ UNCHANGED <<worldVars, lockVars, watch, input, cleanup, resultVars>>

(* reap_child: wait without reaping; the watcher may have reaped (ECHILD). *)
WaitForExit ==
  \/ /\ child = "zombie"
     /\ MainStep("waiting", "exitseen")
     /\ UNCHANGED <<worldVars, lockVars, watch, input, cleanup, resultVars>>
  \/ /\ child = "reaped"
     /\ MainStep("waiting", "finishing")
     /\ UNCHANGED <<worldVars, lockVars, watch, input, cleanup, resultVars>>

LockForReap ==
  /\ MainStep("exitseen", "reaping")
  /\ Acquire("main")
  /\ UNCHANGED <<worldVars, registered, watch, input, cleanup, resultVars>>

ReapChild ==
  /\ MainStep("reaping", "clearing")
  /\ Reap
  /\ UNCHANGED <<lockVars, watch, input, cleanup, resultVars>>

(* Fault: the number stays registered after the reap. *)
KeepRegistered ==
  /\ MainStep("clearing", "finishing")
  /\ Release
  /\ UNCHANGED <<worldVars, registered, watch, input, cleanup, resultVars>>

ClearRegistration ==
  /\ MainStep("clearing", "finishing")
  /\ registered' = FALSE
  /\ Release
  /\ UNCHANGED <<worldVars, watch, input, cleanup, resultVars>>

(* terminate_and_reap_registered_child *)
ClaimChild ==
  /\ MainStep("claiming", "terminating") \/ MainStep("abandoning", "abandoned")
  /\ Acquire("main")
  /\ registered' = FALSE
  /\ CleanupStep("main", "none", "begin")
  /\ UNCHANGED <<worldVars, watch, input, resultVars>>

ClaimOver ==
  /\ MainStep("terminating", "finishing") \/ MainStep("abandoned", "returning")
  /\ cleanup["main"] = "over"
  /\ Release
  /\ UNCHANGED <<worldVars, registered, watch, input, cleanup, resultVars>>

(* take_input_worker_failure, then the session stops: the watcher acts on *)
(* what was queued before the stop byte and is joined.                    *)
TakeFailure ==
  /\ MainStep("finishing", IF inputFailed THEN "reporting" ELSE "stopping")
  /\ UNCHANGED <<worldVars, lockVars, watch, input, cleanup, resultVars>>

EndSession ==
  /\ main \in {"reporting", "stopping", "returning"} /\ watch = "idle"
  /\ main' = "ended" /\ watch' = "joined"
  /\ outcome' = CASE main = "reporting" -> "inputfailure"
                   [] main = "stopping" -> "child"
                   [] main = "returning" -> "setupfailure"
  /\ UNCHANGED <<worldVars, lockVars, input, cleanup, slaveClosed, inputFailed>>

(* The steps that are only a matter of running. *)
Onward ==
  \/ RestoreMask \/ StartInput \/ StartLoop \/ StreamEnds \/ WaitForExit
  \/ LockForReap \/ ReapChild \/ ClearRegistration \/ ClaimChild \/ ClaimOver
  \/ TakeFailure \/ EndSession

Main ==
  \/ Spawn \/ SpawnFails \/ Register \/ SetUpFails \/ StreamFails \/ Onward


-----------------------------------------------------------------------------
(* The signal watcher.  The signals are blocked in every thread until the *)
(* child is registered and the mask restored.                             *)

WatchStep(from, to) == watch = from /\ watch' = to

TakeTerminating ==
  /\ ~Masked
  /\ WatchStep("idle", "terminating")
  /\ UNCHANGED <<worldVars, lockVars, main, input, cleanup, resultVars>>

(* terminate_and_reap_forwarded_child *)
TakeOver ==
  /\ WatchStep("terminating", "cleaning")
  /\ Acquire("watcher") /\ registered
  /\ registered' = FALSE
  /\ CleanupStep("watcher", "none", "begin")
  /\ UNCHANGED <<worldVars, main, input, resultVars>>

NothingToTerminate ==
  /\ WatchStep("terminating", "leaving")
  /\ lock = None /\ ~registered
  /\ UNCHANGED <<worldVars, lockVars, main, input, cleanup, resultVars>>

TakeOverDone ==
  /\ WatchStep("cleaning", "leaving")
  /\ cleanup["watcher"] = "over"
  /\ Release
  /\ UNCHANGED <<worldVars, registered, main, input, cleanup, resultVars>>

ExitBySignal ==
  /\ WatchStep("leaving", "left")
  /\ outcome' = "signal"
  /\ UNCHANGED <<worldVars, lockVars, main, input, cleanup, slaveClosed, inputFailed>>

TakeStop ==
  /\ ~Masked
  /\ WatchStep("idle", "stopping")
  /\ UNCHANGED <<worldVars, lockVars, main, input, cleanup, resultVars>>

(* forward_signal_to_child: the number is read, and signalled, under the lock. *)
LockToForward ==
  /\ \/ WatchStep("stopping", "forwardstop")
     \/ WatchStep("continued", "forwardcont")
  /\ Acquire("watcher")
  /\ UNCHANGED <<worldVars, registered, main, input, cleanup, resultVars>>

Forward ==
  /\ \/ WatchStep("forwardstop", "stopped") /\ (registered => Kill("watcher", "stop"))
     \/ WatchStep("forwardcont", "idle") /\ (registered => Kill("watcher", "cont"))
  /\ ~registered => UNCHANGED worldVars
  /\ Release
  /\ UNCHANGED <<registered, main, input, cleanup, resultVars>>

WatcherOnward ==
  \/ TakeOver \/ NothingToTerminate \/ TakeOverDone \/ ExitBySignal
  \/ LockToForward \/ Forward

Watcher == TakeTerminating \/ TakeStop \/ WatcherOnward

(* The shell continues the process, stopped in all of its threads. *)
Continue ==
  /\ WatchStep("stopped", "continued")
  /\ UNCHANGED <<worldVars, lockVars, main, input, cleanup, resultVars>>

-----------------------------------------------------------------------------
(* The input worker *)

InputStep(from, to) == input = from /\ input' = to

(* record_input_worker_failure *)
InputFails ==
  /\ InputStep("reading", "failed")
  /\ inputFailed' = TRUE
  /\ UNCHANGED <<worldVars, lockVars, main, watch, cleanup, slaveClosed, outcome>>

(* wake_main_loop_after_input_failure *)
LockToWake ==
  /\ InputStep("failed", IF registered THEN "hangingup" ELSE "done")
  /\ IF registered THEN Acquire("input") ELSE lock = None /\ UNCHANGED lock
  /\ UNCHANGED <<worldVars, registered, main, watch, cleanup, resultVars>>

HangUpGroup ==
  /\ InputStep("hangingup", "waiting")
  /\ Kill("input", "hup")
  /\ UNCHANGED <<lockVars, main, watch, cleanup, resultVars>>

(* Fault: a group that outlives the hang-up is left alone. *)
LeaveGroup ==
  /\ InputStep("waiting", "woken")
  /\ GroupExists
  /\ Release
  /\ UNCHANGED <<worldVars, registered, main, watch, cleanup, resultVars>>

(* After the wait.  The lock keeps the leader unreaped, and a group exists as *)
(* long as its leader is not reaped: the wait never ends before its limit.    *)
KillGroup ==
  /\ InputStep("waiting", "woken")
  /\ GroupExists
  /\ Kill("input", "kill")
  /\ Release
  /\ UNCHANGED <<registered, main, watch, cleanup, resultVars>>

InputOnward == LockToWake \/ HangUpGroup \/ KillGroup

Input == InputFails \/ InputOnward

-----------------------------------------------------------------------------
Running == outcome = None /\ watch # "stopped"

Wrapper ==
  \/ Main \/ Watcher \/ Input \/ CloseSlave
  \/ \E t \in Cleaners : CleanupOf(t)

Next ==
  \/ World /\ UNCHANGED <<lockVars, threadVars, resultVars>>
  \/ Running /\ Wrapper
  \/ outcome = None /\ Continue

(* A child dies of a signal it does not refuse, the read loop reads what it  *)
(* sleeps on, and every thread runs while the process does.  Nothing says    *)
(* that the child ends of itself, that anything is typed or signalled, or    *)
(* that a stopped process is continued.                                      *)
Fairness ==
  /\ WF_vars(ChildDies /\ UNCHANGED <<lockVars, threadVars, resultVars>>)
  /\ WF_vars(main = "looping" /\ Unstick /\ UNCHANGED <<lockVars, threadVars, resultVars>>)
  /\ \A t \in Cleaners : WF_vars(Running /\ CleanupOf(t))
  /\ WF_vars(Running /\ Onward)
  /\ WF_vars(Running /\ CloseSlave)
  /\ WF_vars(Running /\ WatcherOnward)
  /\ WF_vars(Running /\ InputOnward)

Spec == Init /\ [][Next]_vars /\ Fairness

-----------------------------------------------------------------------------
MainPlaces ==
  {"start", "spawned", "setup", "unmasked", "workers", "looping", "abandoning", "abandoned",
   "claiming", "terminating", "waiting", "exitseen", "reaping", "clearing", "finishing",
   "reporting", "stopping", "returning", "ended"}
WatchPlaces ==
  {"idle", "terminating", "cleaning", "leaving", "left", "stopping", "forwardstop",
   "stopped", "continued", "forwardcont", "joined"}
InputPlaces == {"none", "reading", "failed", "hangingup", "waiting", "woken", "done"}
CleanupPlaces ==
  {"none", "begin", "grace", "waitable", "killed", "condemned", "reaping", "over"}

TypeOK ==
  /\ child \in {"none", "running", "zombie", "reaped"}
  /\ pending \subseteq {"hup", "kill", "stop"}
  /\ struck \subseteq {"main", "watcher", "input"}
  /\ lock \in {"main", "watcher", "input", None}
  /\ {ignoresHup, stuck, others, stranger, registered, slaveClosed, inputFailed}
       \subseteq BOOLEAN
  /\ main \in MainPlaces /\ watch \in WatchPlaces /\ input \in InputPlaces
  /\ cleanup \in [Cleaners -> CleanupPlaces]
  /\ outcome \in {None, "child", "inputfailure", "setupfailure", "signal"}

(* A termination that is over has left nobody behind: the leader has been    *)
(* reaped or condemned, and its descendants killed.  And however the wrapper *)
(* ended, no child is left running that nobody killed.                       *)
NobodyLeftRunning ==
  /\ \A t \in Cleaners : cleanup[t] = "over" =>
       ~others /\ (child = "running" => "kill" \in pending)
  /\ outcome # None => child # "running" \/ "kill" \in pending

(* A session the input worker hung up reports the failure, never the exit    *)
(* status of the child it killed.                                            *)
HangUpIsReported ==
  outcome = "child" => input \notin {"hangingup", "waiting", "woken"}

(* What the three threads hold between their steps, which the properties     *)
(* above rest on.                                                            *)

(* The lock belongs to the thread that is where it needs it.                 *)
LockDiscipline ==
  /\ lock = "main" <=> main \in {"reaping", "clearing", "terminating", "abandoned"}
  /\ lock = "watcher" <=> watch \in {"cleaning", "forwardstop", "forwardcont"}
  /\ lock = "input" <=> input \in {"hangingup", "waiting"}

CleaningUp(t) == cleanup[t] \notin {"none", "over"}

(* A cleanup is under way only in its thread's place for it, and at most once. *)
CleanupPlace ==
  /\ cleanup["main"] # "none" =>
       main \in {"terminating", "abandoned", "finishing", "reporting", "stopping",
                "returning", "ended"}
  /\ CleaningUp("main") => main \in {"terminating", "abandoned"}
  /\ main \in {"terminating", "abandoned"} => cleanup["main"] # "none"
  /\ cleanup["watcher"] # "none" => watch \in {"cleaning", "leaving", "left"}
  /\ CleaningUp("watcher") => watch = "cleaning"
  /\ watch = "cleaning" => cleanup["watcher"] # "none"

(* Before the mask is restored nobody but the main thread acts, and no input *)
(* is forwarded before its worker starts.                                    *)
QuietStart ==
  /\ Masked => watch = "idle"
  /\ Masked \/ main = "unmasked" => input = "none"
  /\ main = "start" => child = "none"
  /\ main = "spawned" => child \in {"running", "zombie"}
  /\ child = "none" => main \in {"start", "returning", "ended"}

(* A registered child can be signalled: it has not been reaped, or the       *)
(* thread that reaped it still holds the lock.                               *)
RegisteredExists ==
  /\ registered => child \in {"running", "zombie"} \/ main = "clearing"
  /\ main = "clearing" => child = "reaped"
  /\ input \in {"hangingup", "waiting"} => registered /\ child \in {"running", "zombie"}
  /\ stranger => child = "reaped"

(* A child that is no longer registered has been taken over by a cleanup, or *)
(* reaped by the main thread.                                                *)
SomebodyTookOver ==
  /\ main \in {"exitseen", "reaping"} => child \in {"zombie", "reaped"}
  /\ child \in {"running", "zombie"} /\ ~registered =>
       main = "spawned" \/ \E t \in Cleaners : cleanup[t] # "none"
  /\ child = "reaped" =>
       \/ cleanup["watcher"] = "over"
       \/ cleanup["main"] = "over"
       \/ main \in {"clearing", "finishing", "reporting", "stopping", "ended"}
  /\ main \in {"finishing", "reporting", "stopping"} =>
       ~registered /\ (child = "reaped" \/ cleanup["main"] = "over")
  /\ main = "returning" => child = "none" \/ cleanup["main"] = "over"

(* The watcher cleans up a child nobody has reaped; a leader whose exit was  *)
(* seen stays dead, and a group that was killed stays empty.                 *)
CleanupProgress ==
  /\ CleaningUp("watcher") => child \in {"running", "zombie"}
  /\ \A t \in Cleaners :
       /\ cleanup[t] # "none" => ~registered /\ child # "none"
       /\ cleanup[t] \in {"waitable", "killed"} => child \in {"zombie", "reaped"}
       /\ cleanup[t] \in {"killed", "reaping"} => ~others
       /\ cleanup[t] = "reaping" => child = "reaped" \/ "kill" \in pending

(* A watcher that is on its way out leaves no child running.                 *)
LeavingNobody ==
  watch \in {"leaving", "left"} => child # "running" \/ "kill" \in pending

(* The wrapper has ended where its threads have.                             *)
EndedWhere ==
  /\ outcome # None => main = "ended" \/ watch = "left"
  /\ main = "ended" => outcome # None
  /\ input \in {"failed", "hangingup", "waiting", "woken", "done"} => inputFailed
  /\ main = "stopping" => input \notin {"hangingup", "waiting", "woken"}

Places == LockDiscipline /\ CleanupPlace /\ QuietStart
Custody == RegisteredExists /\ SomebodyTookOver /\ CleanupProgress
Outcomes == NobodyLeftRunning /\ HangUpIsReported /\ LeavingNobody /\ EndedWhere

(* However the three threads overlap, somebody has the child in custody      *)
(* until it is reaped or condemned.  The inductive invariant.                *)
ChildInv == TypeOK /\ Places /\ Custody /\ Outcomes

(* No thread signals a process that came by the child's number after it was  *)
(* reaped.  The comments give one rule for it (the number is read and        *)
(* signalled under the lock that reaping takes), and one path goes around    *)
(* it: the main thread's failure path does not look whether the watcher, now *)
(* on its way out of the process, has already reaped the child.              *)
StrangerNotStruck ==
  struck # {} => struck = {"main"} /\ watch \in {"leaving", "left"}

(* A terminating signal ends the wrapper, whatever the child does about it   *)
(* and whatever the other threads are waiting for.                           *)
TerminationIsBounded == watch = "terminating" ~> outcome = "signal"

(* When typing can no longer reach the child the session ends, even with a   *)
(* child that ignores the hang-up, unless the wrapper is stopped.            *)
InputFailureEndsSession ==
  input = "failed" /\ main = "looping" ~> outcome # None \/ watch = "stopped"
=============================================================================
