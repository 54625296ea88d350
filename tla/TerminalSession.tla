--------------------------- MODULE TerminalSession ---------------------------
(***************************************************************************)
(* Raw mode between the wrapper and a job-control shell                    *)
(* (src/src/cli/pty.rs, TerminalSession): the main thread enters and       *)
(* leaves raw mode, the signal watcher leaves it before a stop or an exit  *)
(* and enters it again when the wrapper is continued in the foreground.    *)
(* Both do so under the mutex of RawModeLifecycle, and both first ask      *)
(* whether the terminal is the wrapper's: the question and the write are   *)
(* two steps, and a SIGSTOP may fall between them.                         *)
(*                                                                         *)
(* The shell takes the terminal when the wrapper stops, edits its own      *)
(* lines, gives the terminal to another job, or back to the wrapper        *)
(* (cooked) and continues it; it may also continue it in the background.   *)
(***************************************************************************)
EXTENDS Naturals, Sequences, FiniteSets

CONSTANTS
  None,
  QueueLimit,      \* bound on the bytes in the session's self-pipe
  SignalLimit      \* bound on the signals and bytes under way when one is sent

ASSUME SessionAssumption == QueueLimit \in Nat \ {0} /\ SignalLimit \in Nat

StopRequests == {"tstp", "ttin"}        \* JOB_CONTROL_SIGNALS
Signals == StopRequests \cup {"term", "cont"}

VARIABLES
  fg,              \* the terminal's foreground job
  mode,            \* the terminal's mode
  frozen,          \* the wrapper is stopped
  owed,            \* the shell has given it the terminal, SIGCONT comes next
  signals,         \* pending in the kernel
  handling,        \* signals whose handler has not written its byte
  queue,           \* bytes for the watcher
  life,            \* RawModeLifecycle
  original, stale, \* RawModeState: mode to restore, snapshot_stale
  busy,            \* holder of the lifecycle mutex, and what it was told
  interrupted,     \* history: a stop fell between its question and its write
  misread,         \* history: another job's mode was taken for the user's
  main, watch,     \* where the two threads are
  recent,          \* resumed_at lies within STALE_STOP_WINDOW
  ended

shellVars == <<fg, owed>>
signalVars == <<signals, handling, queue>>
rawVars == <<life, original, stale, busy, misread>>
vars == <<shellVars, mode, frozen, signalVars, rawVars, interrupted, main, watch,
          recent, ended>>

(* Before the mask is restored only SIGCONT is delivered. *)
Masked == main \in {"start", "snapshot", "activate", "unmask"}
Installed == main \notin {"start", "stop", "join"}

Init ==
  /\ \/ fg = "us" /\ mode = "cooked"
     \/ fg = "shell" /\ mode = "edit"
  /\ frozen = FALSE /\ owed = FALSE
  /\ signals = {} /\ handling = {} /\ queue = <<>>
  /\ life = "inactive" /\ original = "cooked" /\ stale = FALSE
  /\ busy = None /\ interrupted = FALSE /\ misread = FALSE
  /\ main = "start" /\ watch = "none"
  /\ recent = FALSE /\ ended = FALSE

-----------------------------------------------------------------------------
(* The shell, the other job and the user *)

ShellTakes ==
  /\ fg = "us" /\ frozen
  /\ fg' = "shell" /\ mode' = "edit"
  /\ UNCHANGED owed

GiveTerminal ==
  /\ fg = "shell" /\ ~ended
  /\ fg' = "us" /\ mode' = "cooked" /\ owed' = TRUE

Shell ==
  /\ ShellTakes \/ GiveTerminal
  /\ UNCHANGED <<frozen, signalVars, rawVars, interrupted, main, watch, recent, ended>>

(* The kernel drops pending stop requests for a SIGCONT, and the reverse. *)
Continue ==
  /\ ~ended /\ (frozen \/ owed)
  /\ frozen' = FALSE /\ owed' = FALSE
  /\ signals' = (signals \ StopRequests) \cup {"cont"}
  /\ UNCHANGED <<fg, mode, handling, queue, rawVars, interrupted, main, watch,
                 recent, ended>>

Freeze ==
  /\ frozen' = TRUE
  /\ signals' = signals \ {"cont"}
  /\ interrupted' = (interrupted \/ busy # None)

ExternalStop ==
  /\ ~ended /\ ~frozen /\ ~owed
  /\ Freeze
  /\ UNCHANGED <<shellVars, mode, handling, queue, rawVars, main, watch, recent, ended>>

(* Somebody signals the wrapper, or it reads the terminal in the background. *)
(* A bound: no stop request is generated in the moment a SIGCONT is pending  *)
(* (the kernel would drop the SIGCONT).                                      *)
Signal(sig) ==
  /\ ~ended /\ sig \in {"term", "tstp", "ttin"} \ signals
  /\ Cardinality(signals) + Cardinality(handling) + Len(queue) < SignalLimit
  /\ sig \in StopRequests => "cont" \notin signals
  /\ sig = "ttin" => fg # "us" /\ ~frozen /\ main = "session"
  /\ signals' = signals \cup {sig}
  /\ UNCHANGED <<shellVars, mode, frozen, handling, queue, rawVars, interrupted,
                 main, watch, recent, ended>>

-----------------------------------------------------------------------------
(* restore_raw_mode_for_signal: a handler takes a signal and writes a byte.  *)
(* Each byte is marked with its age: asked for since the last resume, or     *)
(* before it and then queued or still in its handler at the resume.          *)

TakeSignal(sig) ==
  /\ ~frozen /\ Installed /\ sig \in signals
  /\ Masked => sig = "cont"
  /\ \A byte \in handling : byte.sig # sig
  /\ signals' = signals \ {sig}
  /\ handling' = handling \cup {[sig |-> sig, age |-> "new"]}
  /\ UNCHANGED <<shellVars, mode, frozen, queue, rawVars, interrupted, main, watch,
                 recent, ended>>

WriteByte(byte) ==
  /\ ~frozen /\ byte \in handling
  /\ Len(queue) < QueueLimit
  /\ handling' = handling \ {byte}
  /\ queue' = Append(queue, byte)
  /\ UNCHANGED <<shellVars, mode, frozen, signals, rawVars, interrupted, main, watch,
                 recent, ended>>

Aged(byte, age) ==
  IF byte.sig \in StopRequests /\ byte.age = "new" THEN [byte EXCEPT !.age = age] ELSE byte

-----------------------------------------------------------------------------
(* RawModeLifecycle.  Ask is the question under the mutex, Settle the write  *)
(* and the transition.                                                       *)

Entering == {"activate", "resume", "reassert"}
Leaving == {"terminate", "suspend"}

Asked == [op : Entering \cup Leaving, owns : BOOLEAN]

ASSUME NoneAssumption == None \notin Asked

(* Fault: a continued wrapper enters raw mode only if it had left it. *)
ConcernedWhenSuspended(op) ==
  CASE op = "activate" -> life = "inactive"
    [] op \in {"resume", "reassert"} -> life = "suspended"
    [] op \in Leaving -> life = "active"

(* The lifecycle states in which an operation goes to the terminal. *)
Concerned(op) ==
  CASE op = "activate" -> life = "inactive"
    [] op = "resume" -> life = "suspended"
    [] op = "reassert" -> life \in {"active", "suspended"}
    [] op \in Leaving -> life = "active"

(* Fault: raw mode is entered, or left, whoever owns the terminal. *)
OwnsAnyway == TRUE

OwnsTerminal == fg = "us"

Ask(op) ==
  /\ busy = None /\ Concerned(op)
  /\ busy' = [op |-> op, owns |-> OwnsTerminal]
  /\ UNCHANGED <<shellVars, mode, frozen, signalVars, life, original, stale, misread,
                 interrupted, recent, ended>>

(* Fault: the mode saved first is restored, whoever's it was. *)
KeepSnapshot == original

SavedMode == IF stale THEN mode ELSE original

(* The saved mode is not the user's. *)
Misread == "edit" = (IF stale THEN mode ELSE original)

Answered(op) ==
  /\ busy # None /\ busy.op = op
  /\ busy' = None /\ interrupted' = FALSE
  /\ UNCHANGED <<shellVars, frozen, signalVars, recent, ended>>

(* Raw mode, or suspended until the wrapper is continued in the foreground. *)
SettleEntering(op) ==
  /\ Answered(op)
  /\ \/ /\ busy.owns
        /\ life' = "active" /\ mode' = "raw"
        /\ original' = SavedMode /\ stale' = FALSE
        /\ misread' = (misread \/ Misread)
     \/ /\ ~busy.owns
        /\ life' = "suspended"
        /\ stale' = (stale \/ op = "activate")
        /\ UNCHANGED <<mode, original, misread>>

(* With SIGTTOU blocked it takes effect even if the terminal was taken since. *)
RestoreTerminalAttrs == IF busy.owns THEN original ELSE mode

SettleLeaving(op) ==
  /\ Answered(op)
  /\ life' = IF op = "terminate" THEN "terminating" ELSE "suspended"
  /\ mode' = RestoreTerminalAttrs
  /\ UNCHANGED <<original, stale, misread>>

(* An operation that has nothing to do at the terminal. *)
Pass(op) ==
  /\ busy = None /\ ~Concerned(op)
  /\ life' = IF op = "terminate" THEN "terminating" ELSE life
  /\ UNCHANGED <<shellVars, mode, frozen, signalVars, original, stale, misread, busy,
                 interrupted, recent, ended>>

(* An operation, by a thread that is at pc and goes on to next. *)
Enter(op, pc, next) ==
  \/ Ask(op) /\ pc' = pc
  \/ SettleEntering(op) /\ pc' = next

Leave(op, pc, next) ==
  \/ Ask(op) /\ pc' = pc
  \/ SettleLeaving(op) /\ pc' = next

-----------------------------------------------------------------------------
(* The main thread *)

Quiet == UNCHANGED <<shellVars, mode, frozen, signalVars, interrupted, recent, ended>>

(* The mask is set, then the handlers and the watcher are installed. *)
StartWatcher ==
  /\ main = "start"
  /\ main' = "snapshot" /\ watch' = "read"
  /\ Quiet /\ UNCHANGED rawVars

TakeSnapshot ==
  /\ main = "snapshot"
  /\ original' = mode
  /\ main' = "activate"
  /\ Quiet /\ UNCHANGED <<life, stale, misread, busy, watch>>

Activate ==
  /\ main = "activate"
  /\ Enter("activate", main, "unmask")
  /\ UNCHANGED watch

(* The child is spawned and the mask restored; a failure ends the session. *)
StartSession ==
  /\ main = "unmask"
  /\ main' \in {"session", "terminate"}
  /\ Quiet /\ UNCHANGED <<rawVars, watch>>

BeginStop ==
  /\ main = "session"
  /\ main' = "terminate"
  /\ Quiet /\ UNCHANGED <<rawVars, watch>>

(* SessionSignalWatcher::stop: raw mode first, then the handlers and the pipe. *)
StopRaw ==
  /\ main = "terminate"
  /\ Leave("terminate", main, "stop") \/ (Pass("terminate") /\ main' = "stop")
  /\ UNCHANGED watch

WriteStopByte ==
  /\ main = "stop" /\ handling = {}
  /\ queue' = Append(queue, [sig |-> "stop", age |-> "new"])
  /\ main' = "join"
  /\ UNCHANGED <<shellVars, mode, frozen, signals, handling, rawVars, interrupted,
                 watch, recent, ended>>

JoinWatcher ==
  /\ main = "join" /\ watch = "joined"
  /\ main' = "over" /\ ended' = TRUE
  /\ UNCHANGED <<shellVars, mode, frozen, signalVars, rawVars, interrupted, watch, recent>>

Main ==
  \/ StartWatcher \/ TakeSnapshot \/ Activate \/ StartSession \/ BeginStop
  \/ StopRaw \/ WriteStopByte \/ JoinWatcher

-----------------------------------------------------------------------------
(* The signal watcher: handle_session_signals_with *)

Stale(sig) == sig # "tstp" /\ recent /\ fg = "us"

ReadByte ==
  /\ watch = "read" /\ queue # <<>>
  /\ LET sig == Head(queue).sig
     IN watch' = CASE sig = "stop" -> "joined"
                   [] sig = "term" -> "terminate"
                   [] sig = "cont" -> "reassert"
                   [] sig \in StopRequests -> IF Stale(sig) THEN "read" ELSE "suspend"
  /\ queue' = Tail(queue)
  /\ UNCHANGED <<shellVars, mode, frozen, signals, handling, rawVars, interrupted,
                 main, recent, ended>>

Terminate ==
  /\ watch = "terminate"
  /\ Leave("terminate", watch, "leaving") \/ (Pass("terminate") /\ watch' = "leaving")
  /\ UNCHANGED main

Reassert ==
  /\ watch = "reassert"
  /\ Enter("reassert", watch, "read") \/ (Pass("reassert") /\ watch' = "read")
  /\ UNCHANGED main

Suspend ==
  /\ watch = "suspend"
  /\ Leave("suspend", watch, "raise") \/ (Pass("suspend") /\ watch' = "raise")
  /\ UNCHANGED main

Resume ==
  /\ watch = "resume"
  /\ Enter("resume", watch, "drain") \/ (Pass("resume") /\ watch' = "drain")
  /\ UNCHANGED main

(* The child is terminated and reaped, and the process exits. *)
ExitBySignal ==
  /\ watch = "leaving"
  /\ ended' = TRUE /\ watch' = "joined"
  /\ UNCHANGED <<shellVars, mode, frozen, signalVars, rawVars, interrupted, main, recent>>

RaiseStop ==
  /\ watch = "raise"
  /\ Freeze
  /\ watch' = "stopped"
  /\ UNCHANGED <<shellVars, mode, handling, queue, rawVars, main, recent, ended>>

(* Continued: what was asked for so far was asked for before the resume. *)
Resumed ==
  /\ watch = "stopped"
  /\ watch' = "resume"
  /\ handling' = {Aged(byte, "handling") : byte \in handling}
  /\ queue' = [i \in DOMAIN queue |-> Aged(queue[i], "queued")]
  /\ UNCHANGED <<shellVars, mode, frozen, signals, rawVars, interrupted, main, recent, ended>>

(* Fault: what is ready is read and nothing dropped. *)
KeepRequests(bytes) == bytes

(* The bytes kept of the first n, for every n. *)
KeptOf(bytes) ==
  LET kept[n \in 0..Len(bytes)] ==
        IF n = 0 THEN <<>>
        ELSE IF bytes[n].sig \in StopRequests THEN kept[n - 1]
        ELSE Append(kept[n - 1], bytes[n])
  IN kept

DropStopRequests(bytes) == KeptOf(bytes)[Len(bytes)]

Drain ==
  /\ watch = "drain"
  /\ queue' = DropStopRequests(queue)
  /\ recent' = TRUE
  /\ watch' = "read"
  /\ UNCHANGED <<shellVars, mode, frozen, signals, handling, rawVars, interrupted,
                 main, ended>>

Watcher ==
  \/ ReadByte \/ Terminate \/ Reassert \/ Suspend \/ Resume
  \/ ExitBySignal \/ RaiseStop \/ Resumed \/ Drain

WindowCloses ==
  /\ recent
  /\ recent' = FALSE
  /\ UNCHANGED <<shellVars, mode, frozen, signalVars, rawVars, interrupted, main,
                 watch, ended>>

-----------------------------------------------------------------------------
Running == ~frozen /\ ~ended

Next ==
  \/ Shell \/ Continue \/ ExternalStop
  \/ \E sig \in Signals : Signal(sig)
  \/ ~ended /\ \E sig \in Signals : TakeSignal(sig)
  \/ ~ended /\ \E byte \in handling : WriteByte(byte)
  \/ Running /\ (Main \/ Watcher)
  \/ ~ended /\ WindowCloses

Fairness ==
  /\ WF_vars(owed /\ Continue)
  /\ WF_vars(~ended /\ \E sig \in Signals : TakeSignal(sig))
  /\ WF_vars(~ended /\ \E byte \in handling : WriteByte(byte))
  /\ WF_vars(Running /\ (StartWatcher \/ TakeSnapshot \/ Activate \/ StartSession \/ StopRaw))
  /\ WF_vars(Running /\ Watcher)

Spec == Init /\ [][Next]_vars /\ Fairness

-----------------------------------------------------------------------------
Bytes == [sig : Signals \cup {"stop"}, age : {"new", "queued", "handling"}]

MainPlaces ==
  {"start", "snapshot", "activate", "unmask", "session", "terminate", "stop", "join", "over"}
WatchPlaces ==
  {"none", "read", "terminate", "leaving", "reassert", "suspend", "raise", "stopped",
   "resume", "drain", "joined"}

TypeOK ==
  /\ fg \in {"us", "shell"}
  /\ {mode, original} \subseteq {"cooked", "edit", "raw"}
  /\ {frozen, owed, stale, interrupted, misread, recent, ended} \subseteq BOOLEAN
  /\ signals \subseteq Signals /\ handling \subseteq Bytes
  /\ queue \in Seq(Bytes)
  /\ life \in {"inactive", "active", "suspended", "terminating"}
  /\ busy \in Asked \cup {None}
  /\ main \in MainPlaces /\ watch \in WatchPlaces

(* The wrapper leaves a terminal it owns in the user's own mode, never raw,  *)
(* when it stops and when it ends: unless it once took another job's mode    *)
(* for the user's, because the terminal changed hands between reading the    *)
(* mode and asking whose it was.                                             *)
CookedWhenLeft ==
  fg = "us" /\ (ended \/ watch = "raise") =>
    mode # "raw" /\ (mode = "cooked" \/ misread)

(* An operation under way was asked for in the lifecycle state it is for, and *)
(* its answer still holds, unless the wrapper was stopped since; a terminal   *)
(* that was another job's and is the wrapper's now comes back cooked.         *)
AnswerHolds ==
  busy # None =>
    /\ Concerned(busy.op)
    /\ frozen => interrupted
    /\ busy.owns => fg = "us" \/ interrupted
    /\ ~busy.owns /\ fg = "us" => mode = "cooked"

(* The saved mode is never raw, and while the terminal is raw it is the       *)
(* user's; a terminal the wrapper has and is not active in is the user's.     *)
SavedForTheUser ==
  /\ original # "raw"
  /\ life = "active" => original = "cooked" \/ misread
  /\ life = "inactive" \/ stale => mode # "raw"
  /\ fg = "us" /\ life # "active" => mode # "raw" /\ (mode = "cooked" \/ misread)

(* The lifecycle follows the threads: inactive until the main thread has      *)
(* activated it, left by a watcher about to stop the process, terminating     *)
(* once a thread is past its termination.                                     *)
LifeOfThreads ==
  /\ main \in {"start", "snapshot", "activate"} => life = "inactive"
  /\ watch = "raise" => life # "active"
  /\ main \in {"stop", "join", "over"} \/ watch = "leaving" \/ ended => life = "terminating"

(* Before the mask is restored the watcher has nothing to act on but SIGCONT. *)
QuietStart ==
  Masked =>
    /\ watch \in {"none", "read", "reassert"}
    /\ \A byte \in handling : byte.sig = "cont"
    /\ \A i \in 1..Len(queue) : queue[i].sig = "cont"

(* A request queued at a resume is in the queue until the drain only. *)
QueuedAtResume ==
  /\ \A byte \in handling : byte.age # "queued"
  /\ \A i \in 1..Len(queue) : queue[i].age = "queued" =>
       queue[i].sig \in StopRequests /\ watch \in {"resume", "drain"}

(* Types, the terminal as it is left, and what that rests on: the inductive  *)
(* invariant.                                                                *)
TerminalInv ==
  /\ TypeOK /\ CookedWhenLeft
  /\ AnswerHolds /\ SavedForTheUser /\ LifeOfThreads
  /\ QuietStart /\ QueuedAtResume

(* A mode change of the wrapper. *)
Touches == mode' # mode /\ fg' = fg

(* The wrapper writes the terminal's mode only while it owns the terminal,   *)
(* and never again once it has begun to terminate.                           *)
TouchedInTurn ==
  [][Touches => (fg = "us" \/ interrupted) /\ life # "terminating"]_vars

(* A stop request that was queued when the wrapper was continued from a stop *)
(* of its own does not stop it again; nor does a background read or write    *)
(* whose handler finished only after the resume, once in the foreground.     *)
NoReplayedStop ==
  [][watch = "read" /\ watch' = "suspend" =>
       /\ Head(queue).age # "queued"
       /\ Head(queue).age = "handling" => Head(queue).sig = "tstp" \/ ~recent \/ fg # "us"]_vars

(* In the foreground the wrapper gets the terminal raw. *)
RawInForeground ==
  fg = "us" /\ ~frozen /\ ~ended /\ life # "terminating" ~>
    mode = "raw" \/ fg # "us" \/ frozen \/ ended \/ life = "terminating"
=============================================================================
