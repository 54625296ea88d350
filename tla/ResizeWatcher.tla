--------------------------- MODULE ResizeWatcher ---------------------------
(***************************************************************************)
(* The resize watcher (src/src/cli/pty.rs, PtyResizeWatcher): SIGWINCH and *)
(* the session's signal watcher wake a thread over a self-pipe, and the    *)
(* thread gives the PTY the size of the outer terminal.                    *)
(*                                                                         *)
(* The kernel raises SIGWINCH for the terminal's foreground job alone.     *)
(* When the wrapper is continued after it was in the background, its       *)
(* signal watcher wakes the thread instead.                                *)
(***************************************************************************)
EXTENDS SignalPipe

CONSTANTS
  Sizes,           \* sizes of a terminal
  MaxResizes       \* bound on the changes of the outer terminal's size

ASSUME ResizeAssumptions == MaxResizes \in Nat

VARIABLES
  outer,           \* size of the outer terminal
  pty,             \* size of the wrapped PTY
  last,            \* last_size of the thread
  seen,            \* size the thread has read and not yet applied
  sizing,          \* the thread: reading the size, applying it, or waiting
  winch, continued,\* SIGWINCH is pending; the signal watcher saw SIGCONT
  foreground,      \* the wrapper is the terminal's foreground job
  resizes          \* changes of the outer size so far

sizeVars == <<outer, pty, last, seen, sizing, winch, continued, foreground, resizes>>
threadVars == <<pty, last, seen, sizing>>
worldVars == <<outer, winch, continued, foreground, resizes>>
vars == <<pipeVars, sizeVars>>

Init ==
  /\ PipeInit
  /\ outer \in Sizes /\ pty = outer /\ last = outer /\ seen = outer
  /\ sizing = "start"
  /\ winch = FALSE /\ continued = FALSE /\ foreground = TRUE /\ resizes = 0

-----------------------------------------------------------------------------
(* The world *)

Resize(size) ==
  /\ resizes < MaxResizes /\ size # outer
  /\ outer' = size
  /\ resizes' = resizes + 1
  /\ winch' = (winch \/ (foreground /\ installed))
  /\ UNCHANGED <<pipeVars, threadVars, continued, foreground>>

ToBackground ==
  /\ foreground /\ phase = "running"
  /\ foreground' = FALSE
  /\ UNCHANGED <<pipeVars, threadVars, outer, winch, continued, resizes>>

(* fg: the shell gives the terminal back and continues the job. *)
ToForeground ==
  /\ ~foreground
  /\ foreground' = TRUE /\ continued' = TRUE
  /\ UNCHANGED <<pipeVars, threadVars, outer, winch, resizes>>

(* notify_resize_for_signal *)
TakeWinch(h) ==
  /\ winch /\ Announce(h)
  /\ winch' = FALSE
  /\ UNCHANGED <<threadVars, outer, continued, foreground, resizes>>

(* handle_session_signals wakes the thread after a SIGCONT. *)
WakeAfterContinue(c) ==
  /\ continued /\ Announce(c)
  /\ continued' = FALSE
  /\ UNCHANGED <<threadVars, outer, winch, foreground, resizes>>

NotifyStep(n) == (Load(n) \/ Write(n) \/ Leave(n)) /\ UNCHANGED sizeVars

(* This watcher has one handler, and no thread before it is installed. *)
StartStep ==
  /\ Start
  /\ phase' = "running" => installed
  /\ UNCHANGED sizeVars

(* With the handler restored a pending SIGWINCH is ignored. *)
StopBegins ==
  /\ RestoreHandlers
  /\ winch' = FALSE
  /\ UNCHANGED <<threadVars, outer, continued, foreground, resizes>>

-----------------------------------------------------------------------------
(* resize_pty_on_signals: the first pass compares with the PTY's own size, *)
(* later ones with the size it was last given.                             *)

ReadSize ==
  /\ reader = "reading" /\ sizing \in {"start", "woken"}
  /\ seen' = outer
  /\ sizing' = IF sizing = "start" THEN "startsync" ELSE "sync"
  /\ UNCHANGED <<pipeVars, worldVars, pty, last>>

(* Fault: the thread takes the outer size at its start for the PTY's. *)
StartTrusting ==
  /\ reader = "reading" /\ sizing = "startsync"
  /\ last' = seen
  /\ sizing' = "waiting"
  /\ UNCHANGED <<pipeVars, worldVars, pty, seen>>

(* start_pty_size_sync *)
StartSync ==
  /\ reader = "reading" /\ sizing = "startsync"
  /\ pty' = IF seen # pty THEN seen ELSE pty
  /\ last' = seen
  /\ sizing' = "waiting"
  /\ UNCHANGED <<pipeVars, worldVars, seen>>

(* sync_pty_size *)
SyncSize ==
  /\ reader = "reading" /\ sizing = "sync"
  /\ pty' = IF seen # last THEN seen ELSE pty
  /\ last' = seen
  /\ sizing' = "waiting"
  /\ UNCHANGED <<pipeVars, worldVars, seen>>

Woken ==
  /\ sizing = "waiting"
  /\ ReadBytes
  /\ sizing' = IF reader' = "done" THEN "over" ELSE "woken"
  /\ UNCHANGED <<worldVars, pty, last, seen>>

WatchEnds ==
  /\ sizing = "waiting"
  /\ SeeEnd
  /\ sizing' = "over"
  /\ UNCHANGED <<worldVars, pty, last, seen>>

Thread == ReadSize \/ StartSync \/ SyncSize \/ Woken \/ WatchEnds

-----------------------------------------------------------------------------
Next ==
  \/ \E size \in Sizes : Resize(size)
  \/ ToBackground \/ ToForeground
  \/ \E h \in Handlers : TakeWinch(h)
  \/ \E c \in Callers : WakeAfterContinue(c)
  \/ \E n \in Notifiers : NotifyStep(n)
  \/ StartStep
  \/ StopBegins
  \/ StopWatcher /\ UNCHANGED sizeVars
  \/ OtherFile /\ UNCHANGED sizeVars
  \/ Thread

Fairness ==
  /\ \A n \in Notifiers : WF_vars(NotifyStep(n))
  /\ WF_vars(\E h \in Handlers : TakeWinch(h))
  /\ WF_vars(\E c \in Callers : WakeAfterContinue(c))
  /\ WF_vars(StopWatcher /\ UNCHANGED sizeVars)
  /\ WF_vars(Thread)

Spec == Init /\ [][Next]_vars /\ Fairness

-----------------------------------------------------------------------------
ResizeInv ==
  /\ PipeInv
  /\ {outer, pty, last, seen} \subseteq Sizes
  /\ sizing \in {"start", "startsync", "waiting", "woken", "sync", "over"}
  /\ {winch, continued, foreground} \subseteq BOOLEAN
  /\ resizes \in 0 .. MaxResizes

(* A stop that has begun returns: the stop byte or the end of the pipe       *)
(* reaches the thread, and the join ends.  One corner is left: a handler     *)
(* that stalled past the limit, so the end is leaked, together with a full   *)
(* pipe, so the stop byte is lost.                                           *)
StopReturns ==
  phase = "restored" /\ reader = "reading" ~>
    phase = "stopped" \/ (phase = "joining" /\ stopDropped /\ ~closable)

(* The PTY gets the size of the outer terminal, whatever wake-ups a full     *)
(* pipe refuses, whenever the size changes: before the handler is installed, *)
(* while the thread applies another size, or in the background.              *)
SizeReachesPty ==
  phase = "running" /\ foreground ~> pty = outer \/ phase # "running" \/ ~foreground

=============================================================================
