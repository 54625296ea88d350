----------------------------- MODULE SignalPipe -----------------------------
(***************************************************************************)
(* A self-pipe between signal handlers and the thread that acts on the     *)
(* signals (src/src/cli/pty.rs, SignalPipeSlot), from the moment a watcher *)
(* opens it until the watcher has been joined.  The process has two of     *)
(* them, one for the session's signals and one for resizes.                *)
(*                                                                         *)
(* The number of the write end is kept apart from what the number denotes: *)
(* once closed it may be given to any other file the process opens.        *)
(***************************************************************************)
EXTENDS Integers, Sequences, FiniteSets

CONSTANTS
  Handlers,        \* runs of the signal handler, on whatever thread
  Callers,         \* threads that call notify outside a handler
  Capacity,        \* bytes the pipe holds
  ReadLimit,       \* bytes one read takes (64 in the code)
  Wake, Stop       \* RESIZE_WAKE_BYTE or a signal, and the stop byte

ASSUME SignalPipeAssumptions ==
  /\ IsFiniteSet(Handlers) /\ IsFiniteSet(Callers)
  /\ Capacity \in Nat \ {0} /\ ReadLimit \in Nat \ {0}
  /\ Wake # Stop

VARIABLES
  armed,           \* SignalPipeSlot.write_fd is the descriptor, not -1
  inFlight,        \* SignalPipeSlot.in_flight
  notifier,        \* where each call of notify is
  installed,       \* a handler is the disposition of some signal
  number,          \* what the number of the write end denotes
  pipe,            \* bytes written and not read
  phase,           \* of the watcher's owner: start, then stop
  closable,        \* what disarm returned
  stopDropped,     \* the pipe was full when the stop byte was written
  reader           \* the watcher thread

slotVars == <<armed, inFlight, notifier>>
pipeVars == <<armed, inFlight, notifier, installed, number, pipe, phase,
              closable, stopDropped, reader>>

Notifiers == Handlers \cup Callers
Notifying == {"announced", "loaded", "leaving"}
Ending == {"withdrawn", "drained", "told", "joining", "stopped", "failed"}
Phases == {"off", "opened", "installing", "running", "restored"} \cup Ending

PipeInit ==
  /\ armed = FALSE /\ inFlight = 0
  /\ notifier = [n \in Notifiers |-> "idle"]
  /\ installed = FALSE
  /\ number = "free"
  /\ pipe = <<>>
  /\ phase = "off" /\ closable = FALSE /\ stopDropped = FALSE
  /\ reader = "none"

(* A nonblocking write of one byte: refused when the pipe is full. *)
Queue(byte) == IF Len(pipe) < Capacity THEN Append(pipe, byte) ELSE pipe

-----------------------------------------------------------------------------
(* notify *)

(* Fault: a call announces itself only once it holds the descriptor. *)
AnnounceLate(n) ==
  /\ notifier[n] = "idle"
  /\ n \in Handlers => installed
  /\ notifier' = [notifier EXCEPT ![n] = "announced"]
  /\ UNCHANGED <<armed, inFlight, installed, number, pipe, phase, closable,
                 stopDropped, reader>>

Announce(n) ==
  /\ notifier[n] = "idle"
  /\ n \in Handlers => installed
  /\ inFlight' = inFlight + 1
  /\ notifier' = [notifier EXCEPT ![n] = "announced"]
  /\ UNCHANGED <<armed, installed, number, pipe, phase, closable, stopDropped, reader>>

Load(n) ==
  /\ notifier[n] = "announced"
  /\ notifier' = [notifier EXCEPT ![n] = IF armed THEN "loaded" ELSE "leaving"]
  /\ UNCHANGED <<armed, inFlight, installed, number, pipe, phase, closable,
                 stopDropped, reader>>

(* A write into the pipe is lost when the reader is gone (EPIPE). *)
Write(n) ==
  /\ notifier[n] = "loaded"
  /\ notifier' = [notifier EXCEPT ![n] = "leaving"]
  /\ pipe' = IF number = "pipe" /\ reader \in {"none", "reading"}
             THEN Queue(Wake) ELSE pipe
  /\ UNCHANGED <<armed, inFlight, installed, number, phase, closable,
                 stopDropped, reader>>

Leave(n) ==
  /\ notifier[n] = "leaving"
  /\ inFlight' = inFlight - 1
  /\ notifier' = [notifier EXCEPT ![n] = "idle"]
  /\ UNCHANGED <<armed, installed, number, pipe, phase, closable, stopDropped, reader>>

-----------------------------------------------------------------------------
(* start *)

OpenPipe ==
  /\ phase = "off"
  /\ \/ phase' = "opened" /\ number' = "pipe"
     \/ phase' = "failed" /\ number' = number
  /\ UNCHANGED <<slotVars, installed, pipe, closable, stopDropped, reader>>

Arm ==
  /\ phase = "opened"
  /\ armed' = TRUE
  /\ phase' = "installing"
  /\ UNCHANGED <<inFlight, notifier, installed, number, pipe, closable,
                 stopDropped, reader>>

InstallHandler ==
  /\ phase = "installing" /\ ~installed
  /\ installed' = TRUE
  /\ UNCHANGED <<slotVars, number, pipe, phase, closable, stopDropped, reader>>

(* One handler could not be installed: those that were are withdrawn and the *)
(* read end is closed; what is left is to disarm.                            *)
InstallFails ==
  /\ phase = "installing"
  /\ installed' = FALSE
  /\ reader' = "unread"
  /\ pipe' = <<>>
  /\ phase' = "restored"
  /\ UNCHANGED <<slotVars, number, closable, stopDropped>>

SpawnReader ==
  /\ phase = "installing"
  /\ phase' = "running"
  /\ reader' = "reading"
  /\ UNCHANGED <<slotVars, installed, number, pipe, closable, stopDropped>>

-----------------------------------------------------------------------------
(* stop, and the end of a start that failed *)

RestoreHandlers ==
  /\ phase = "running"
  /\ installed' = FALSE
  /\ phase' = "restored"
  /\ UNCHANGED <<slotVars, number, pipe, closable, stopDropped, reader>>

(* disarm: the descriptor is withdrawn, and then ... *)
Withdraw ==
  /\ phase = "restored"
  /\ armed' = FALSE
  /\ phase' = "withdrawn"
  /\ UNCHANGED <<inFlight, notifier, installed, number, pipe, closable,
                 stopDropped, reader>>

(* Fault: the loop ends at the deadline only, and reports success. *)
DrainedAtDeadline ==
  /\ phase = "withdrawn"
  /\ closable' = TRUE
  /\ phase' = "drained"
  /\ UNCHANGED <<slotVars, installed, number, pipe, stopDropped, reader>>

(* ... nobody is in flight any more, *)
SeeDrained ==
  /\ phase = "withdrawn" /\ inFlight = 0
  /\ closable' = TRUE
  /\ phase' = "drained"
  /\ UNCHANGED <<slotVars, installed, number, pipe, stopDropped, reader>>

(* ... or the limit of a second passes first. *)
GiveUp ==
  /\ phase = "withdrawn" /\ inFlight # 0
  /\ closable' = FALSE
  /\ phase' = "drained"
  /\ UNCHANGED <<slotVars, installed, number, pipe, stopDropped, reader>>

WriteStop ==
  /\ phase = "drained"
  /\ IF reader # "unread"
     THEN pipe' = Queue(Stop) /\ stopDropped' = (Len(pipe) = Capacity)
     ELSE UNCHANGED <<pipe, stopDropped>>
  /\ phase' = "told"
  /\ UNCHANGED <<slotVars, installed, number, closable, reader>>

(* Closed, or leaked when a handler may still write to it. *)
CloseEnd ==
  /\ phase = "told"
  /\ number' = IF closable THEN "free" ELSE number
  /\ phase' = IF reader # "unread" THEN "joining" ELSE "failed"
  /\ UNCHANGED <<slotVars, installed, pipe, closable, stopDropped, reader>>

Join ==
  /\ phase = "joining" /\ reader = "done"
  /\ phase' = "stopped"
  /\ UNCHANGED <<slotVars, installed, number, pipe, closable, stopDropped, reader>>

(* Other code of the process opens and closes files. *)
OtherFile ==
  /\ phase \in {"joining", "stopped", "failed"}
  /\ \/ number = "free" /\ number' = "other"
     \/ number = "other" /\ number' = "free"
  /\ UNCHANGED <<slotVars, installed, pipe, phase, closable, stopDropped, reader>>

-----------------------------------------------------------------------------
(* The watcher thread: read_signal_bytes and the stop byte.  A read takes  *)
(* what is there; with the pipe empty it waits while a write end is open.  *)

(* Fault: only the first byte of a chunk is compared with the stop byte. *)
HeadStops(bytes) == Head(bytes) = Stop

ContainsStop(bytes) == \E i \in DOMAIN bytes : bytes[i] = Stop

ReadBytes ==
  /\ reader = "reading" /\ pipe # <<>>
  /\ LET taken == IF Len(pipe) < ReadLimit THEN Len(pipe) ELSE ReadLimit
         bytes == SubSeq(pipe, 1, taken)
     IN /\ pipe' = SubSeq(pipe, taken + 1, Len(pipe))
        /\ reader' = IF ContainsStop(bytes) THEN "done" ELSE "reading"
  /\ UNCHANGED <<slotVars, installed, number, phase, closable, stopDropped>>

SeeEnd ==
  /\ reader = "reading" /\ pipe = <<>> /\ number # "pipe"
  /\ reader' = "done"
  /\ UNCHANGED <<slotVars, installed, number, pipe, phase, closable, stopDropped>>

-----------------------------------------------------------------------------
Notify(n) == Announce(n) \/ Load(n) \/ Write(n) \/ Leave(n)

Start == OpenPipe \/ Arm \/ InstallHandler \/ InstallFails \/ SpawnReader

StopWatcher ==
  Withdraw \/ SeeDrained \/ GiveUp \/ WriteStop \/ CloseEnd \/ Join

PipeNext ==
  \/ \E n \in Notifiers : Notify(n)
  \/ Start \/ RestoreHandlers \/ StopWatcher \/ OtherFile
  \/ ReadBytes \/ SeeEnd

PipeSpec == PipeInit /\ [][PipeNext]_pipeVars

-----------------------------------------------------------------------------
PipeTypeOK ==
  /\ armed \in BOOLEAN /\ installed \in BOOLEAN
  /\ closable \in BOOLEAN /\ stopDropped \in BOOLEAN
  /\ inFlight \in Nat
  /\ notifier \in [Notifiers -> Notifying \cup {"idle"}]
  /\ number \in {"free", "pipe", "other"}
  /\ pipe \in Seq({Wake, Stop}) /\ Len(pipe) <= Capacity
  /\ phase \in Phases
  /\ reader \in {"none", "reading", "done", "unread"}

(* A notify that has loaded the descriptor finds the pipe behind it, however *)
(* late it writes: the number is not closed, let alone given to another      *)
(* file, while a call that loaded it before disarm may still write.          *)
NoForeignWrite == \A n \in Notifiers : notifier[n] = "loaded" => number = "pipe"

(* in_flight counts the calls of notify that have begun and not left. *)
InFlightCounts == inFlight = Cardinality({n \in Notifiers : notifier[n] # "idle"})

(* The inductive strengthening of NoForeignWrite: the descriptor is armed    *)
(* only while it is the pipe, withdrawn before the wait, and a wait that     *)
(* ended well left nobody with the descriptor loaded.                        *)
PipeInv ==
  /\ PipeTypeOK
  /\ InFlightCounts
  /\ NoForeignWrite
  /\ armed => phase \in {"installing", "running", "restored"}
  /\ phase \in {"opened", "installing", "running", "restored", "withdrawn",
                "drained", "told"} => number = "pipe"
  /\ phase \in {"drained", "told"} /\ closable =>
       \A n \in Notifiers : notifier[n] # "loaded"
  /\ closable => phase \in Ending \ {"withdrawn"}
  /\ number = "pipe" => phase # "off"
=============================================================================
