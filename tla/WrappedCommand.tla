--------------------------- MODULE WrappedCommand ---------------------------
(***************************************************************************)
(* The wrapped command (src/src/cli/pty.rs): CommandSpawn, from its name to *)
(* the program that is executed, and ChildLifecycle, from the spawned child *)
(* to its end.                                                             *)
(***************************************************************************)
EXTENDS ChildLifecycle

CONSTANTS BufferBytes, LongBuffer

VARIABLES setup, files, line, usable, denial, before, at, resolved, result

spawnVars == <<setup, files, line, usable, denial, before, at, resolved, result>>

Command == INSTANCE CommandSpawn WITH outcome <- result

ASSUME SpawnAssumption == Command!SpawnConstants

(* The command ends as it would from a shell, and every step on the way goes  *)
(* by the files of before or of after they changed (pty.rs:747, :857, :1082). *)
SpawnsAsAShell == setup # None => Command!SpawnInv
=============================================================================
