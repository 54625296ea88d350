---------------------------- MODULE MCStreamLoop ----------------------------
(* Small instance of StreamLoop. *)
EXTENDS StreamLoop

Started(tty, wrapper, runtime, valid) ==
  [interactive |-> tty, pty |-> wrapper, dynamic |-> runtime, builds |-> valid]

(* A shell with dynamic profiles; a command and a pipe on a terminal; a pipe  *)
(* into a file, with a device whose profile does not compile.                *)
MCSetups ==
  {Started(TRUE, TRUE, TRUE, TRUE), Started(TRUE, TRUE, FALSE, TRUE),
   Started(TRUE, FALSE, FALSE, TRUE), Started(FALSE, FALSE, FALSE, FALSE)}
=============================================================================
