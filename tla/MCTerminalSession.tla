------------------------- MODULE MCTerminalSession -------------------------
(* Small instance of TerminalSession. *)
EXTENDS TerminalSession
=============================================================================
