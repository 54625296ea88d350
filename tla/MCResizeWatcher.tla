-------------------------- MODULE MCResizeWatcher --------------------------
(* Small instance of ResizeWatcher. *)
EXTENDS ResizeWatcher
=============================================================================
