------------------------------ MODULE ByteRelay ------------------------------
(***************************************************************************)
(* What a wrapped command's user is promised of its output: every byte is   *)
(* drawn, once, in the order it was written.  How long a byte may be held   *)
(* back is not said here.  StreamLoop implements it.                        *)
(***************************************************************************)
EXTENDS Naturals, Sequences, SequencesExt

VARIABLES
  flight,          \* written by the command, not on the screen yet
  screen           \* what the terminal has been given

Init == flight = <<>> /\ screen = <<>>

Send ==
  /\ flight # flight' /\ IsPrefix(flight, flight')
  /\ UNCHANGED screen

Deliver ==
  \E n \in DOMAIN flight :
    /\ screen' = screen \o SubSeq(flight, 1, n)
    /\ flight' = SubSeq(flight, n + 1, Len(flight))

Spec == Init /\ [][Send \/ Deliver]_<<flight, screen>>
=============================================================================
