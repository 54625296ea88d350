--------------------------- MODULE MCEscapeFilter ---------------------------
(* Small instance of EscapeFilter: any byte alone, and reads of two bytes in *)
(* which a control ends and more follows, or one begins after another.       *)
EXTENDS EscapeFilter

Alone == {"esc", "[", "]", "^", "\\", "bel", "can", "%", "csi", "osc", "st"}

MCReads ==
  {<<b>> : b \in Alone}
  \cup {<<"esc", "]">>, <<"esc", "\\">>, <<"\\", "esc">>, <<"esc", "esc">>, <<"can", "osc">>}
=============================================================================
