----------------------- MODULE MCStreamingHighlighter -----------------------
(* Small instance of StreamingHighlighter. *)
EXTENDS StreamingHighlighter

A == [on |-> {"A"}, fails |-> {"x"}, style |-> {"fg"}, exclusive |-> FALSE]
B == [on |-> {"B"}, fails |-> {}, style |-> {"bg"}, exclusive |-> TRUE]
C == [on |-> {"A", "B"}, fails |-> {}, style |-> {"bold"}, exclusive |-> FALSE]

MCRules == {<<A, B, C>>, <<B>>}

Read(classes) == [i \in DOMAIN classes |-> Item(classes[i])]
Reads(classes) == {Read(<<c>>) : c \in classes}

Screen == Saves \cup Restores \cup Fills \cup {"CSI H", "?1049l", "?47h", "?47l", "CSI !p", "ESC c"}

(* Controls and the program's own colours, between reads and within one.     *)
Controlled ==
  Reads({"A", "B", " ", "lf"} \cup (Screen \ {"?1048h", "?1048l", "CSI P", "ESC D", "CSI D"}))
  \cup {Read(<<"A", c, "B">>) : c \in Screen}
  \cup {<<Own("fg")>>, <<Own("bg")>>, <<Item("B"), Own("bg"), Item("B")>>}

(* Prompts and typed commands. *)
Prompting ==
  Reads({"a", "A", " ", ">", "cr", "lf", "bs", "CSI D", "CSI K", "?2004l", "?47h", "?47l"})
  \cup {Read(<<"a", ">", "A">>), Read(<<"a", ">", "A", "cr", "lf", "B">>), Read(<<"cr", "lf">>),
        Read(<<"A", "cr", "a", ">">>), Read(<<"lf", "a", ">">>),
        <<Item(">"), Own("fg"), Item("A")>>, <<Item("B"), Item("lf"), Item(">"), Own("bold"), Item("A")>>}

(* Rules that fail. *)
Failing == Reads({"x", "A", " ", "lf"}) \cup {Read(<<"A", "x", "A">>), Read(<<"x", " ", "A">>)}

MCInputs == {Controlled, Prompting, Failing}
=============================================================================
