----------------------------- MODULE PromptEcho -----------------------------
(***************************************************************************)
(* Recognising prompts, and the typed commands that a device echoes after    *)
(* them, in what it writes (src/src/highlight.rs).  A line is remembered by   *)
(* what its recognition needs: whether it has a word, whether it ends in a    *)
(* prompt, whether something follows a prompt in it, and whether a backspace  *)
(* rules a further prompt out.  Prompts of one sign, Unicode prompts, "->"    *)
(* and the limits on the length of a prompt and of the remembered line are    *)
(* left out.                                                                *)
(***************************************************************************)
EXTENDS Rendition, FiniteSetsExt

Line == [word : BOOLEAN, prompt : BOOLEAN, echo : BOOLEAN, spoiled : BOOLEAN]
NoLine == [word |-> FALSE, prompt |-> FALSE, echo |-> FALSE, spoiled |-> FALSE]

(* looks_like_prompt_tail and contains_prompt_echo_in_visible_line, a byte at *)
(* a time.                                                                  *)
Extend(line, x) ==
  IF x.c = " " THEN line
  ELSE [word |-> line.word \/ x.c \in Words,
        prompt |-> x.c = ">" /\ line.word /\ ~line.spoiled,
        echo |-> line.echo \/ line.prompt,
        spoiled |-> line.spoiled \/ x.c = "bs"]

Visible(items) == SelectSeq(items, IsText)
LineOf(items) == InTurn(Extend, NoLine, items)

IsPrompt(line) == line.prompt \/ line.echo

Breaks(items) == {i \in DOMAIN items : items[i].c \in LineBreaks}
Blank(items) == \A i \in DOMAIN items : items[i].c = " "

(* The text of the line that ends before a position, or begins after one.    *)
LineBefore(items, i) ==
  Visible(SubSeq(items, Max({0} \cup {b \in Breaks(items) : b < i}) + 1, i - 1))
LineAfter(items, i) ==
  Visible(SubSeq(items, i + 1, Min({Len(items) + 1} \cup {b \in Breaks(items) : b > i}) - 1))

Is(items, i, class) == i \in DOMAIN items /\ items[i].c = class

(* find_first_line_boundary and the loop over it: a chunk as its lines, the   *)
(* last of which may go on.                                                  *)
EndsLine(items, i) == Is(items, i, "lf") \/ (Is(items, i, "cr") /\ ~Is(items, i + 1, "lf"))

LinesUpTo(items) ==
  LET upTo[n \in 0..Len(items)] ==
        IF n = 0 THEN [whole |-> <<>>, last |-> <<>>]
        ELSE IF EndsLine(items, n - 1)
        THEN [whole |-> Append(upTo[n - 1].whole, upTo[n - 1].last), last |-> <<items[n]>>]
        ELSE [upTo[n - 1] EXCEPT !.last = Append(@, items[n])]
  IN upTo

Pieces(items) == LET lines == LinesUpTo(items)[Len(items)] IN Append(lines.whole, lines.last)

-----------------------------------------------------------------------------
(* chunk_contains_prompt_echo_anywhere *)
HasEcho(items) == \E i \in Breaks(items) \cup {Len(items) + 1} : LineOf(LineBefore(items, i)).echo

(* contains_prompt_echo_before_lf_visible *)
EndsInEcho(items) ==
  /\ \A i \in DOMAIN items : items[i].c # "lf"
  /\ LineOf(LineBefore(items, Len(items) + 1)).echo

Positioned(items) == \E i \in DOMAIN items : items[i].c \in Positions

(* promptless_line_tail_visible, of a chunk that moves the cursor            *)
RedrawsEcho(items) ==
  LET last == LineBefore(items, Len(items) + 1)
  IN Positioned(items) /\ ~Blank(last) /\ ~IsPrompt(LineOf(last))

-----------------------------------------------------------------------------
(* How much of a chunk still belongs to a prompt and its echo, 0 for all.    *)

(* leading_prompt_terminator_len *)
Terminator(items, tail) ==
  CASE IsPrompt(tail) /\ Is(items, 1, "cr") /\ Is(items, 2, "lf") -> 2
    [] IsPrompt(tail) /\ Is(items, 1, "lf") -> 1
    [] OTHER -> 0

(* prompt_echo_cr_prefix_len: the first carriage return that ends an echo,   *)
(* unless what follows draws the prompt again.                              *)
CrPrefix(items, tail) ==
  LET before(i) == LineBefore(items, i)
      crlf(i) == Is(items, i + 1, "lf")
      ends(i) == IF crlf(i) THEN LineOf(before(i)).echo
                 ELSE /\ ~Blank(before(i)) /\ (LineOf(before(i)).echo \/ IsPrompt(tail))
                      /\ ~IsPrompt(LineOf(LineAfter(items, i)))
      first == Min({Len(items)} \cup {i \in Breaks(items) : items[i].c = "cr" /\ ends(i)})
  IN IF first = Len(items) THEN 0 ELSE IF crlf(first) THEN first + 1 ELSE first

(* prompt_echo_lf_prefix_len: the first line with an echo, if it is ended.    *)
LfPrefix(items, tail) ==
  LET echo(i) == LET line == LineBefore(items, i)
                 IN \/ LineOf(line).echo
                    \/ IsPrompt(tail) /\ ~Blank(line) /\ i = Min(Breaks(items) \cup {Len(items) + 1})
      i == Min({Len(items) + 1} \cup {b \in Breaks(items) : echo(b)})
  IN CASE Is(items, i, "lf") -> i
       [] Is(items, i, "cr") /\ Is(items, i + 1, "lf") -> i + 1
       [] OTHER -> 0

(* prompt_echo_line_prefix_len *)
EchoPrefix(items, tail) ==
  LET cr == CrPrefix(items, tail)
      lf == LfPrefix(items, tail)
  IN IF Terminator(items, tail) # 0 THEN Terminator(items, tail)
     ELSE IF cr = 0 \/ (lf # 0 /\ lf <= cr) THEN lf ELSE cr

-----------------------------------------------------------------------------
(* prompt_echo_source_sgr_plan: a device that colours the echo leaves the    *)
(* colour on when the line is edited, so the colour is taken out.  For the    *)
(* line that ends before a position: where the command starts, 0 for none,   *)
(* and the SGR items from the prompt on.                                    *)

CommandStart(items, i, tail) ==
  LET from == Max({0} \cup {b \in Breaks(items) : b < i}) + 1
      continues == IsPrompt(tail) /\ from = 1
      ink(k) == IsText(items[k]) /\ items[k].c # " "
      prompted(k) == LineOf(Visible(SubSeq(items, from, k - 1))).prompt
      starts == {k \in from..(i - 1) : ink(k) /\ (continues \/ prompted(k))}
  IN IF starts = {} THEN 0 ELSE Min(starts)

EchoSgr(items, i, tail) ==
  LET from == Max({0} \cup {b \in Breaks(items) : b < i}) + 1
      continues == IsPrompt(tail) /\ from = 1
      prompts == {k \in from..(i - 1) : IsText(items[k])
                                        /\ LineOf(Visible(SubSeq(items, from, k))).prompt}
      begin == IF continues THEN 1 ELSE Min(prompts)
  IN IF CommandStart(items, i, tail) = 0 THEN {}
     ELSE {k \in begin..(i - 1) : items[k].c = "sgr"}

(* prompt_echo_source_sgr_leaves_active_style *)
LeavesStyle(items, sgrs) ==
  ApplyAll(NoSgr, [k \in DOMAIN items |-> IF k \in sgrs THEN items[k] ELSE Item("a")]).now # Plain

ColouredLines(items, tail) ==
  {i \in Breaks(items) \cup {Len(items) + 1} : LeavesStyle(items, EchoSgr(items, i, tail))}

(* prompt_echo_has_active_source_sgr *)
HasColouredEcho(items, tail) == ColouredLines(items, tail) # {}

(* neutralize_prompt_echo_source_sgr: the next item of an echo, and all of it. *)
Recolour(echo, drawn, k) ==
  drawn \o (IF k \in echo.resets THEN <<echo.off>> ELSE <<>>)
        \o (IF k \in echo.removed THEN <<>> ELSE <<echo.items[k]>>)

RecolourAll(echo, at) == InTurn(LAMBDA drawn, k : Recolour(echo, drawn, k), <<>>, at)

WithoutEchoColour(items, tail, full) ==
  LET lines == ColouredLines(items, tail)
      echo == [items |-> items,
               removed |-> UNION {EchoSgr(items, i, tail) : i \in lines},
               resets |-> {CommandStart(items, i, tail) : i \in lines},
               off |-> Sgr([a \in IF full THEN Attributes ELSE Attributes \cap {"fg"} |-> "off"])]
  IN RecolourAll(echo, [k \in DOMAIN items |-> k])
=============================================================================
