------------------------ MODULE StreamingHighlighter ------------------------
(***************************************************************************)
(* The highlighter of a stream (StreamingHighlighter in                     *)
(* src/src/highlight.rs): reads are matched against the rules and written    *)
(* with highlights, except on the alternate screen of a pipe, around cursor  *)
(* positioning, and in the prompt and the typed command of an interactive    *)
(* session.  Controls are whole here: EscapeFilter is about those that are   *)
(* not.                                                                     *)
(***************************************************************************)
EXTENDS PromptEcho

CONSTANTS
  Inputs,          \* sets of reads: what one command may write
  RuleSets,        \* what profiles and reloads bring: sequences of rules
  HoldLimit        \* longest token held back

(* CompiledRule: the words it matches, and those it fails on. *)
Rule == [on : SUBSET Words, fails : SUBSET Words, style : SUBSET Attributes, exclusive : BOOLEAN]

ASSUME HighlighterAssumption ==
  /\ Attributes \subseteq {"fg", "bg", "bold"} /\ HoldLimit \in Nat
  /\ \A input \in Inputs : input \subseteq Seq(Reading)
  /\ RuleSets \subseteq Seq(Rule)

VARIABLES
  reads,           \* what this command may write
  interactive, full,   \* an interactive session; its resets are full ones
  rules,           \* what the highlighter in use was made from
  h,               \* the highlighter
  terminal, own,   \* the terminal, and one that is shown no highlights
  drawnLine,       \* the line of the terminal
  ended,
  failed,          \* history: rules that failed since the configuration was loaded
  faults           \* history: what went wrong in the last step

vars == <<reads, interactive, full, rules, h, terminal, own, drawnLine, ended, failed, faults>>

NewLine == [text |-> NoLine, edited |-> FALSE]

NewHighlighter ==
  [pending |-> <<>>,       \* the token that may go on in the next read
   remainder |-> FALSE,    \* pending_from_prompt_echo_remainder
   split |-> FALSE,        \* pending_from_interactive_split
   rewritten |-> FALSE,    \* line_rewritten_in_place
   alternate |-> FALSE,    \* alternate_screen
   echoing |-> FALSE,      \* prompt_echo_passthrough
   tail |-> NoLine,        \* visible_line_tail
   native |-> NoSgr, overlay |-> {}, disabled |-> {},
   out |-> <<>>,           \* what the call writes
   errors |-> {}]          \* rules that failed in it

Init ==
  /\ reads \in Inputs /\ interactive \in BOOLEAN /\ full \in {TRUE, ~interactive}
  /\ rules \in RuleSets /\ h = NewHighlighter
  /\ terminal = NewTerminal /\ own = NewTerminal
  /\ drawnLine = NewLine /\ ended = FALSE /\ failed = {} /\ faults = {}

-----------------------------------------------------------------------------
(* match_styles *)

(* match_rule: a rule that fails goes on after the next space.               *)
Fails(rule, items) == {p \in DOMAIN items : items[p].c \in rule.fails}
Matches(rule, items) ==
  {p \in DOMAIN items :
     /\ items[p].c \in rule.on
     /\ \A q \in Fails(rule, items) :
          q < p => \E k \in q..p : items[k].c \in {" ", "cr", "lf"}}

(* The rules of the highlighter that have not failed. *)
Live(s) == {i \in DOMAIN rules : rules[i] \notin s.disabled}

(* The style that rules give to a byte of text.  Exclusive rules come first   *)
(* (from_config), and the first that matches has the byte to itself; the     *)
(* others merge.                                                            *)
StyleOf(items, live, p) ==
  LET hit == {i \in live : p \in Matches(rules[i], items)}
      alone == {i \in hit : rules[i].exclusive}
  IN IF alone = {} THEN UNION {rules[i].style : i \in hit} ELSE rules[Min(alone)].style

Styled(s, items) ==
  [i \in DOMAIN items |->
     IF IsText(items[i])
     THEN [items[i] EXCEPT !.style = Wanted(StyleOf(items, Live(s), i), full \/ ~interactive)]
     ELSE items[i]]

Quarantine(s, items) ==
  LET bad == {rules[i] : i \in {j \in Live(s) : Fails(rules[j], items) # {}}}
  IN [s EXCEPT !.disabled = @ \cup bad, !.errors = @ \cup bad]

-----------------------------------------------------------------------------
(* Writing what is read *)

Write(s, items) == [s EXCEPT !.out = @ \o items]
Observed(s, items) == [s EXCEPT !.native = ApplyAll(@, items)]

(* reset_interactive_overlay *)
CloseOverlay(s) ==
  IF s.overlay = {} THEN s
  ELSE [Write(s, <<Reset(s.overlay, s.native, full)>>) EXCEPT !.overlay = {}]

(* highlight_prepared *)
Wrote(s, w) == [s EXCEPT !.out = w.out, !.native = w.native, !.overlay = w.active]

EmitStyled(s, styled) ==
  LET w == [out |-> s.out, active |-> s.overlay, native |-> s.native]
  IN Wrote(s, IF interactive THEN EmitInteractive(w, styled, full) ELSE Emit(w, styled, TRUE))

Prepared(s, items) == EmitStyled(Quarantine(s, items), Styled(s, items))

(* emit_cursor_positioning_passthrough *)
Passthrough(s, items) == Write(Observed(CloseOverlay(s), items), items)

(* The arms for one item of highlight_streaming_chunk.                       *)
OutsideLine(s, x) ==
  LET fresh == [s EXCEPT !.tail = NoLine, !.rewritten = FALSE]
  IN CASE x.c \in ToAlternate ->
            [(IF x.c \in Saves THEN CloseOverlay(fresh) ELSE fresh)
             EXCEPT !.alternate = TRUE, !.echoing = FALSE]
       [] x.c \in FromAlternate -> [CloseOverlay(fresh) EXCEPT !.alternate = FALSE]
       [] OTHER -> CloseOverlay(s)

Leaves(s, x) ==
  \/ x.c \in ToAlternate \cup FromAlternate
  \/ s.alternate /\ (~interactive \/ x.c \in Layout)

(* highlight_streaming_chunk: what is highlighted is collected, up to an item *)
(* that is not.                                                             *)
Outside(s, x) == Write(Observed(OutsideLine(s, x), <<x>>), <<x>>)

Token(now, x) ==
  IF Leaves(now.s, x) THEN [s |-> Outside(Prepared(now.s, now.held), x), held |-> <<>>]
  ELSE [now EXCEPT !.held = Append(@, x)]

Tokens(s, items) ==
  LET end == InTurn(Token, [s |-> s, held |-> <<>>], items)
  IN Prepared(end.s, end.held)

Enables(items) == \E i \in DOMAIN items : items[i].c \in ToAlternate

PassesCursor(s, items) == ~s.alternate /\ ~Enables(items) /\ Positioned(items)

Streamed(s, items) ==
  IF interactive /\ PassesCursor(s, items) THEN Passthrough(s, items) ELSE Tokens(s, items)

(* A highlight that shows on blank cells ends before a line feed scrolls.     *)
BeforeBreak(s) == IF PaintsBlanks(s.overlay) THEN CloseOverlay(s) ELSE s

Broken(s, break) == IF break = <<>> THEN s ELSE Write(BeforeBreak(s), break)

Segment(s, piece) ==
  LET text == Min({Len(piece) + 1} \cup Breaks(piece)) - 1
  IN Broken(Streamed(s, SubSeq(piece, 1, text)), SubSeq(piece, text + 1, Len(piece)))

(* highlight_interactive_output_chunk *)
(* highlight_output_chunk *)
Highlighted(s, items) ==
  IF interactive /\ ~PassesCursor(s, items) THEN InTurn(Segment, s, Pieces(items))
  ELSE Streamed(s, items)

-----------------------------------------------------------------------------
(* Following the line: observe_interactive_visible_chunk *)

(* observe_line_rewrite_controls *)
Rewrites(rewritten, x) ==
  CASE x.c \in InPlaceEdits \cup {"bs"} -> TRUE
    [] x.c \in {"cr", "lf"} -> FALSE
    [] OTHER -> rewritten

FollowByte(s, x) ==
  CASE x.c = "cr" -> [s EXCEPT !.tail = NoLine, !.echoing = @ /\ ~s.tail.echo]
    [] x.c = "lf" -> [s EXCEPT !.tail = NoLine, !.echoing = FALSE]
    [] IsText(x) /\ x.c \notin LineBreaks -> [s EXCEPT !.tail = Extend(@, x)]
    [] OTHER -> s

(* Fault: only a line that is drawn again is taken for a prompt.             *)
AtRedraw(s, items) == [s EXCEPT !.echoing = @ \/ RedrawsEcho(items)]

AtPrompt(s, items) == [s EXCEPT !.echoing = @ \/ RedrawsEcho(items) \/ IsPrompt(s.tail)]

Observe(s, items) ==
  LET pasted == \E i \in DOMAIN items : items[i].c = "?2004l"
      preserves == /\ s.echoing /\ ~pasted /\ Positioned(items)
                   /\ \A x \in Range(Visible(items)) : x.c \in {"cr", "lf", "bs"}
      seen == [s EXCEPT !.rewritten = InTurn(Rewrites, @, items), !.echoing = @ /\ ~pasted]
  IN IF ~interactive THEN s
     ELSE IF preserves THEN seen
     ELSE AtPrompt(InTurn(FollowByte, seen, items), items)

(* reset_interactive_overlay_after_prompt_tail *)
PlainAtPrompt(s) == IF interactive /\ s.tail.prompt THEN CloseOverlay(s) ELSE s

(* emit_prompt_echo_passthrough *)
EchoDrawn(s, items, drawn) == Observe(Write(Observed(s, drawn), drawn), items)
Echo(s, items) == EchoDrawn(CloseOverlay(s), items, WithoutEchoColour(items, s.tail, full))

(* streaming_split_at: a token that ends the read may go on in the next.     *)
TokenStart(items) ==
  LET start == Max({0} \cup {i \in DOMAIN items : items[i].c \notin Words})
  IN IF Len(items) - start > HoldLimit THEN Len(items) ELSE start

(* interactive_split_at_chunk *)
SplitAt(s, items) ==
  IF interactive /\ (s.alternate \/ Enables(items) \/ Positioned(items) \/ s.echoing)
  THEN Len(items) ELSE TokenStart(items)

(* Draws what is not held back, and follows it unless the screen switches.   *)
Follow(drawn, items, follow) == PlainAtPrompt(IF follow THEN Observe(drawn, items) ELSE drawn)

Draw(s, items, cut, follow) ==
  Follow(Highlighted([s EXCEPT !.pending = SubSeq(items, cut + 1, Len(items))],
                     SubSeq(items, 1, cut)), SubSeq(items, 1, cut), follow)

(* A prompt and its echo, and the output after them. *)
AfterEcho(s, rest) ==
  LET cut == SplitAt([s EXCEPT !.echoing = FALSE], rest)
  IN Draw([s EXCEPT !.remainder = cut < Len(rest)], rest, cut, TRUE)

PushEcho(s, items) ==
  LET n == EchoPrefix(items, s.tail)
  IN IF n = 0 THEN [Echo(s, items) EXCEPT !.echoing = @ \/ ~s.echoing]
     ELSE AfterEcho(Echo(s, SubSeq(items, 1, n)), SubSeq(items, n + 1, Len(items)))

(* push_combined_chunk, of one line or of a read that is not cut into lines.  *)
PushPiece(before, items) ==
  LET switching == before.alternate \/ Enables(items)
      s == [before EXCEPT !.remainder = FALSE, !.split = FALSE, !.echoing = @ /\ ~switching]
      cut == SplitAt(s, items)
  IN IF /\ interactive /\ ~switching
        /\ s.echoing \/ EndsInEcho(items) \/ HasColouredEcho(items, s.tail)
     THEN PushEcho(s, items)
     ELSE Draw([s EXCEPT !.split = cut < Len(items)], items, cut, ~switching)

PushCombined(s, items) ==
  LET byLine == /\ interactive /\ ~s.alternate /\ ~Enables(items) /\ ~Positioned(items)
                /\ s.echoing \/ HasEcho(items)
  IN IF byLine THEN InTurn(PushPiece, s, Pieces(items)) ELSE PushPiece(s, items)

-----------------------------------------------------------------------------
(* What the terminal makes of what is written, next to one that is shown no   *)
(* highlights, and what of it goes wrong.                                    *)

Faults == {"wrong rendition", "blanks painted", "echo highlighted", "text lost", "failed again"}

Agree(a, b, on) == \A x \in on : a[x] = b[x]

FaultsOf(seen, x) ==
  LET meant == Over(seen.own.now, x.style)
      shown == seen.terminal.now
      drawn == IsText(x) /\ x.c \notin {"cr", "lf", "bs"}
  IN {f \in Faults :
        \/ f = "wrong rendition" /\ drawn /\ ~Agree(shown, meant, IF x.c = " " THEN Blanks ELSE Attributes)
        \/ f = "blanks painted" /\ x.c \in Fills \cup {"lf"} /\ ~Agree(shown, seen.own.now, Blanks)
        \/ f = "echo highlighted" /\ seen.typing /\ drawn /\ x.style # {}}

(* The line of the terminal, and whether it was edited in place; a prompt is  *)
(* not looked for on a line that the screen was switched on.                 *)
LineWith(now, x, alternate) ==
  LET switches == x.c \in ToAlternate \/ (x.c \in FromAlternate /\ alternate)
  IN [text |-> CASE x.c \in {"cr", "lf"} -> NoLine
                 [] x.c \in ToAlternate \cup FromAlternate -> [NoLine EXCEPT !.spoiled = TRUE]
                 [] IsText(x) /\ ~alternate -> Extend(now.text, x)
                 [] OTHER -> now.text,
      edited |-> Rewrites(now.edited, x) /\ ~switches]

See(seen, x) ==
  [terminal |-> Obey(seen.terminal, x),
   own |-> IF x.by = "overlay" THEN seen.own ELSE Obey(seen.own, x),
   line |-> LineWith(seen.line, x, seen.own.alt),
   typing |-> seen.typing /\ x.c \notin {"cr", "lf"} \cup ToAlternate \cup FromAlternate,
   faults |-> seen.faults \cup FaultsOf(seen, x)]

KeepClass(kept, x) == IF x.c = "sgr" THEN kept ELSE Append(kept, x.c)
WithoutSgr(items) == InTurn(KeepClass, <<>>, items)

Before ==
  [terminal |-> terminal, own |-> own, line |-> drawnLine, faults |-> {},
   typing |-> interactive /\ IsPrompt(drawnLine.text) /\ h.pending = <<>>]

Settle(s, incoming) ==
  LET seen == InTurn(See, Before, s.out)
      lost == WithoutSgr(s.out \o s.pending) # WithoutSgr(incoming)
  IN /\ h' = [s EXCEPT !.out = <<>>, !.errors = {}]
     /\ terminal' = seen.terminal /\ own' = seen.own /\ drawnLine' = seen.line
     /\ failed' = failed \cup s.errors
     /\ faults' = seen.faults \cup (IF lost THEN {"text lost"} ELSE {})
          \cup (IF s.errors \cap failed # {} THEN {"failed again"} ELSE {})

(* push_chunk *)
Push ==
  /\ ~ended
  /\ \E items \in reads :
       Settle(PushCombined([h EXCEPT !.pending = <<>>], h.pending \o items), h.pending \o items)
  /\ UNCHANGED <<reads, interactive, full, rules, ended>>

(* flush_buffered_echo *)
Flush ==
  /\ ~ended /\ interactive /\ h.pending # <<>>
  /\ Settle(Draw(h, h.pending, Len(h.pending), TRUE), h.pending)
  /\ UNCHANGED <<reads, interactive, full, rules, ended>>

(* close_interactive_overlay, before a wait for more output *)
Close ==
  /\ ~ended /\ h.overlay # {}
  /\ Settle(CloseOverlay(h), h.pending)
  /\ UNCHANGED <<reads, interactive, full, rules, ended>>

(* replace_highlighter: another set of profiles. *)
Replace ==
  /\ ~ended /\ rules' \in RuleSets \ {rules} /\ faults' = {}
  /\ UNCHANGED <<reads, interactive, full, h, terminal, own, drawnLine, ended, failed>>

(* replace_highlighter_generation: a newly loaded configuration. *)
Generation ==
  /\ ~ended /\ rules' \in RuleSets
  /\ h' = [h EXCEPT !.disabled = {}] /\ failed' = {} /\ faults' = {}
  /\ UNCHANGED <<reads, interactive, full, terminal, own, drawnLine, ended>>

(* finish *)
Finish ==
  /\ ~ended /\ ended' = TRUE
  /\ Settle(CloseOverlay(Highlighted([h EXCEPT !.pending = <<>>], h.pending)), h.pending)
  /\ UNCHANGED <<reads, interactive, full, rules>>

Next == Push \/ Flush \/ Close \/ Replace \/ Generation \/ Finish

Spec == Init /\ [][Next]_vars

-----------------------------------------------------------------------------
Highlighter ==
  [pending : Seq({Item(c) : c \in Words}),
   remainder : BOOLEAN, split : BOOLEAN,
   rewritten : BOOLEAN, alternate : BOOLEAN, echoing : BOOLEAN,
   tail : Line, native : Terminal, overlay : SUBSET Attributes, disabled : SUBSET Rule,
   out : {<<>>}, errors : {{}}]

TypeOK ==
  /\ h \in Highlighter /\ Len(h.pending) <= HoldLimit
  /\ drawnLine \in [text : Line, edited : BOOLEAN] /\ {terminal, own} \subseteq Terminal
  /\ faults \subseteq Faults /\ ended \in BOOLEAN

(* The program's rendition is known, what a save keeps holds no highlight,    *)
(* and what shows is the program's rendition under the open highlight.        *)
RenditionTracked ==
  /\ h.native = own /\ (own.alt => h.alternate)
  /\ terminal.saved = own.saved /\ terminal.alt = own.alt
  /\ terminal.now = Over(own.now, h.overlay)
  /\ h.overlay # {} => interactive /\ ~ended

(* No highlight is open where a command is about to be typed.                *)
PromptIsPlain == interactive /\ h.tail.prompt => h.overlay = {}

(* Only a line that was edited in place is taken for one.                    *)
EditIsOfThisLine == h.rewritten => drawnLine.edited /\ interactive /\ ~h.alternate

(* A rule that failed is not tried again before a configuration is loaded,    *)
(* whatever profiles are left and come back to.                             *)
RuleFailsOnce == "failed again" \notin faults /\ failed \subseteq h.disabled

(* At every step the two terminals differ by the highlight that is open, in   *)
(* rendition and in what DECSC, 1048 and 1049 have saved; no highlight is     *)
(* open at a prompt or after the end of the stream, and a mark of an edit     *)
(* does not outlive its line; and a rule that failed stays off.             *)
HighlighterInv ==
  TypeOK /\ RenditionTracked /\ PromptIsPlain /\ EditIsOfThisLine /\ RuleFailsOnce

(* However reads, controls, screens and highlights alternate, each byte shows *)
(* in the program's rendition under its own highlight alone, no erase, scroll *)
(* or line feed spreads a highlight's background, and nothing is lost.        *)
DrawnAsMeant == faults \cap {"wrong rendition", "blanks painted", "text lost"} = {}

(* What follows a prompt on its line is drawn without highlights, when the    *)
(* prompt was whole before it was read.                                     *)
TypedIsPlain == "echo highlighted" \notin faults
=============================================================================
