------------------------------ MODULE Rendition ------------------------------
(***************************************************************************)
(* How highlights are written between what the wrapped command writes       *)
(* (src/src/highlight.rs: NativeSgrState, emit_highlighted and              *)
(* emit_interactive_highlighted).  A rendition gives every attribute a       *)
(* value: "off", "own" when the command set it, "hl" when a highlight did.   *)
(* A style is the set of attributes it sets; one that is bold is only so     *)
(* under full resets.                                                       *)
(*                                                                         *)
(* What is written is a sequence of items: a byte of text, a control, or an  *)
(* SGR with the attributes it sets; "by" tells whose it is, and "style" what *)
(* a byte of text should be drawn in.                                        *)
(***************************************************************************)
EXTENDS Naturals, Sequences, SequencesExt

CONSTANT Attributes      \* of "fg", "bg" and "bold"

(* The state after a step for each of the items. *)
InTurn(step(_, _), from, items) ==
  LET after[i \in 0..Len(items)] == IF i = 0 THEN from ELSE step(after[i - 1], items[i])
  IN after[Len(items)]

Blanks == Attributes \cap {"bg"}      \* what shows on blank cells

Rendition == [Attributes -> {"off", "own", "hl"}]
Plain == [a \in Attributes |-> "off"]

Item(class) == [c |-> class, set |-> <<>>, by |-> "command", style |-> {}]
Sgr(set) == [Item("sgr") EXCEPT !.set = set]
Own(a) == Sgr([x \in {a} |-> "own"])

Words == {"a", "A", "B", "x"}
LineBreaks == {"cr", "lf"}
TextClasses == Words \cup {" ", ">", "cr", "lf", "bs"}
IsText(x) == x.c \in TextClasses

Saves == {"ESC 7", "?1048h", "?1049h"}
Restores == {"ESC 8", "?1048l"}
Positions == {"CSI H", "CSI D"}
Fills == {"CSI K", "CSI P", "ESC D"}
Layout == Positions \cup {"CSI K"}
ToAlternate == {"?1049h", "?47h"}
FromAlternate == {"?1049l", "?47l"}
InPlaceEdits == {"CSI D", "CSI P"}
Controls ==
  Saves \cup Restores \cup Positions \cup Fills \cup ToAlternate \cup FromAlternate \cup InPlaceEdits
    \cup {"CSI !p", "ESC c", "?2004l"}

(* What a command writes. *)
Reading ==
  {Item(c) : c \in TextClasses \cup Controls}
    \cup {Sgr(set) : set \in UNION {[D -> {"off", "own"}] : D \in SUBSET Attributes}}

Merge(now, set) == [a \in Attributes |-> IF a \in DOMAIN set THEN set[a] ELSE now[a]]
Over(now, style) == [a \in Attributes |-> IF a \in style THEN "hl" ELSE now[a]]

-----------------------------------------------------------------------------
(* A terminal.  It is what the program's rendition is tracked against.       *)

Terminal == [now : Rendition, saved : [BOOLEAN -> Rendition], alt : BOOLEAN]
NewTerminal == [now |-> Plain, saved |-> [s \in BOOLEAN |-> Plain], alt |-> FALSE]

Obey(t, x) ==
  LET other == [t EXCEPT !.alt = ~@]
  IN CASE x.c = "sgr" -> [t EXCEPT !.now = Merge(@, x.set)]
       [] x.c \in {"ESC 7", "?1048h"} -> [t EXCEPT !.saved[t.alt] = t.now]
       [] x.c \in {"ESC 8", "?1048l"} -> [t EXCEPT !.now = t.saved[t.alt]]
       [] x.c = "?1049h" -> [t EXCEPT !.saved[t.alt] = t.now, !.alt = TRUE]
       [] x.c = "?1049l" -> [t EXCEPT !.now = t.saved[FALSE], !.alt = FALSE]
       [] x.c = "?47h" -> IF t.alt THEN t ELSE other
       [] x.c = "?47l" -> IF t.alt THEN other ELSE t
       [] x.c = "CSI !p" -> [t EXCEPT !.now = Plain, !.saved[t.alt] = Plain]
       [] x.c = "ESC c" -> NewTerminal
       [] OTHER -> t

ObeyAll(t, items) == InTurn(Obey, t, items)

-----------------------------------------------------------------------------
(* NativeSgrState: the program's own rendition, as prismtty tracks it.       *)

NoSgr == NewTerminal

Save(n) == [n EXCEPT !.saved[n.alt] = n.now]
Restore(n) == [n EXCEPT !.now = n.saved[n.alt]]

(* Fault: leaving the alternate screen restores what was saved on it.        *)
RestoreFirst(n, x) ==
  IF x.c = "?1049l" THEN [Restore(n) EXCEPT !.alt = FALSE]
  ELSE Obey(n, x)

(* apply_sequence *)
Apply(n, x) ==
  CASE x.c = "ESC c" -> NoSgr
    [] x.c \in {"ESC 7", "?1048h"} -> Save(n)
    [] x.c \in Restores -> Restore(n)
    [] x.c = "CSI !p" -> [n EXCEPT !.now = Plain, !.saved[n.alt] = Plain]
    [] x.c = "?1049h" -> [Save(n) EXCEPT !.alt = TRUE]
    [] x.c = "?1049l" -> Restore([n EXCEPT !.alt = FALSE])
    [] x.c \in {"?47h", "?47l"} -> [n EXCEPT !.alt = x.c = "?47h"]
    [] x.c = "sgr" -> [n EXCEPT !.now = Merge(@, x.set)]
    [] OTHER -> n

ApplyAll(n, items) == InTurn(Apply, n, items)

-----------------------------------------------------------------------------
(* Writing highlights *)

Overlay(set) == [Sgr(set) EXCEPT !.by = "overlay"]

(* style_for_reset_mode *)
Wanted(style, full) == IF full THEN style ELSE style \ {"bold"}

Start(style) == Overlay([a \in style |-> "hl"])

(* style_reset_bytes *)
Reset(style, n, full) ==
  Overlay(IF full THEN n.now ELSE [a \in style |-> n.now[a]])

Outlasts(previous, next) == ~(previous \subseteq next)
PaintsBlanks(style) == style \cap Blanks # {}

(* Fault: a highlight is not ended for a control that fills blank cells.     *)
EndsOnSave(x, style) == x.c \in Saves

(* saves_rendition and fills_blank_cells_with *)
EndsFor(x, style) == x.c \in Saves \/ (x.c \in Fills /\ PaintsBlanks(style))

(* A control, between the end and the new start of the highlight it is in.   *)
WriteControl(w, x, full) ==
  LET ended == IF w.active # {} /\ EndsFor(x, w.active)
               THEN <<Reset(w.active, w.native, full)>> ELSE <<>>
      started == IF w.active # {} THEN <<Start(w.active)>> ELSE <<>>
  IN [w EXCEPT !.out = @ \o ended \o <<x>> \o started, !.native = Apply(@, x)]

(* A byte of text, in emit_highlighted.                                      *)
WriteText(w, x, full) ==
  LET change == x.style # w.active
      ended == IF change /\ w.active # {} THEN <<Reset(w.active, w.native, full)>> ELSE <<>>
      started == IF change /\ x.style # {} THEN <<Start(x.style)>> ELSE <<>>
  IN [w EXCEPT !.out = @ \o ended \o started \o <<x>>, !.active = x.style]

(* A byte of text, in emit_interactive_highlighted: a highlight is left open  *)
(* until other text needs it closed.                                         *)
WriteOverlay(w, x, full) ==
  LET change == x.style # {} /\ x.style # w.active
      close == /\ w.active # {}
               /\ IF x.style # {} THEN change /\ Outlasts(w.active, x.style)
                  ELSE x.c # " " \/ PaintsBlanks(w.active)
      ended == IF close THEN <<Reset(w.active, w.native, full)>> ELSE <<>>
      started == IF change THEN <<Start(x.style)>> ELSE <<>>
  IN [w EXCEPT !.out = @ \o ended \o started \o <<x>>,
               !.active = IF x.style # {} THEN x.style ELSE IF close THEN {} ELSE @]

(* emit_highlighted *)
Ended(w, full) ==
  IF w.active = {} THEN w
  ELSE [w EXCEPT !.out = Append(@, Reset(w.active, w.native, full)), !.active = {}]

WriteItem(w, x, full) == IF IsText(x) THEN WriteText(w, x, full) ELSE WriteControl(w, x, full)

WriteAll(w, items, full) == InTurn(LAMBDA v, x : WriteItem(v, x, full), w, items)

Emit(w, items, full) == Ended(WriteAll(w, items, full), full)

(* emit_interactive_highlighted *)
OverlayItem(w, x, full) == IF IsText(x) THEN WriteOverlay(w, x, full) ELSE WriteControl(w, x, full)

EmitInteractive(w, items, full) == InTurn(LAMBDA v, x : OverlayItem(v, x, full), w, items)
=============================================================================
