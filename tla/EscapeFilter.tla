---------------------------- MODULE EscapeFilter ----------------------------
(***************************************************************************)
(* What happens to terminal controls on the way from the wrapped command    *)
(* to the terminal (src/src/highlight.rs and prepare_chunk in               *)
(* src/src/cli/stream.rs): controls cut off by a read are carried, string   *)
(* controls that outgrow the carry are discarded up to their end, other     *)
(* oversized controls are made inert, and --sanitize and --strip-ansi drop  *)
(* what they are asked to drop.                                             *)
(*                                                                         *)
(* Bytes are classes: ESC; "[" "]" "^" "\\" (text, or what follows an ESC);  *)
(* "%" (text, or an intermediate); BEL for the C0 controls; CAN; the raw C1  *)
(* controls CSI, OSC and ST.  UTF-8, single shifts and mode 42 are left out. *)
(* A position is the number of bytes before it, as in the code.             *)
(***************************************************************************)
EXTENDS Naturals, Sequences, SequencesExt, FiniteSetsExt

CONSTANTS
  Reads,           \* what a read may return: sequences of byte classes
  MaxString,       \* MAX_INCOMPLETE_ESCAPE_BYTES
  MaxOther         \* MAX_INCOMPLETE_NON_STRING_ESCAPE_BYTES

C1 == {"csi", "osc", "st"}
Text == {"[", "]", "^", "\\"}
Introducers == {"]", "^"}

Bytes == {"esc", "bel", "can", "%"} \cup C1 \cup Text

ASSUME EscapeAssumption ==
  /\ Reads \subseteq Seq(Bytes) \ {<<>>}
  /\ {MaxString, MaxOther} \subseteq Nat \ {0} /\ MaxOther <= MaxString

At(s, i) == IF i < Len(s) THEN s[i + 1].b ELSE "none"
Cut(s, i, j) == SubSeq(s, i + 1, j)
From(s, i) == SubSeq(s, i + 1, Len(s))
FirstIn(s, i, bytes) == Min({Len(s)} \cup {k \in i..(Len(s) - 1) : At(s, k) \in bytes})

-----------------------------------------------------------------------------
(* A terminal.  One set to UTF-8 ignores raw C1 controls.                    *)

Follow(state, byte, c1) ==
  IF byte = "esc" THEN "esc"
  ELSE IF byte \in C1 /\ ~c1 THEN state
  ELSE IF state \in {"osc", "pm"}
  THEN IF byte \in {"can", "st"} \/ (byte = "bel" /\ state = "osc") THEN "ground" ELSE state
  ELSE CASE byte \in {"csi", "osc"} -> byte
         [] byte = "bel" -> state
         [] byte = "%" -> IF state = "esc" THEN "int" ELSE state
         [] byte = "[" /\ state = "esc" -> "csi"
         [] byte = "]" /\ state = "esc" -> "osc"
         [] byte = "^" /\ state = "esc" -> "pm"
         [] OTHER -> "ground"

Draws(state, byte) == state = "ground" /\ byte \notin {"esc"} \cup C1

States(state, s, c1) == FoldLeft(LAMBDA st, x : Append(st, Follow(Last(st), x.b, c1)), <<state>>, s)

(* Each byte is marked by what it is in the command's output.                *)
Mark(state, byte) ==
  IF Draws(state, byte) THEN "text"
  ELSE IF state \in {"osc", "pm"} /\ Follow(state, byte, TRUE) = state THEN "payload"
  ELSE "control"

-----------------------------------------------------------------------------
(* Recognising controls *)

(* skip_escape_state_controls *)
PastControls(s, i) == Min({Len(s)} \cup {k \in i..(Len(s) - 1) : At(s, k) # "bel"})

(* StringControlKind::at: where the payload starts, 0 if no string does.     *)
Payload(s, i) ==
  LET j == PastControls(s, i + 1)
  IN IF At(s, i) = "osc" THEN i + 1
     ELSE IF At(s, i) = "esc" /\ At(s, j) \in Introducers THEN j + 1 ELSE 0

Kind(s, i) == <<At(s, i), IF At(s, i) = "esc" THEN At(s, PastControls(s, i + 1)) ELSE "osc">>

(* Fault: BEL ends an OSC only in its seven-bit form.                        *)
SevenBitBel(kind) == {"can", "st"} \cup (IF kind[1] = "esc" /\ kind[2] = "]" THEN {"bel"} ELSE {})

StringEnds(kind) == {"can", "st"} \cup (IF kind[2] = "^" THEN {} ELSE {"bel"})

Complete(at) == [is |-> "complete", at |-> at]
Restart(at) == [is |-> "restart", at |-> at]

Unfinished(s, i, limit) ==
  [is |-> IF Len(s) - i > limit THEN "oversized" ELSE "open", at |-> Len(s)]

(* A control other than a string, ended by one of the bytes or cancelled.    *)
ScanControl(s, i, from) ==
  LET k == FirstIn(s, from, Text \cup C1 \cup {"esc", "can"})
  IN IF k = Len(s) THEN Unfinished(s, i, MaxOther)
     ELSE IF At(s, k) \in C1 \cup {"esc"} THEN Restart(k) ELSE Complete(k + 1)

(* The end of a string: a terminator, or an ESC that more follows.           *)
StringStop(s, from, kind) ==
  Min({Len(s)} \cup {k \in from..(Len(s) - 1) :
                       At(s, k) \in StringEnds(kind) \/ (At(s, k) = "esc" /\ k + 1 < Len(s))})

ScanString(s, i) ==
  LET k == StringStop(s, Payload(s, i), Kind(s, i))
  IN IF Min({k, Len(s) - 1}) - i > MaxString THEN [is |-> "oversized", at |-> Len(s)]
     ELSE IF k = Len(s) THEN Unfinished(s, i, MaxString)
     ELSE IF At(s, k) # "esc" THEN Complete(k + 1)
     ELSE IF At(s, k + 1) = "\\" THEN Complete(k + 2) ELSE Restart(k)

(* scan_escape_for_neutralization *)
Scan(s, i) ==
  LET j == PastControls(s, i + 1)
  IN IF Payload(s, i) # 0 THEN ScanString(s, i)
     ELSE IF At(s, i) = "csi" THEN ScanControl(s, i, i + 1)
     ELSE IF At(s, i) = "st" THEN Complete(i + 1)
     ELSE IF j = Len(s) THEN Unfinished(s, i, MaxOther)
     ELSE CASE At(s, j) \in C1 \cup {"esc"} -> Restart(j)
            [] At(s, j) = "[" -> ScanControl(s, i, j + 1)
            [] At(s, j) = "%" -> ScanControl(s, i, i + 1)
            [] OTHER -> Complete(j + 1)

NextStart(s, i) == FirstIn(s, i, {"esc", "csi", "osc"})

(* incomplete_top_level_escape_start: the first control still open at the     *)
(* end, with the controls cancelled in front of it; the length if there is   *)
(* none.  root is the first control of the chain, or the position itself.    *)
RECURSIVE OpenFrom(_, _, _)
OpenFrom(s, i, root) ==
  LET start == NextStart(s, i)
      first == IF start > i THEN start ELSE root
      scan == Scan(s, start)
  IN IF start = Len(s) THEN Len(s)
     ELSE CASE scan.is = "complete" -> OpenFrom(s, scan.at, scan.at)
            [] scan.is = "restart" -> OpenFrom(s, scan.at, first)
            [] scan.is = "open" -> first
            [] scan.is = "oversized" -> Len(s)

(* Fault: controls cancelled in front of an open one are not held with it.   *)
LastOpen(s) == Max({0} \cup {k \in 0..Len(s) : OpenFrom(s, k, k) = k})

OpenStart(s) == OpenFrom(s, 0, 0)

Divided(s, at) == [whole |-> Cut(s, 0, at), open |-> From(s, at)]

AtOpen(s) == Divided(s, OpenStart(s))

-----------------------------------------------------------------------------
(* OversizedStringControlFilter *)

Idle == [is |-> "normal", kind |-> <<>>, offset |-> 0, total |-> 0, escaped |-> FALSE]
Tracking(kind, offset, total, escaped) ==
  [is |-> "tracking", kind |-> kind, offset |-> offset, total |-> total, escaped |-> escaped]
Discarding(kind, escaped) == [Idle EXCEPT !.is = "discarding", !.kind = kind, !.escaped = escaped]

(* The payload's scanner reads from a position, after an ESC or not: where    *)
(* the string ends, and there, whether by a byte after an ESC.               *)
(* Fault: an ESC that ended the last read is forgotten.                      *)
EscapedHere(s, from, escaped, k) == k # from /\ At(s, k - 1) = "esc"

Escaped(s, from, escaped, k) == IF k = from THEN escaped ELSE At(s, k - 1) = "esc"

PayloadEnd(s, from, escaped, kind) ==
  Min({Len(s)} \cup {k \in from..(Len(s) - 1) :
                       Escaped(s, from, escaped, k) \/ At(s, k) \in StringEnds(kind)})

(* scan_more: the budget covers what was cancelled in front of the string.    *)
ScanMore(s, from, mode) ==
  LET end == PayloadEnd(s, from, mode.escaped, mode.kind)
      left == IF mode.offset + mode.total < MaxString THEN MaxString - mode.offset - mode.total ELSE 0
      escape == Escaped(s, from, mode.escaped, end)
  IN IF end < Len(s) /\ end < from + left
     THEN IF escape /\ At(s, end) # "\\" THEN Restart(end - 1) ELSE Complete(end + 1)
     ELSE IF from + left < Len(s) THEN [is |-> "oversized", at |-> from + left]
     ELSE [is |-> "open", at |-> Len(s)]

(* What the scanner remembers after it has read up to a position.            *)
Advance(s, from, mode, to) ==
  [mode EXCEPT !.total = @ + to - from,
               !.escaped = IF to = from THEN @ ELSE At(s, to - 1) = "esc"]

(* DiscardedStringControl::terminator: what is left after a discarded string; *)
(* an ESC that ended it in an earlier read is put back.                      *)
PutBack == [b |-> "esc", t |-> "control"]

AfterDiscarded(s, from, mode) ==
  LET end == PayloadEnd(s, from, mode.escaped, mode.kind)
      escape == Escaped(s, from, mode.escaped, end)
  IN IF end = Len(s)
     THEN [found |-> FALSE, replay |-> <<>>, end |-> end,
           mode |-> Discarding(mode.kind, Advance(s, from, mode, Len(s)).escaped)]
     ELSE [found |-> TRUE, mode |-> Idle,
           replay |-> IF escape /\ At(s, end) # "\\" /\ end = 0 THEN <<PutBack>> ELSE <<>>,
           end |-> IF escape /\ At(s, end) # "\\" THEN (IF end = 0 THEN 0 ELSE end - 1)
                   ELSE end + 1]

(* What comes of a string, read on from a position in one of these states:    *)
(* out is kept so far, copy the start of what is not copied yet, first that   *)
(* of the controls cancelled in front of the string.                         *)
RECURSIVE FilterFrom(_, _, _, _, _)
AfterOversized(s, before, after) ==
  IF after.found THEN FilterFrom(s, before \o after.replay, after.end, after.end, after.end)
  ELSE [out |-> before, mode |-> after.mode]

FilterString(s, out, copy, first, from, mode) ==
  LET more == ScanMore(s, from, mode)
      read == Advance(s, from, mode, more.at)
  IN CASE more.is = "complete" -> FilterFrom(s, out, copy, more.at, more.at)
       [] more.is = "restart" -> FilterFrom(s, out, copy, more.at, first)
       [] more.is = "open" -> [out |-> out \o From(s, copy), mode |-> read]
       [] more.is = "oversized" ->
            AfterOversized(s, out \o Cut(s, copy, first), AfterDiscarded(s, more.at, read))

(* filter_reassembled, from a position up to which the controls are complete. *)
FilterFrom(s, out, copy, i, root) ==
  LET start == NextStart(s, i)
      first == IF start > i THEN start ELSE root
      payload == Payload(s, start)
      scan == Scan(s, start)
  IN IF start = Len(s) THEN [out |-> out \o From(s, copy), mode |-> Idle]
     ELSE IF payload # 0
     THEN FilterString(s, out, copy, first, payload,
                       Tracking(Kind(s, start), start - first, payload - start, FALSE))
     ELSE CASE scan.is = "complete" -> FilterFrom(s, out, copy, scan.at, scan.at)
            [] scan.is = "restart" -> FilterFrom(s, out, copy, scan.at, first)
            [] OTHER -> [out |-> out \o From(s, copy), mode |-> Idle]

(* align_with_reassembled_carry *)
Aligned(s, mode) ==
  /\ mode.is = "tracking" /\ mode.offset + mode.total <= Len(s)
  /\ Payload(s, mode.offset) # 0 /\ Kind(s, mode.offset) = mode.kind

(* A string that was open is read on from where the last read ended.         *)
Filter(s, mode) ==
  IF Aligned(s, mode) THEN FilterString(s, <<>>, 0, 0, mode.offset + mode.total, mode)
  ELSE FilterFrom(s, <<>>, 0, 0, 0)

(* What consume_discarded leaves of a read, and the filter's mode.           *)
Undiscarded(s, mode) ==
  LET after == AfterDiscarded(s, 0, mode)
  IN IF mode.is # "discarding" THEN [found |-> TRUE, bytes |-> s, mode |-> mode]
     ELSE [found |-> after.found, bytes |-> after.replay \o From(s, after.end), mode |-> after.mode]

-----------------------------------------------------------------------------
(* Making controls inert *)

Inert == [b |-> "^", t |-> "control"]
Neutral(s, i) == [s EXCEPT ![i + 1] = Inert]

(* neutralize_restart_chain *)
RECURSIVE NeutralChain(_, _, _)
NeutralChain(s, i, last) ==
  LET scan == Scan(s, i)
  IN IF i < last /\ scan.is = "restart" /\ scan.at <= last
     THEN NeutralChain(Neutral(s, i), scan.at, last)
     ELSE Neutral(Neutral(s, IF i < last THEN i ELSE last), last)

(* neutralize_oversized_incomplete_escape; strings tells whether the chain    *)
(* cancelled a string.                                                      *)
RECURSIVE NeutralFrom(_, _, _, _)
NeutralFrom(s, i, root, strings) ==
  LET start == NextStart(s, i)
      chained == start = i /\ root < i
      first == IF chained THEN root ELSE start
      withString == (chained /\ strings) \/ Payload(s, start) # 0
      limit == IF chained /\ strings THEN MaxString ELSE MaxOther
      scan == Scan(s, start)
  IN IF start = Len(s) THEN s
     ELSE CASE scan.is = "complete" -> NeutralFrom(s, scan.at, scan.at, FALSE)
            [] scan.is = "restart" -> NeutralFrom(s, scan.at, first, withString)
            [] scan.is = "open" ->
                 IF chained /\ Payload(s, start) = 0 /\ Len(s) - root > limit
                 THEN NeutralChain(s, root, start) ELSE s
            [] scan.is = "oversized" ->
                 NeutralFrom(NeutralChain(s, first, start), start + 1, start + 1, FALSE)

(* neutralize_incomplete_escape_at_eof *)
RECURSIVE NeutralAtEof(_, _, _, _)
NeutralAtEof(s, root, i, strings) ==
  LET withString == strings \/ Payload(s, i) # 0
      scan == Scan(s, i)
  IN CASE scan.is = "complete" -> s
       [] scan.is = "restart" -> NeutralAtEof(Neutral(s, i), root, scan.at, withString)
       [] OTHER -> IF withString THEN Cut(s, 0, root) ELSE Neutral(s, i)

AtEof(s) == IF OpenStart(s) = Len(s) THEN s ELSE NeutralAtEof(s, OpenStart(s), OpenStart(s), FALSE)

-----------------------------------------------------------------------------
(* strip_ansi and strip_string_escapes *)

(* Where the control at a position ends for the tokenizer.                   *)
ControlEnd(s, from) ==
  LET k == FirstIn(s, from, Text \cup C1 \cup {"esc", "can"})
  IN IF At(s, k) \in Text \cup {"can"} THEN k + 1 ELSE k

StringEnd(s, i) ==
  LET k == StringStop(s, Payload(s, i), Kind(s, i))
  IN IF k = Len(s) THEN k
     ELSE IF At(s, k) # "esc" THEN k + 1 ELSE IF At(s, k + 1) = "\\" THEN k + 2 ELSE k

TokenEnd(s, i) ==
  LET j == PastControls(s, i + 1)
  IN IF Payload(s, i) # 0 THEN StringEnd(s, i)
     ELSE IF At(s, i) = "csi" THEN ControlEnd(s, i + 1)
     ELSE IF At(s, i) = "st" THEN i + 1
     ELSE IF j = Len(s) \/ At(s, j) \in C1 \cup {"esc"} THEN j
     ELSE CASE At(s, j) = "[" -> ControlEnd(s, j + 1)
            [] At(s, j) = "%" -> ControlEnd(s, i + 1)
            [] OTHER -> j + 1

(* tokenize_ansi: the positions that are visible text.                       *)
RECURSIVE TextFrom(_, _)
TextFrom(s, i) ==
  LET k == FirstIn(s, i, {"esc"} \cup C1)
  IN (i..(k - 1)) \cup (IF k = Len(s) THEN {} ELSE TextFrom(s, TokenEnd(s, k)))

Strip(s) == LET text == TextFrom(s, 0)
            IN FoldLeft(LAMBDA out, i : Append(out, s[i]), <<>>,
                        SelectSeq([i \in DOMAIN s |-> i], LAMBDA i : i - 1 \in text))

(* push_escape_run_controls: the C0 controls of the run of bare ESCs that     *)
(* ends with the one at a position.                                          *)
RunControls(s, from, at, end) ==
  LET bare(k) == At(s, k) = "esc" /\ \A l \in k..(at - 1) : At(s, l) \in {"esc", "bel"}
      open == Min({at} \cup {k \in from..(at - 1) : bare(k)})
  IN SelectSeq(Cut(s, open, end), LAMBDA x : x.b # "esc")

(* One chain of cancelled controls: out holds what was kept before it, kept   *)
(* what its controls left up to copied.                                      *)
RECURSIVE Chain(_, _, _, _, _)
Chain(s, out, kept, copied, i) ==
  LET next == PastControls(s, i + 1)
      scan == Scan(s, i)
      csi == At(s, i) = "csi" \/ (At(s, i) = "esc" /\ At(s, next) = "[")
  IN IF Payload(s, i) # 0 THEN [out |-> out, at |-> StringEnd(s, i)]
     ELSE IF At(s, i) = "esc" /\ At(s, next) \in {"csi", "st"}
     THEN Chain(s, out, kept \o RunControls(s, copied, i, next), next, next)
     ELSE IF At(s, i) = "esc" /\ At(s, next) = "%" /\ scan.is \in {"complete", "restart"}
     THEN [out |-> out, at |-> scan.at]
     ELSE CASE scan.is = "restart" ->
                 IF csi /\ At(s, scan.at) \in C1 THEN Chain(s, out, <<>>, scan.at, scan.at)
                 ELSE Chain(s, out, kept, copied, scan.at)
            [] scan.is = "complete" ->
                 [out |-> out \o kept \o Cut(s, copied, scan.at), at |-> scan.at]
            [] scan.is = "oversized" /\ At(s, i) = "esc" /\ next = Len(s) ->
                 [out |-> out \o kept \o RunControls(s, copied, i, next), at |-> next]
            [] OTHER -> [out |-> out \o kept \o From(s, copied), at |-> Len(s)]

RECURSIVE SanitizeFrom(_, _, _)
SanitizeFrom(s, i, out) ==
  LET k == FirstIn(s, i, {"esc"} \cup C1)
      chain == Chain(s, out \o Cut(s, i, k), <<>>, k, k)
  IN IF k = Len(s) THEN out \o From(s, i) ELSE SanitizeFrom(s, chain.at, chain.out)

Sanitize(s) == SanitizeFrom(s, 0, <<>>)

-----------------------------------------------------------------------------
(* A stream: prepare_chunk, then push_chunk.  The library has only the second *)

VARIABLES
  mode,            \* how the stream is read
  reader, carry,   \* ChunkFilterState
  pusher, pending, \* the highlighter's filter and what it holds back
  command,         \* the state the command's output would leave a terminal in
  terminal, utf8,  \* the state of the terminal, and of one set to UTF-8
  ended,
  capped,          \* history: an oversized control was made inert, or dropped
  faults           \* history: what went wrong

vars == <<mode, reader, carry, pusher, pending, command, terminal, utf8, ended, capped, faults>>

Init ==
  /\ mode \in {"preserve", "sanitize", "strip", "library"}
  /\ reader = Idle /\ carry = <<>> /\ pusher = Idle /\ pending = <<>>
  /\ command = "ground" /\ terminal = "ground" /\ utf8 = "ground"
  /\ ended = FALSE /\ capped = FALSE /\ faults = {}


Carried(rest) == IF Len(rest) > MaxString THEN <<>> ELSE rest

Cleaned(s) == CASE mode = "strip" -> Strip(s) [] mode = "sanitize" -> Sanitize(s) [] OTHER -> s

(* An oversized control is no longer held back. *)
Unended(s) == Last(States("ground", s, TRUE)) # "ground"

Passed(filtered) ==
  LET parts == AtOpen(filtered.out)
  IN [pass |-> Cleaned(parts.whole), filter |-> filtered.mode, carry |-> Carried(parts.open),
      cut |-> Len(parts.open) > MaxString \/ Unended(parts.whole)]

Prepare(bytes) ==
  LET fresh == Undiscarded(bytes, reader)
      kept == [pass |-> <<>>, filter |-> fresh.mode, carry |-> carry, cut |-> FALSE]
  IN IF mode = "library" THEN [kept EXCEPT !.pass = bytes, !.filter = reader]
     ELSE IF ~fresh.found THEN kept
     ELSE Passed(Filter(carry \o fresh.bytes, fresh.mode))

Drawn(parts, filter) == [draw |-> parts.whole, filter |-> filter, pending |-> parts.open]

DrawnOf(filtered) == Drawn(AtOpen(NeutralFrom(filtered.out, 0, 0, FALSE)), filtered.mode)

Push(bytes) ==
  LET fresh == Undiscarded(bytes, pusher)
  IN IF fresh.found THEN DrawnOf(Filter(pending \o fresh.bytes, fresh.mode))
     ELSE [draw |-> <<>>, filter |-> fresh.mode, pending |-> pending]

TextOf(s) == SelectSeq(s, LAMBDA x : x.t = "text")

(* The parts in which the highlighter renders what is drawn, the terminal     *)
(* reading each after the one before.                                        *)
Observe(drawn, held) ==
  LET seen == States(terminal, drawn, TRUE)
      other == States(utf8, drawn, FALSE)
      text == TextFrom(drawn, 0)
      opens(states) == \E i \in DOMAIN states : states[i] \in {"osc", "pm"}
  IN /\ terminal' = Last(seen) /\ utf8' = Last(other)
     /\ faults' = faults
          \cup (IF TextOf(drawn \o held.after) # TextOf(held.before) THEN {"text lost"} ELSE {})
          \cup (IF /\ ~Contains(drawn, Inert)
                   /\ \E i \in DOMAIN drawn : /\ drawn[i].t # "text" /\ drawn[i].b # "bel"
                                              /\ Draws(seen[i], drawn[i].b)
                THEN {"control drawn"} ELSE {})
          \cup (IF \E i \in DOMAIN drawn : (i - 1 \in text) # Draws(seen[i], drawn[i].b)
                THEN {"text misread"} ELSE {})
          \cup (IF mode = "sanitize" /\ (opens(seen) \/ opens(other)) THEN {"string opened"} ELSE {})

Marked(bytes) ==
  LET states == States(command, [i \in DOMAIN bytes |-> [b |-> bytes[i]]], TRUE)
  IN [i \in DOMAIN bytes |-> [b |-> bytes[i], t |-> Mark(states[i], bytes[i])]]

Read ==
  /\ ~ended
  /\ \E bytes \in Reads :
       \E items \in {Marked(bytes)} : \E prepared \in {Prepare(items)} :
       \E pushed \in {Push(prepared.pass)} :
         /\ command' = Last(States(command, items, TRUE))
         /\ reader' = prepared.filter /\ carry' = prepared.carry
         /\ pusher' = pushed.filter /\ pending' = pushed.pending
         /\ Observe(pushed.draw, [before |-> pending \o carry \o items,
                                  after |-> pushed.pending \o prepared.carry])
         /\ capped' = (capped \/ prepared.cut \/ Contains(pushed.draw, Inert))
  /\ UNCHANGED <<mode, ended>>

(* The end: the carry is pushed, then finish draws what is held back.        *)
LastPush ==
  IF carry = <<>> THEN [draw |-> <<>>, filter |-> pusher, pending |-> pending]
  ELSE Push(Cleaned(carry))

Finish ==
  /\ ~ended /\ ended' = TRUE
  /\ \E pushed \in {LastPush} :
       LET rest == AtEof(IF Aligned(pushed.pending, pushed.filter) THEN <<>> ELSE pushed.pending)
       IN Observe(pushed.draw \o rest, [before |-> pending \o carry, after |-> <<>>])
  /\ carry' = <<>> /\ pending' = <<>> /\ pusher' = Idle
  /\ UNCHANGED <<mode, reader, command, capped>>

Next == Read \/ Finish

Spec == Init /\ [][Next]_vars

-----------------------------------------------------------------------------
TypeOK ==
  /\ {carry, pending} \subseteq Seq([b : Bytes, t : {"text", "payload", "control"}])
  /\ {reader.is, pusher.is} \subseteq {"normal", "tracking", "discarding"}
  /\ {command, terminal, utf8} \subseteq {"ground", "esc", "int", "csi", "osc", "pm"}

(* Only a control that is still open is held back, from its first byte on,    *)
(* and no more than the budget and the read that overran it.                 *)
HeldIsOpenControl ==
  /\ Len(carry) <= MaxString
  /\ \E r \in Reads : Len(pending) <= MaxString + Len(r)
  /\ \A s \in {carry, pending} : s # <<>> => OpenStart(s) = 0

(* However the command's controls are cut, cancelled or oversized: what is    *)
(* drawn is whole controls and leaves the terminal ready for text (so the    *)
(* highlighter's own colours, written between, are not swallowed), and what  *)
(* the highlighter reads as text is what the terminal shows as text.         *)
FilterInv ==
  /\ TypeOK /\ HeldIsOpenControl
  /\ terminal = "ground"
  /\ "text misread" \notin faults

(* Unless an oversized control had to be cut short, no text of the command is *)
(* lost: it is drawn in the read it arrived in, or the next, or at the end.  *)
TextIsKept == ~capped => "text lost" \notin faults

(* No byte of a control, a string's payload least of all, is shown as text,   *)
(* wherever the reads cut it and however long it is (same exception); and    *)
(* under --sanitize no string control reaches the terminal, whether it        *)
(* honours raw C1 controls or not.                                           *)
ControlsAreNotShown ==
  /\ ~capped => "control drawn" \notin faults
  /\ "string opened" \notin faults
=============================================================================
