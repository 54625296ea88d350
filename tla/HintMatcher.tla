---------------------------- MODULE HintMatcher ----------------------------
(***************************************************************************)
(* DetectionMatcher (src/src/profiles.rs): the detection hints of all      *)
(* profiles are looked for in one pass over the sample, by an automaton in *)
(* which the boundary of a word is a symbol of its own.                    *)
(*                                                                         *)
(* Text and hints are sequences of lowercased bytes.  A node of the        *)
(* automaton is the symbols that lead to it from the root.                 *)
(***************************************************************************)
EXTENDS Integers, Sequences, FiniteSets, SequencesExt

CONSTANTS
  Bytes,
  WordBytes,       \* letters, digits and underscores
  Boundary         \* DETECTION_BOUNDARY_SYMBOL

ASSUME HintAssumptions == WordBytes \subseteq Bytes /\ Boundary \notin Bytes

Symbol == Bytes \cup {Boundary}

-----------------------------------------------------------------------------
(* A boundary lies where a word begins or ends, at the ends of the text too. *)
BoundaryBefore(text, i) ==
  IF i = 1 THEN text[1] \in WordBytes
  ELSE (text[i - 1] \in WordBytes) # (text[i] \in WordBytes)

BoundaryAtEnd(text) == text # <<>> /\ Last(text) \in WordBytes

(* What a text is for the automaton, up to its n-th byte, and as a whole. *)
SymbolsUpTo(text) ==
  LET upTo[n \in 0 .. Len(text)] ==
        IF n = 0 THEN <<>>
        ELSE upTo[n - 1] \o (IF BoundaryBefore(text, n) THEN <<Boundary>> ELSE <<>>) \o <<text[n]>>
  IN upTo

Symbols(text) ==
  SymbolsUpTo(text)[Len(text)] \o (IF BoundaryAtEnd(text) THEN <<Boundary>> ELSE <<>>)

-----------------------------------------------------------------------------
(* hints: the hints of each profile.  The profiles a node is an output of,   *)
(* and the nodes: every beginning of a pattern.                              *)
Outputs(hints, node) ==
  {p \in DOMAIN hints : \E h \in hints[p] : h # <<>> /\ Symbols(h) = node}

Nodes(hints) ==
  {<<>>} \cup UNION {Prefixes(Symbols(h)) : h \in UNION {hints[p] : p \in DOMAIN hints}}

(* Fault: without a transition the search falls back to the root at once. *)
ToRoot(nodes, failure, symbol) ==
  [node \in nodes |->
     IF Append(node, symbol) \in nodes THEN Append(node, symbol)
     ELSE IF <<symbol>> \in nodes THEN <<symbol>> ELSE <<>>]

(* Follow failure links until one has the transition; the root stays. *)
Follow(nodes, failure, symbol) ==
  LET step[node \in nodes] ==
        IF Append(node, symbol) \in nodes THEN Append(node, symbol)
        ELSE IF node = <<>> THEN <<>>
        ELSE step[failure[node]]
  IN step

(* The link of a node one symbol longer than front: the same search, along   *)
(* the links of the nodes up to front, which are shorter than that node.     *)
LinkFrom(nodes, failure, front, symbol) ==
  LET fall[from \in {node \in nodes : Len(node) <= Len(front)}] ==
        IF Append(from, symbol) \in nodes THEN Append(from, symbol)
        ELSE IF from = <<>> THEN <<>>
        ELSE fall[failure[from]]
  IN fall[failure[front]]

(* build_failure_links: breadth first, so that a node's link comes after     *)
(* those of the shorter ones.                                                *)
Failures(nodes) ==
  LET failure[node \in nodes] ==
        IF Len(node) <= 1 THEN <<>> ELSE LinkFrom(nodes, failure, Front(node), Last(node))
  IN failure

(* A node, and the nodes along its output links. *)
Reports(hints, nodes, failure) ==
  LET report[node \in nodes] ==
        Outputs(hints, node) \cup (IF node = <<>> THEN {} ELSE report[failure[node]])
  IN report

(* advance_symbol: the scan stops once every profile that has hints is found. *)
Advance(step, report, hinted, scan, symbol) ==
  IF scan.found = hinted THEN scan
  ELSE LET node == step[symbol][scan.node]
       IN [node |-> node, found |-> scan.found \cup report[node]]

Scanning(step, report, hinted, symbols) ==
  LET scan[n \in 0 .. Len(symbols)] ==
        IF n = 0 THEN [node |-> <<>>, found |-> {}]
        ELSE Advance(step, report, hinted, scan[n - 1], symbols[n])
  IN scan

ScanWith(step, report, hinted, symbols) ==
  Scanning(step, report, hinted, symbols)[Len(symbols)].found

WithHints(hints) == {p \in DOMAIN hints : hints[p] \ {<<>>} # {}}

Automaton(hints, nodes, failure, text) ==
  ScanWith([symbol \in Symbol |-> Follow(nodes, failure, symbol)],
           Reports(hints, nodes, failure), WithHints(hints), Symbols(text))

(* matching_profiles *)
MatchingProfiles(hints, text) ==
  Automaton(hints, Nodes(hints), Failures(Nodes(hints)), text)

-----------------------------------------------------------------------------
(* A hint stands in the text at i when no word runs across either end of it. *)
StandsAt(hint, text, i) ==
  /\ i + Len(hint) - 1 <= Len(text)
  /\ SubSeq(text, i, i + Len(hint) - 1) = hint
  /\ ~ (hint[1] \in WordBytes /\ i > 1 /\ text[i - 1] \in WordBytes)
  /\ ~ (/\ Last(hint) \in WordBytes
        /\ i + Len(hint) <= Len(text) /\ text[i + Len(hint)] \in WordBytes)

(* A profile matches exactly when one of its hints stands somewhere in the   *)
(* text as whole words, whichever hints of other profiles begin, end or      *)
(* contain it (profiles.rs:481-702).                                         *)
FindsWholeWords(hints, text) ==
  MatchingProfiles(hints, text) =
    {p \in DOMAIN hints : \E h \in hints[p] \ {<<>>} : \E i \in DOMAIN text : StandsAt(h, text, i)}
=============================================================================
