----------------------------- MODULE YamlLimits -----------------------------
(***************************************************************************)
(* check_yaml_limits (src/src/config.rs): before a configuration or profile*)
(* file is parsed, its events are walked once to bound how deep it nests   *)
(* and how much its aliases and tags would make of it.                     *)
(*                                                                         *)
(* The document is whatever events come, in an order libyaml may report    *)
(* them in; a scalar is its length, a tag the length it resolves to.  The  *)
(* history variables hold the copies serde_norway makes of the document.   *)
(***************************************************************************)
EXTENDS Sums, FiniteSets, SequencesExt, Functions

CONSTANTS
  Anchors, Lengths, TagLengths,
  Overhead,        \* YAML_NODE_OVERHEAD
  MaxNesting,      \* MAX_YAML_NESTING
  MaxCopied,       \* MAX_EXPANDED_YAML_BYTES
  MaxTags,         \* MAX_YAML_TAG_BYTES
  MaxEvents,       \* bound on the events of a file
  NoAnchor, Open   \* no anchor; the size of a node that is not complete

ASSUME YamlAssumptions ==
  /\ Lengths \cup TagLengths \cup {Overhead, MaxNesting, MaxCopied, MaxTags, MaxEvents}
       \subseteq Nat
  /\ NoAnchor \notin Anchors
  /\ Open \notin Nat /\ Open \notin Seq([size : Nat, copied : BOOLEAN])

VARIABLES
  expanded, aliasBytes, tagBytes,
  anchors,         \* the slot each anchor name stands for
  anchorSizes,     \* the expanded size in each slot, or Open
  open,            \* open collections: expanded at their start, their slot or 0
  walk,            \* "walking", "accepted", or why the file is refused
  (* History: what a reader has by now, node by node, the node in each slot,  *)
  (* the tags, and the number of events.                                     *)
  written, named, tags, events

walkState == <<expanded, aliasBytes, tagBytes, anchors, anchorSizes, open>>
yamlVars == <<walkState, walk, written, named, tags, events>>

-----------------------------------------------------------------------------
(* The history of a copying reader. *)

Node(size) == [size |-> size, copied |-> FALSE]

Total(nodes) == SumOf([i \in DOMAIN nodes |-> nodes[i].size])

Copied(nodes) == SumOf([i \in DOMAIN nodes |-> IF nodes[i].copied THEN nodes[i].size ELSE 0])

CopyOf(nodes) == [i \in DOMAIN nodes |-> [nodes[i] EXCEPT !.copied = TRUE]]

DocumentNodes == [size : Nat, copied : BOOLEAN]

(* The nodes of a collection, from its start on. *)
Since(start) == SubSeq(written, start + 1, Len(written))

-----------------------------------------------------------------------------
(* Fault: an alias costs as much as a scalar of its own. *)
Shallow(slot) == Overhead

AnchoredSize(slot) == anchorSizes[slot]

NewSlot == Len(anchorSizes) + 1

(* The latest node of a name is what it stands for. *)
Bind(anchor) ==
  IF anchor = NoAnchor THEN anchors
  ELSE [a \in DOMAIN anchors \cup {anchor} |-> IF a = anchor THEN NewSlot ELSE anchors[a]]

(* Every event is charged for its tag. *)
ChargeTag(tag) ==
  /\ walk = "walking" /\ events < MaxEvents
  /\ events' = events + 1
  /\ tagBytes' = tagBytes + tag

Scalar(length, tag, anchor) ==
  LET size == Overhead + tag + length
  IN /\ ChargeTag(tag)
     /\ expanded' = expanded + size
     /\ anchors' = Bind(anchor)
     /\ anchorSizes' = IF anchor = NoAnchor THEN anchorSizes ELSE Append(anchorSizes, size)
     /\ walk' = IF tagBytes' > MaxTags THEN "tags" ELSE walk
     /\ written' = Append(written, Node(size))
     /\ named' = IF anchor = NoAnchor THEN named ELSE Append(named, <<Node(size)>>)
     /\ tags' = Append(tags, tag)
     /\ UNCHANGED <<aliasBytes, open>>

CollectionStart(tag, anchor) ==
  /\ ChargeTag(tag)
  /\ anchors' = Bind(anchor)
  /\ anchorSizes' = IF anchor = NoAnchor THEN anchorSizes ELSE Append(anchorSizes, Open)
  /\ open' = Append(open, [start |-> expanded, slot |-> IF anchor = NoAnchor THEN 0 ELSE NewSlot,
                           from |-> Len(written)])
  /\ expanded' = expanded + Overhead + tag
  /\ walk' = IF Len(open') > MaxNesting THEN "nesting"
             ELSE IF tagBytes' > MaxTags THEN "tags" ELSE walk
  /\ written' = Append(written, Node(Overhead + tag))
  /\ named' = IF anchor = NoAnchor THEN named ELSE Append(named, Open)
  /\ tags' = Append(tags, tag)
  /\ UNCHANGED aliasBytes

CollectionEnd ==
  LET top == Last(open)
  IN /\ open # <<>>
     /\ ChargeTag(0)
     /\ open' = Front(open)
     /\ anchorSizes' =
          IF top.slot = 0 THEN anchorSizes
          ELSE [anchorSizes EXCEPT ![top.slot] = expanded - top.start]
     /\ named' = IF top.slot = 0 THEN named ELSE [named EXCEPT ![top.slot] = Since(top.from)]
     /\ UNCHANGED <<expanded, aliasBytes, anchors, walk, written, tags>>

(* An alias of a complete node copies it; it is refused with the copies that *)
(* come to too much.                                                         *)
Alias(anchor) ==
  /\ anchor \in DOMAIN anchors /\ anchorSizes[anchors[anchor]] # Open
  /\ ChargeTag(0)
  /\ expanded' = expanded + AnchoredSize(anchors[anchor])
  /\ aliasBytes' = aliasBytes + AnchoredSize(anchors[anchor])
  /\ walk' = IF aliasBytes' > MaxCopied THEN "copies" ELSE walk
  /\ written' = written \o CopyOf(named[anchors[anchor]])
  /\ UNCHANGED <<anchors, anchorSizes, open, named, tags>>

(* The copy of a node that holds its own alias would never end. *)
EndlessAlias(anchor) ==
  /\ anchor \in DOMAIN anchors /\ anchorSizes[anchors[anchor]] = Open
  /\ ChargeTag(0)
  /\ walk' = "endless"
  /\ UNCHANGED <<expanded, aliasBytes, anchors, anchorSizes, open, written, named, tags>>

(* Anchors end with their document. *)
DocumentStart ==
  /\ open = <<>>
  /\ ChargeTag(0)
  /\ anchors' = <<>> /\ anchorSizes' = <<>>
  /\ named' = <<>>
  /\ UNCHANGED <<expanded, aliasBytes, open, walk, written, tags>>

(* The end of the file; or an error, or an anchor nobody defined, which      *)
(* serde_norway then reports itself.                                         *)
StopWalk ==
  /\ walk = "walking"
  /\ walk' = "accepted"
  /\ UNCHANGED <<walkState, written, named, tags, events>>

WalkEvent ==
  \/ \E n \in Lengths, t \in TagLengths, a \in Anchors \cup {NoAnchor} : Scalar(n, t, a)
  \/ \E t \in TagLengths, a \in Anchors \cup {NoAnchor} : CollectionStart(t, a)
  \/ CollectionEnd
  \/ \E a \in Anchors : Alias(a) \/ EndlessAlias(a)
  \/ DocumentStart
  \/ StopWalk

WalkInit ==
  /\ expanded = 0 /\ aliasBytes = 0 /\ tagBytes = 0
  /\ anchors = <<>> /\ anchorSizes = <<>> /\ open = <<>>
  /\ walk = "walking"
  /\ written = <<>> /\ named = <<>> /\ tags = <<>> /\ events = 0

WalkSpec == WalkInit /\ [][WalkEvent]_yamlVars

-----------------------------------------------------------------------------
(* The walk counts what a reader that copies every alias has: all of it,     *)
(* each complete node that has a name, and the copies alone.                 *)
CountsTheCopies ==
  /\ expanded = Total(written) /\ aliasBytes = Copied(written) /\ tagBytes = SumOf(tags)
  /\ \A slot \in DOMAIN named :
       anchorSizes[slot] = IF named[slot] = Open THEN Open ELSE Total(named[slot])

(* A complete node has its size and its nodes in its slot; an open collection *)
(* knows where it began.                                                     *)
WalkTypeOK ==
  /\ {expanded, aliasBytes, tagBytes} \subseteq Nat
  /\ tags \in Seq(Nat) /\ written \in Seq(DocumentNodes)
  /\ named \in Seq(Seq(DocumentNodes) \cup {Open}) /\ anchorSizes \in Seq(Nat \cup {Open})
  /\ Len(named) = Len(anchorSizes)
  /\ DOMAIN anchors \subseteq Anchors /\ \A a \in DOMAIN anchors : anchors[a] \in DOMAIN named
  /\ open \in Seq([start : Nat, slot : Nat, from : Nat])

KnowsItsStart ==
  \A i \in DOMAIN open :
    /\ open[i].slot \in {0} \cup DOMAIN named /\ open[i].from <= Len(written)
    /\ open[i].start = Total(SubSeq(written, 1, open[i].from))

(* No bound is broken while the file is walked; the one it is refused for is. *)
BoundsHold ==
  /\ walk \in {"walking", "accepted"} =>
       /\ Copied(written) <= MaxCopied
       /\ SumOf(tags) <= MaxTags /\ Len(open) <= MaxNesting
  /\ walk = "copies" => Copied(written) > MaxCopied
  /\ walk = "tags" => SumOf(tags) > MaxTags
  /\ walk = "nesting" => Len(open) > MaxNesting

(* A file that passes loads within every bound, and none is refused for one   *)
(* it keeps (config.rs:257-302).                                             *)
BoundsTheDocument == WalkTypeOK /\ CountsTheCopies /\ KnowsItsStart /\ BoundsHold
=============================================================================
