---------------------------- MODULE MCProfileStore ----------------------------
(***************************************************************************)
(* Four families of beginnings: files about to be listed; a store with any *)
(* inheritance; a store with any hints and a first output; a document whose*)
(* events are walked before it is parsed.                                  *)
(***************************************************************************)
EXTENDS ProfileStore, YamlLimits

G == <<"g">>
A == <<"a">>
B == <<"b">>
U == <<"u">>

MCProfileFiles == <<"1.yml", "2.yml", "3.yml">>
MCOverlayFiles == <<"rules.yml">>

MCNames == {G, A, B, U}
MCNameOrder == <<A, B, G, U>>
MCPriority == [p \in {G, A} |-> IF p = G THEN 0 ELSE 9]
MCBudget(bytes, most, all) ==
  [f \in {"inherits", "detection"} |-> [entryBytes |-> bytes, entries |-> most, bytes |-> all]]
MCProfileBudget == MCBudget(3, 2, 3)
MCStoreBudget ==
  [f \in {"inherits", "detection"} |->
     IF f = "inherits" THEN [entries |-> 4, bytes |-> 2] ELSE [entries |-> 2, bytes |-> 6]]

Text(t, blanks) == [text |-> t, blanks |-> blanks]
Doc(name, parents, hints) ==
  [name |-> name, inherits |-> AsEntries(parents), detection |-> hints,
   runtime |-> FALSE, sound |-> TRUE]
File(size, document) == [size |-> size, document |-> document]
Built(parents, hints) == [inherits |-> parents, detection |-> hints, bundled |-> TRUE]

MCBundled ==
  [p \in {G, A} |-> IF p = G THEN Built(<<>>, <<>>) ELSE Built(<<G>>, <<<<"a">>>>)]

OverB == File(1, Doc(B, <<A>>, <<Text(<<"b">>, 1), Text(<<>>, 2), Text(<<"b">>, 0)>>))
OverA == File(2, Doc(A, <<B>>, <<Text(<<"a", "-">>, 1)>>))
MoreB == File(2, Doc(B, <<G, A>>, <<Text(<<"-", "b">>, 0), Text(<<"b">>, 0)>>))
LongHint == File(1, Doc(B, <<>>, <<Text(<<"b", "b">>, 2)>>))
Rules == File(1, [Doc(None, <<>>, <<>>) EXCEPT !.name = None])
Broken == File(1, None)
Large == File(4, Doc(B, <<>>, <<>>))

MCContents == {OverA, OverB, MoreB, LongHint, Rules, Broken, Large}

Sample(text, strong, prompt, negative) ==
  [text |-> text, strong |-> strong, prompt |-> prompt, negative |-> negative]
MCSamples == {Sample(<<"a", "-", "b">>, {}, {}, {}), Sample(<<"b", "a">>, {A}, {}, {}),
              Sample(<<"b">>, {}, {A}, {A}), Sample(<<"b">>, {}, {A}, {})}
MCForced == {<<G>>, <<B, G>>, <<A, U>>}

-----------------------------------------------------------------------------
Walked == WalkInit /\ walk = "walking"
NotWalked ==
  /\ expanded = 0 /\ aliasBytes = 0 /\ tagBytes = 0
  /\ anchors = <<>> /\ anchorSizes = <<>> /\ open = <<>>
  /\ walk = "accepted"
  /\ written = <<>> /\ named = <<>> /\ tags = <<>> /\ events = 0

(* The overlay begins without a broken file, to be edited into one. *)
Files ==
  /\ NotWalked /\ LoadingInit /\ SelectInit
  /\ disk["rules.yml"] \in {Missing, Rules} /\ disk["3.yml"] \in {Missing, OverB}

Settled(at, profiles) ==
  /\ disk = [path \in Paths |-> Missing] /\ shown = [path \in Paths |-> {Missing}]
  /\ edits = 0 /\ loading = at
  /\ unlisted = {} /\ listed = 0 /\ entries = {} /\ opened = None
  /\ sources = <<>> /\ total = 0 /\ overlay = <<>> /\ unchecked = <<>>
  /\ store = profiles

Graphs ==
  [{A, B, G} -> {<<>>, <<A>>, <<B>>, <<G>>, <<B, G>>, <<G, B>>, <<U>>, <<G, U>>}]

Families ==
  /\ NotWalked /\ Settled("loaded", MCBundled)
  /\ sample = None /\ choice = "begun"
  /\ inherits \in Graphs /\ selected \in UNION {[1 .. n -> MCNames] : n \in 0 .. 2}
  /\ caller \in {"config", "library"}
  /\ wanted = Calls(selected, caller) /\ failed = FailedAtOnce(selected, caller)
  /\ NothingResolved

HintTexts == {<<"a">>, <<"-">>, <<"a", "-">>, <<"-", "a">>, <<"a", "-", "a">>, <<"b", "a">>,
              <<"a", "-", "b">>, <<"a", "b">>}
Lines == UNION {[1 .. n -> {"a", "b", "-"}] : n \in 1 .. 4}
Hinted(p, q) == [n \in {A, B} |-> Built(<<>>, IF n = A THEN p ELSE q)]

Hints2 ==
  /\ NotWalked
  /\ \E g, h \in HintTexts :
       Settled("loaded", Hinted(<<g>>, <<h>>)) \/ Settled("loaded", Hinted(<<g, h>>, <<>>))
  /\ \E line \in Lines : sample = Sample(line, {}, {}, {})
  /\ choice = "chosen" /\ selected = <<>> /\ inherits = <<>> /\ caller = "config"
  /\ wanted = <<>> /\ failed = {} /\ NothingResolved

Documents == Walked /\ Settled("failed", MCBundled) /\ SelectInit

MCInit == Files \/ Families \/ Hints2 \/ Documents

MCNext ==
  \/ StoreStep /\ UNCHANGED yamlVars
  \/ WalkEvent /\ UNCHANGED storeVars

MCSpec == MCInit /\ [][MCNext]_<<storeVars, yamlVars>>
=============================================================================
