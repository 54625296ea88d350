---------------------------- MODULE ProfileStore ----------------------------
(***************************************************************************)
(* From the files of the user to the rules of a session: profile_store     *)
(* loads, select_profile_names_with_store (profile_selection.rs) detects   *)
(* on the first output or takes the profiles the options name, and         *)
(* from_profiles (config.rs) resolves them.                                *)
(*                                                                         *)
(* A sample is its text, and the bundled profiles whose strong signal,     *)
(* startup prompt or negative signal it holds.                             *)
(***************************************************************************)
EXTENDS ProfileLoading, ProfileResolution, HintMatcher

CONSTANTS
  Samples,
  Forced,          \* the profile lists the options may name
  Generic,
  NameOrder,       \* all names in their order
  Priority,        \* of each bundled profile
  UserPriority     \* USER_PROFILE_RUNTIME_PRIORITY

(* Hints and samples are text: sequences of bytes. *)
ASSUME TextAssumption ==
  /\ \A n \in DOMAIN Bundled : Bundled[n].detection \in Seq(Seq(Bytes))
  /\ \A c \in Contents : c.document # None =>
       \A i \in DOMAIN c.document.detection : c.document.detection[i].text \in Seq(Bytes)
  /\ \A seen \in Samples : seen.text \in Seq(Bytes)

VARIABLES
  sample,          \* the first output, once it was looked at
  choice           \* "none", "chosen" or "begun"

selectionVars == <<sample, choice>>

-----------------------------------------------------------------------------
(* detect_profiles_with_lowercase *)

Hints == [p \in DOMAIN store \ {Generic} |-> ToSet(store[p].detection)]

(* A user's profile has hints alone, one that shadows a bundled one too. *)
MatchesStartup(seen) ==
  MatchingProfiles(Hints, seen.text)
    \cup {p \in seen.strong \cup (seen.prompt \ seen.negative) :
            p \in DOMAIN Hints /\ store[p].bundled}

Rank(p) == IF store[p].bundled THEN Priority[p] ELSE UserPriority

Precedes(p, q) ==
  \/ Rank(p) < Rank(q)
  \/ /\ Rank(p) = Rank(q)
     /\ \E i, j \in DOMAIN NameOrder : i < j /\ NameOrder[i] = p /\ NameOrder[j] = q

DetectedProfiles(seen) == <<Generic>> \o SetToSortSeq(MatchesStartup(seen), Precedes)

(* select_profile_names_with_store: the names of the options, or what the     *)
(* first output shows.                                                       *)
ChooseProfiles ==
  /\ loading = "loaded" /\ choice = "none"
  /\ \/ \E names \in Forced : selected' = names /\ UNCHANGED sample
     \/ \E seen \in Samples : sample' = seen /\ selected' = DetectedProfiles(seen)
  /\ inherits' = [p \in DOMAIN store |-> store[p].inherits]
  /\ caller' = "config" /\ choice' = "chosen"
  /\ UNCHANGED <<loadingVars, walkVars>>

(* from_profiles *)
BeginResolution ==
  /\ choice = "chosen"
  /\ wanted' = Calls(selected, caller)
  /\ failed' = FailedAtOnce(selected, caller)
  /\ choice' = "begun"
  /\ UNCHANGED <<loadingVars, inherits, selected, caller, rules, loaded, resolving, before,
                 sample>>

SelectInit ==
  /\ sample = None /\ choice = "none"
  /\ inherits = <<>> /\ selected = <<>> /\ caller = "config"
  /\ wanted = <<>> /\ failed = {} /\ NothingResolved

StoreInit == LoadingInit /\ SelectInit

StoreStep ==
  \/ LoadStep /\ UNCHANGED <<resolutionVars, selectionVars>>
  \/ EditStep /\ UNCHANGED <<resolutionVars, selectionVars>>
  \/ ChooseProfiles
  \/ BeginResolution
  \/ ResolveStep /\ UNCHANGED <<loadingVars, selectionVars>>

storeVars == <<loadingVars, resolutionVars, selectionVars>>

StoreSpec == StoreInit /\ [][StoreStep]_storeVars

-----------------------------------------------------------------------------
(* What the rules of a selection are, said without the walk. *)

Closed(set) == \A p \in set \cap Registered : ToSet(inherits[p]) \subseteq set

Lineage(p) == {q \in Names : \A set \in SUBSET Names : p \in set /\ Closed(set) => q \in set}

Inherited(p) ==
  IF p \in Registered THEN UNION {Lineage(q) : q \in ToSet(inherits[p])} ELSE {}

(* Somewhere above it a name is not registered, or a profile inherits itself. *)
Unsound(p) == \E q \in Lineage(p) : q \notin Registered \/ q \in Inherited(q)

(* The whole family of a sound profile, repeats included. *)
Expansion ==
  LET family[p \in Names] ==
        <<p>> \o FoldLeft(LAMBDA below, q : below \o family[q], <<>>, inherits[p])
  IN family

FirstOccurrences(names) ==
  FoldLeft(LAMBDA first, p : IF Contains(first, p) THEN first ELSE Append(first, p), <<>>, names)

FamiliesOf(names) ==
  FirstOccurrences(FoldLeft(LAMBDA all, p : all \o Expansion[p], <<>>, names))

InheritedBySelected(p) == \E i \in DOMAIN selected : p \in Inherited(selected[i])

(* A selection fails exactly when a profile above it is missing or inherits  *)
(* itself; otherwise its rules are the families of the chosen profiles that  *)
(* no other chosen one inherits, each profile where it is first met.  The    *)
(* calls of a library user each succeed or fail for themselves               *)
(* (config.rs:184-200, profiles.rs:893-1010).                                *)
SelectionIsResolved ==
  choice = "begun" /\ wanted = <<>> =>
    LET sound == SelectSeq(selected, LAMBDA p : ~ Unsound(p))
    IN IF caller = "library"
       THEN /\ failed = ToSet(selected) \ ToSet(sound)
            /\ rules = FamiliesOf(sound)
       ELSE /\ failed = {} <=> sound = selected
            /\ failed = {} =>
                 /\ rules = FamiliesOf(SelectSeq(selected, LAMBDA p : ~ InheritedBySelected(p)))
                 /\ ToSet(rules) = UNION {Lineage(p) : p \in ToSet(selected)}

(* The store a session begins with is made of what the files held while they  *)
(* were read, however they were edited meanwhile (profile_selection.rs:222-262).*)
StoreIsWhatWasRead == loading = "loaded" /\ choice = "none" => NoneMadeUp /\ NoneLost

(* Loading stays within its budgets and types, a normalized set stays as it   *)
(* is, and what was loaded is what the files held when they were read.        *)
StoreInv ==
  /\ LoadingTypeOK /\ LoadKeepsBudgets /\ NormalizedStays
  /\ choice = "none" => LoadsInOrder
  /\ StoreIsWhatWasRead

(* Detection on the first output finds the hints that stand in it as words    *)
(* of their own, and no others (profiles.rs:481-702).                        *)
HintsAreFound ==
  choice = "chosen" /\ sample # None => FindsWholeWords(Hints, sample.text)
=============================================================================
