------------------------- MODULE ProfileResolution -------------------------
(***************************************************************************)
(* How a profile set becomes rules: PrismConfig::from_profiles             *)
(* (src/src/config.rs) drops the names another chosen one inherits, and    *)
(* ProfileStore::append_profile_rules (src/src/profiles.rs) walks the      *)
(* inheritance of each of the others on a stack of its own.                *)
(*                                                                         *)
(* A profile stands for its rules.  The caller is from_profiles, which     *)
(* gives up at the first error, or a user of the library that calls        *)
(* append_profile_rules for one name after another.                        *)
(***************************************************************************)
EXTENDS Integers, Sequences, FiniteSets, SequencesExt

CONSTANT Names     \* profile names, registered or not

VARIABLES
  inherits,        \* of each registered profile, its parents in order
  selected,        \* the names asked for
  caller,          \* "config" or "library"
  wanted,          \* calls of append_profile_rules still to be made
  rules, loaded,
  resolving,       \* the profiles being resolved, with the next parent to visit
  before,          \* rule_start and loaded_before
  failed           \* names whose call failed

walkVars == <<wanted, rules, loaded, resolving, before, failed>>
resolutionVars == <<inherits, selected, caller, walkVars>>

Registered == DOMAIN inherits
Resolving == {resolving[i].name : i \in DOMAIN resolving}

-----------------------------------------------------------------------------
(* profile_inherits_profile: depth first, the next profile at the end.      *)
Inherits(profile, ancestor) ==
  LET walk[pending \in Seq(Names), seen \in SUBSET Names] ==
        IF pending = <<>> THEN "no"
        ELSE LET current == Last(pending)
             IN CASE current \in seen -> walk[Front(pending), seen]
                  [] current \notin seen \cup Registered -> "unknown"
                  [] current \in Registered \ seen ->
                       IF ancestor \in ToSet(inherits[current]) THEN "yes"
                       ELSE walk[Front(pending) \o Reverse(inherits[current]), seen \cup {current}]
  IN walk[<<profile>>, {}]

(* What one other chosen name decides about a candidate. *)
Verdict(candidate, other) ==
  IF other = candidate \/ Inherits(other, candidate) = "no" THEN "kept"
  ELSE IF Inherits(other, candidate) = "unknown" THEN "error"
  ELSE IF Inherits(candidate, other) = "no" THEN "dropped"
  ELSE "error"

(* The first name that decides does. *)
VerdictOn(candidate, names) ==
  LET decides == {i \in DOMAIN names : Verdict(candidate, names[i]) # "kept"}
  IN IF decides = {} THEN "kept"
     ELSE Verdict(candidate, names[CHOOSE i \in decides : \A j \in decides : i <= j])

(* top_level_profile_names *)
SelectionFails(names) == \E i \in DOMAIN names : VerdictOn(names[i], names) = "error"

TopLevel(names) == SelectSeq(names, LAMBDA name : VerdictOn(name, names) = "kept")

-----------------------------------------------------------------------------
(* append_profile_rules *)

Call == Head(wanted)
Top == Last(resolving)
AtEnd == Top.next > Len(inherits[Top.name])
Parent == inherits[Top.name][Top.next]
TakeParent == [resolving EXCEPT ![Len(resolving)].next = @ + 1]

Idle == resolving = <<>> /\ wanted # <<>>
Walking == resolving # <<>>

(* from_profiles hands the first error on. *)
Fail ==
  /\ failed' = failed \cup {Call}
  /\ wanted' = IF caller = "config" THEN <<>> ELSE Tail(wanted)

SkipLoaded ==
  /\ Idle /\ Call \in loaded
  /\ wanted' = Tail(wanted)
  /\ UNCHANGED <<inherits, selected, caller, rules, loaded, resolving, before, failed>>

UnknownProfile ==
  /\ Idle /\ Call \notin loaded \cup Registered
  /\ Fail
  /\ UNCHANGED <<inherits, selected, caller, rules, loaded, resolving, before>>

StartProfile ==
  /\ Idle /\ Call \in Registered \ loaded
  /\ before' = [ruleStart |-> Len(rules), loaded |-> loaded]
  /\ rules' = Append(rules, Call)
  /\ resolving' = <<[name |-> Call, next |-> 1]>>
  /\ UNCHANGED <<inherits, selected, caller, wanted, loaded, failed>>

FinishProfile ==
  /\ Walking /\ AtEnd
  /\ loaded' = loaded \cup {Top.name}
  /\ resolving' = Front(resolving)
  /\ wanted' = IF Len(resolving) = 1 THEN Tail(wanted) ELSE wanted
  /\ UNCHANGED <<inherits, selected, caller, rules, before, failed>>

(* Fault: a parent reached on two ways is appended twice. *)
NothingSkipped == {}

Skipped == loaded

SkipParent ==
  /\ Walking /\ ~ AtEnd /\ Parent \in Skipped
  /\ resolving' = TakeParent
  /\ UNCHANGED <<inherits, selected, caller, wanted, rules, loaded, before, failed>>

EnterParent ==
  /\ Walking /\ ~ AtEnd /\ Parent \in Registered \ (Skipped \cup Resolving)
  /\ rules' = Append(rules, Parent)
  /\ resolving' = Append(TakeParent, [name |-> Parent, next |-> 1])
  /\ UNCHANGED <<inherits, selected, caller, wanted, loaded, before, failed>>

(* Fault: what the failed call appended stays. *)
KeepPartial == UNCHANGED <<rules, loaded>>

RollBack ==
  /\ rules' = SubSeq(rules, 1, before.ruleStart)
  /\ loaded' = before.loaded

(* A cycle, or a parent that is not registered. *)
AbandonProfile ==
  /\ Walking /\ ~ AtEnd
  /\ Parent \in Resolving \ Skipped \/ Parent \notin Registered \cup Skipped
  /\ RollBack
  /\ resolving' = <<>>
  /\ Fail
  /\ UNCHANGED <<inherits, selected, caller, before>>

ResolveStep ==
  \/ SkipLoaded \/ UnknownProfile \/ StartProfile \/ FinishProfile
  \/ SkipParent \/ EnterParent \/ AbandonProfile

-----------------------------------------------------------------------------
NothingResolved ==
  /\ rules = <<>> /\ loaded = {} /\ resolving = <<>>
  /\ before = [ruleStart |-> 0, loaded |-> {}]

(* The calls a caller makes for the names; an error of the selection is one  *)
(* before any call.                                                          *)
Calls(names, by) ==
  IF by = "library" THEN names
  ELSE IF SelectionFails(names) THEN <<>> ELSE TopLevel(names)

FailedAtOnce(names, by) ==
  IF by = "config" /\ SelectionFails(names) THEN ToSet(names) ELSE {}

ResolutionInit ==
  /\ inherits \in UNION {[known -> Seq(Names)] : known \in SUBSET Names}
  /\ selected \in Seq(Names) /\ caller \in {"config", "library"}
  /\ wanted = Calls(selected, caller)
  /\ failed = FailedAtOnce(selected, caller)
  /\ NothingResolved

ResolutionSpec == ResolutionInit /\ [][ResolveStep]_resolutionVars

-----------------------------------------------------------------------------
ResolutionTypeOK ==
  /\ Registered \subseteq Names
  /\ \A p \in Registered : inherits[p] \in Seq(Names)
  /\ caller \in {"config", "library"}
  /\ rules \in Seq(Names)
  /\ loaded \subseteq Registered
  /\ resolving \in Seq([name : Registered, next : Nat \ {0}])
  /\ before.ruleStart \in Nat /\ before.loaded \subseteq loaded

(* No profile waits for itself: the stack is as deep as the store is large   *)
(* (profiles.rs:911-913).                                                    *)
StackHasNoRepeats ==
  /\ Walking => wanted # <<>>
  /\ \A i, j \in DOMAIN resolving : resolving[i].name = resolving[j].name => i = j
  /\ Resolving \cap loaded = {}

(* The rules of a profile are appended once, on however many ways it is      *)
(* inherited and whatever calls failed before.                               *)
RulesAppearOnce ==
  /\ \A i, j \in DOMAIN rules : rules[i] = rules[j] => i = j
  /\ {rules[i] : i \in DOMAIN rules} = loaded \cup Resolving

(* What a failed call must give back is what the rules began with. *)
RollBackIsExact ==
  Walking =>
    /\ before.ruleStart <= Len(rules)
    /\ {rules[i] : i \in 1 .. before.ruleStart} = before.loaded

(* Each profile on the stack waits for the one above it; the parents it has  *)
(* been through are loaded.                                                  *)
StackIsAPath ==
  \A i \in DOMAIN resolving :
    /\ resolving[i].next <= Len(inherits[resolving[i].name]) + 1
    /\ \A k \in 1 .. resolving[i].next - 1 :
         \/ inherits[resolving[i].name][k] \in loaded
         \/ /\ i < Len(resolving) /\ k = resolving[i].next - 1
            /\ resolving[i + 1].name = inherits[resolving[i].name][k]

(* Whatever is loaded came with all it inherits. *)
LoadedIsWhole(set) ==
  \A p \in set : \A k \in DOMAIN inherits[p] : inherits[p][k] \in set

(* What a caller ever sees of a resolution is whole, a failed one included:   *)
(* each profile once, with everything it inherits (profiles.rs:893-962).      *)
ResolvedIsWhole ==
  resolving = <<>> =>
    /\ LoadedIsWhole({rules[i] : i \in DOMAIN rules})
    /\ \A i, j \in DOMAIN rules : rules[i] = rules[j] => i = j

ResolverInv ==
  /\ ResolutionTypeOK
  /\ StackHasNoRepeats
  /\ RulesAppearOnce
  /\ RollBackIsExact
  /\ StackIsAPath
  /\ LoadedIsWhole(loaded)
  /\ Walking => LoadedIsWhole(before.loaded)
=============================================================================
