--------------------------- MODULE ProfileSession ---------------------------
(***************************************************************************)
(* HighlightSession of src/src/cli/stream.rs around the ProfileRuntime: it *)
(* builds the highlighter a proposed profile set needs, or finds it in the *)
(* bounded cache, remembers the sets that do not build, and exchanges      *)
(* store, cache and highlighter when a reload is requested.                *)
(*                                                                         *)
(* A store is the profiles it knows and those whose rules compile; a set   *)
(* builds when all its profiles do.  A highlighter is the set it was built *)
(* for and the number of the reload it was built under (generation).       *)
(***************************************************************************)
EXTENDS ProfileRuntime

CONSTANTS
  Stores,          \* the stores that profiles.d may hold over time
  CacheLimit,      \* HIGHLIGHTER_CACHE_LIMIT
  MaxReloads       \* bound on the reloads that succeed

Store == [known : SUBSET Profiles, sound : SUBSET Profiles]

ASSUME SessionAssumptions ==
  /\ Stores \subseteq Store
  /\ \A s \in Stores : s.sound \subseteq s.known
  /\ CacheLimit \in Nat \ {0} /\ MaxReloads \in Nat

VARIABLES
  profileNames,    \* the set the session highlights with
  streaming,       \* the highlighter inside the StreamingHighlighter
  store, generation,
  cache, recency,  \* entries and least_to_most_recent of HighlighterCache
  rejectedSets     \* rejected_profile_sets, oldest first

sessionVars == <<profileNames, streaming, store, generation, cache, recency, rejectedSets>>
vars == <<runtimeVars, sessionVars>>

Highlighter == [profiles : SUBSET Profiles, generation : Nat]

HighlighterFor(names) == [profiles |-> names, generation |-> generation]

Builds(s, names) == names \subseteq s.sound

-----------------------------------------------------------------------------
(* HighlighterCache *)

Touch(names) == Append(RemoveFirst(recency, names), names)

(* The least recently used entry makes room. *)
InsertEvicting(names) ==
  LET full == Cardinality(DOMAIN cache) >= CacheLimit
      kept == IF full THEN DOMAIN cache \ {Head(recency)} ELSE DOMAIN cache
  IN /\ cache' = [n \in kept \cup {names} |->
                    IF n = names THEN HighlighterFor(names) ELSE cache[n]]
     /\ recency' = Append(IF full THEN Tail(recency) ELSE recency, names)

(* The distinct ones of the first n sets, for every n, each where it is first met. *)
DistinctOf(list) ==
  LET distinct[n \in 0 .. Len(list)] ==
        IF n = 0 THEN <<>>
        ELSE IF Contains(distinct[n - 1], list[n]) THEN distinct[n - 1]
        ELSE Append(distinct[n - 1], list[n])
  IN distinct

RetainedInOrder ==
  <<profileNames, baselineProfiles>> \o [i \in DOMAIN stack |-> stack[i].profiles]

(* The sets a reload prebuilds, in the order they are first met; when there *)
(* are more than the cache holds, the first ones are evicted again.          *)
PrebuiltOrder == DistinctOf(RetainedInOrder)[Len(RetainedInOrder)]

Newest(s) == IF Len(s) > CacheLimit THEN SubSeq(s, Len(s) - CacheLimit + 1, Len(s)) ELSE s

(* Fault: entries of the old generation survive. *)
ExtendGeneration ==
  /\ recency' = Newest(PrebuiltOrder)
  /\ cache' = [n \in ToSet(recency') |->
                 IF n \in DOMAIN cache THEN cache[n]
                 ELSE [profiles |-> n, generation |-> generation + 1]]

ReplaceGeneration ==
  /\ recency' = Newest(PrebuiltOrder)
  /\ cache' = [n \in ToSet(recency') |-> [profiles |-> n, generation |-> generation + 1]]

RememberRejected(names) ==
  rejectedSets' =
    IF Contains(rejectedSets, names) THEN rejectedSets
    ELSE Append(IF Len(rejectedSets) >= CacheLimit THEN Tail(rejectedSets) ELSE rejectedSets,
                names)

(* Fault: the refusals of the old generation stay. *)
KeepRejected == UNCHANGED rejectedSets

ForgetRejected == rejectedSets' = <<>>

-----------------------------------------------------------------------------
(* HighlightSession::new with the given sets in its cache, oldest first. *)
NewSession(built) ==
  /\ Builds(store, profileNames)
  /\ streaming = HighlighterFor(profileNames)
  /\ recency = Newest(built)
  /\ cache = [n \in ToSet(recency) |-> HighlighterFor(n)]

(* prepare_session builds the generic set; the set detected from the first  *)
(* read replaces it, or is remembered as rejected when it does not build.   *)
Init ==
  /\ RuntimeInit
  /\ store \in Stores /\ generation = 1
  /\ profileNames = activeProfiles
  /\ NewSession(IF profileNames = {} THEN <<{}>> ELSE <<{}, profileNames>>)
  /\ \/ rejectedSets = <<>>
     \/ /\ profileNames = {}
        /\ \E first \in SUBSET store.known :
             ~ Builds(store, first) /\ rejectedSets = <<first>>

(* switch_profiles with the runtime's proposal: a set rejected before is     *)
(* rejected again unbuilt, a cached highlighter is cloned, another is built. *)
SwitchToCached ==
  /\ rollback # None /\ activeProfiles # profileNames
  /\ ~ Contains(rejectedSets, activeProfiles)
  /\ activeProfiles \in DOMAIN cache
  /\ profileNames' = activeProfiles
  /\ streaming' = cache[activeProfiles]
  /\ recency' = Touch(activeProfiles)
  /\ AcceptTransition
  /\ UNCHANGED <<store, generation, cache, rejectedSets>>

SwitchToBuilt ==
  /\ rollback # None /\ activeProfiles # profileNames
  /\ ~ Contains(rejectedSets, activeProfiles)
  /\ activeProfiles \notin DOMAIN cache /\ Builds(store, activeProfiles)
  /\ profileNames' = activeProfiles
  /\ streaming' = HighlighterFor(activeProfiles)
  /\ InsertEvicting(activeProfiles)
  /\ AcceptTransition
  /\ UNCHANGED <<store, generation, rejectedSets>>

(* The last good highlighter stays, and the runtime goes back with it. *)
RejectSwitch ==
  /\ rollback # None /\ activeProfiles # profileNames
  /\ \/ Contains(rejectedSets, activeProfiles)
     \/ activeProfiles \notin DOMAIN cache /\ ~ Builds(store, activeProfiles)
  /\ RememberRejected(activeProfiles)
  /\ RejectTransition
  /\ UNCHANGED <<profileNames, streaming, store, generation, cache, recency>>

(* Every set the session may go back to must build before anything changes. *)
Reload(next) ==
  /\ rollback = None /\ generation <= MaxReloads
  /\ \A names \in ProfileSetsForReload \cup {profileNames} : Builds(next, names)
  /\ store' = next /\ generation' = generation + 1
  /\ ReplaceGeneration
  /\ streaming' = [profiles |-> profileNames, generation |-> generation']
  /\ ForgetRejected
  /\ AcceptReloadGeneration
  /\ UNCHANGED profileNames

(* The store finds only the profiles it knows, a user's profile whose rules   *)
(* do not compile among them.                                                 *)
ReadOutput(r) ==
  /\ \A l \in AllLines(r) : l.startup \subseteq store.known
  /\ ObserveOutput(r)
  /\ UNCHANGED sessionVars

Next ==
  \/ ObserveInput /\ UNCHANGED sessionVars
  \/ \E r \in Reads : ReadOutput(r)
  \/ SwitchToCached
  \/ SwitchToBuilt
  \/ RejectSwitch
  \/ \E next \in Stores : Reload(next)

Spec == Init /\ [][Next]_vars

-----------------------------------------------------------------------------
TypeOK ==
  /\ RuntimeTypeOK
  /\ profileNames \in SUBSET Profiles
  /\ streaming \in Highlighter
  /\ store \in Stores /\ generation \in 1 .. MaxReloads + 1
  /\ cache \in [DOMAIN cache -> Highlighter] /\ DOMAIN cache \subseteq SUBSET Profiles
  /\ recency \in Seq(SUBSET Profiles)
  /\ rejectedSets \in Seq(SUBSET Profiles)

(* What the runtime believes active is what the session highlights with;    *)
(* while a proposal is undecided, what its rollback would restore.          *)
SessionFollowsRuntime ==
  profileNames = IF rollback = None THEN activeProfiles ELSE rollback.active

(* The sets to go back to, those a rejected proposal would restore included. *)
RetainedSets ==
  IF rollback = None THEN {baselineProfiles} \cup {stack[i].profiles : i \in DOMAIN stack}
  ELSE {rollback.baseline} \cup {rollback.stack[i].profiles : i \in DOMAIN rollback.stack}

(* Every set a closing connection can go back to builds under the current   *)
(* store, however many reloads, rejections and collapses lie between.       *)
RetainedSetsBuild ==
  \A names \in RetainedSets \cup {profileNames} : Builds(store, names)

(* No highlighter of an earlier generation is in use or in the cache        *)
(* (stream.rs:560-582).                                                     *)
NoStaleHighlighter ==
  /\ streaming = HighlighterFor(profileNames)
  /\ \A n \in DOMAIN cache : cache[n] = HighlighterFor(n)

(* The order of use lists each cached set once, and the bound is kept. *)
CacheOrderConsistent ==
  /\ ToSet(recency) = DOMAIN cache
  /\ IsInjective(recency)
  /\ Len(recency) <= CacheLimit

(* A cached highlighter is of a set that builds: a switch to it is as good  *)
(* as a build.                                                              *)
CachedSetsBuild == \A names \in DOMAIN cache : Builds(store, names)

(* While a proposal is undecided, the stack it leaves goes back to nothing  *)
(* that the session could not go back to before, but to the set in use; a    *)
(* new baseline is the proposed set.                                        *)
ProposalKeepsToRetained ==
  rollback # None =>
    /\ baselineProfiles \in RetainedSets \cup {activeProfiles}
    /\ \A i \in DOMAIN stack : stack[i].profiles \in RetainedSets \cup {profileNames}

(* A set is refused unbuilt only while it really does not build             *)
(* (stream.rs:526-530).                                                     *)
RejectedSetsDoNotBuild ==
  \A i \in DOMAIN rejectedSets : ~ Builds(store, rejectedSets[i])

(* However output, refusals and reloads alternate, the session is with the   *)
(* runtime and what it may go back to can be built (stream.rs:375-582).      *)
SessionInv ==
  /\ TypeOK /\ SessionFollowsRuntime /\ RetainedSetsBuild
  /\ CacheOrderConsistent /\ CachedSetsBuild /\ RejectedSetsDoNotBuild
  /\ ProposalKeepsToRetained

(* The end of a connection is never refused: a proposal that goes back to a *)
(* retained set is not rejected.                                            *)
GoingBackIsNeverRejected ==
  [][ (rollback # None /\ activeProfiles \in RetainedSets)
      => (profileNames' = activeProfiles \/ rollback' # None) ]_vars
=============================================================================
