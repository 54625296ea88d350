------------------------- MODULE ProfileStoreProofs -------------------------
(***************************************************************************)
(* Theorems about the store.  Inheritance is resolved without repeats and  *)
(* without leftovers, for any store, cyclic or incomplete ones included,   *)
(* and any calls.  The walk over a document counts what a reader that      *)
(* copies every alias will have, whatever the document.  A load keeps its  *)
(* budgets and loses nothing, whatever the files and however they are      *)
(* edited meanwhile.  The hints of the loaded profiles are found in the    *)
(* first output exactly where they stand as whole words.                   *)
(***************************************************************************)
EXTENDS ProfileStore, YamlLimits, SequenceTheorems, WellFoundedInduction, FiniteSetTheorems,
        TLAPS

-----------------------------------------------------------------------------
(* The ends of a sequence. *)

(* The rules that stay when a call is rolled back. *)
LEMMA PrefixFacts ==
  ASSUME NEW S, NEW s \in Seq(S), NEW n \in Nat, n <= Len(s)
  PROVE  /\ SubSeq(s, 1, n) \in Seq(S) /\ Len(SubSeq(s, 1, n)) = n
         /\ \A i \in 1 .. n : SubSeq(s, 1, n)[i] = s[i]
  OBVIOUS

(* The stack without its top. *)
LEMMA FrontFacts ==
  ASSUME NEW S, NEW s \in Seq(S), s # <<>>
  PROVE  /\ Front(s) \in Seq(S) /\ Len(Front(s)) = Len(s) - 1
         /\ \A i \in 1 .. Len(s) - 1 : Front(s)[i] = s[i]
         /\ Len(s) \in Nat \ {0} /\ Last(s) = s[Len(s)] /\ Last(s) \in S
<1>1. Len(s) \in Nat \ {0}
  OBVIOUS
<1>2. /\ SubSeq(s, 1, Len(s) - 1) \in Seq(S) /\ Len(SubSeq(s, 1, Len(s) - 1)) = Len(s) - 1
      /\ \A i \in 1 .. Len(s) - 1 : SubSeq(s, 1, Len(s) - 1)[i] = s[i]
  <2> DEFINE n == Len(s) - 1
  <2>1. n \in Nat /\ n <= Len(s)
    BY <1>1
  <2> HIDE DEF n
  <2>2. /\ SubSeq(s, 1, n) \in Seq(S) /\ Len(SubSeq(s, 1, n)) = n
        /\ \A i \in 1 .. n : SubSeq(s, 1, n)[i] = s[i]
    BY <2>1, PrefixFacts
  <2> QED
    BY <2>2 DEF n
<1>3. s[Len(s)] \in S
  BY <1>1
<1> QED
  BY <1>1, <1>2, <1>3 DEF Front, Last

(* A further entry. *)
LEMMA AppendFacts ==
  ASSUME NEW S, NEW s \in Seq(S), NEW e \in S
  PROVE  /\ Append(s, e) \in Seq(S) /\ Len(Append(s, e)) = Len(s) + 1
         /\ \A i \in 1 .. Len(s) : Append(s, e)[i] = s[i]
         /\ Append(s, e)[Len(s) + 1] = e
         /\ Len(s) \in Nat
  OBVIOUS

(* The rules appear once, and are those of given profiles. *)
Lists(s, set) ==
  /\ \A i, j \in DOMAIN s : s[i] = s[j] => i = j
  /\ {s[i] : i \in DOMAIN s} = set

(* Rules of a profile not yet among them are listed once as well. *)
LEMMA ListsOneMore ==
  ASSUME NEW s \in Seq(Names), NEW set, NEW p \in Names, Lists(s, set), p \notin set
  PROVE  Lists(Append(s, p), set \cup {p})
<1> DEFINE t == Append(s, p)
<1>1. /\ t \in Seq(Names) /\ Len(t) = Len(s) + 1 /\ Len(s) \in Nat
      /\ \A i \in 1 .. Len(s) : t[i] = s[i]
      /\ t[Len(s) + 1] = p
  BY AppendFacts
<1>2. DOMAIN s = 1 .. Len(s) /\ DOMAIN t = 1 .. Len(s) + 1
  BY <1>1
<1> HIDE DEF t
<1>3. ASSUME NEW i \in DOMAIN t, NEW j \in DOMAIN t, t[i] = t[j] PROVE i = j
  BY <1>1, <1>2, <1>3 DEF Lists
<1>4. {t[i] : i \in DOMAIN t} = set \cup {p}
  <2>1. ASSUME NEW i \in DOMAIN t PROVE t[i] \in set \cup {p}
    BY <1>1, <1>2 DEF Lists
  <2>2. ASSUME NEW q \in set \cup {p} PROVE \E i \in DOMAIN t : t[i] = q
    BY <1>1, <1>2, <2>2 DEF Lists
  <2> QED
    BY <2>1, <2>2
<1> QED
  BY <1>3, <1>4 DEF Lists, t

(* What stays of listed rules is listed. *)
LEMMA ListsPrefix ==
  ASSUME NEW s \in Seq(Names), NEW set, NEW n \in Nat, n <= Len(s), Lists(s, set)
  PROVE  Lists(SubSeq(s, 1, n), {s[i] : i \in 1 .. n})
<1> DEFINE t == SubSeq(s, 1, n)
<1>1. t \in Seq(Names) /\ Len(t) = n /\ \A i \in 1 .. n : t[i] = s[i]
  BY PrefixFacts
<1>2. DOMAIN s = 1 .. Len(s) /\ DOMAIN t = 1 .. n
  BY <1>1
<1> HIDE DEF t
<1>3. \A i, j \in DOMAIN t : t[i] = t[j] => i = j
  BY <1>1, <1>2 DEF Lists
<1>4. {t[i] : i \in DOMAIN t} = {s[i] : i \in 1 .. n}
  BY <1>1, <1>2
<1> QED
  BY <1>3, <1>4 DEF Lists, t

-----------------------------------------------------------------------------
(* ResolverInv is inductive. *)

Frame == [name : Registered, next : Nat \ {0}]

(* The rules of a store that satisfies the invariant. *)
LEMMA InvLists ==
  ASSUME ResolverInv
  PROVE  /\ Lists(rules, loaded \cup Resolving) /\ rules \in Seq(Names)
         /\ resolving \in Seq(Frame)
         /\ Len(rules) \in Nat /\ Len(resolving) \in Nat
         /\ DOMAIN rules = 1 .. Len(rules) /\ DOMAIN resolving = 1 .. Len(resolving)
BY DEF ResolverInv, ResolutionTypeOK, RulesAppearOnce, Lists, Frame

(* What the guards of a step in the middle of a walk say of its top. *)
LEMMA TopFacts ==
  ASSUME ResolverInv, Walking
  PROVE  /\ Len(resolving) \in Nat \ {0}
         /\ Top = resolving[Len(resolving)] /\ Top \in Frame
         /\ Top.name \in Resolving
         /\ Top.next <= Len(inherits[Top.name]) + 1
         /\ inherits[Top.name] \in Seq(Names)
         /\ \A k \in 1 .. Top.next - 1 : inherits[Top.name][k] \in loaded
         /\ ~ AtEnd => Top.next \in DOMAIN inherits[Top.name]
<1>1. resolving \in Seq(Frame) /\ resolving # <<>>
  BY InvLists DEF Walking
<1>2. Len(resolving) \in Nat \ {0} /\ Top = resolving[Len(resolving)] /\ Top \in Frame
  BY <1>1, FrontFacts DEF Top
<1>3. Len(resolving) \in DOMAIN resolving
  BY <1>2, InvLists
<1>4. Top.name \in Resolving
  BY <1>2, <1>3 DEF Resolving
<1>5. inherits[Top.name] \in Seq(Names)
  BY <1>2 DEF Frame, ResolverInv, ResolutionTypeOK
<1>6. /\ Top.next <= Len(inherits[Top.name]) + 1
      /\ \A k \in 1 .. Top.next - 1 : inherits[Top.name][k] \in loaded
  BY <1>2, <1>3 DEF ResolverInv, StackIsAPath
<1>7. ~ AtEnd => Top.next \in DOMAIN inherits[Top.name]
  BY <1>2, <1>5 DEF AtEnd, Frame
<1> QED
  BY <1>2, <1>4, <1>5, <1>6, <1>7

(* The stack after the next parent of its top is taken. *)
LEMMA TakeParentFacts ==
  ASSUME ResolverInv, Walking
  PROVE  /\ TakeParent \in Seq(Frame) /\ Len(TakeParent) = Len(resolving)
         /\ \A i \in 1 .. Len(resolving) : TakeParent[i].name = resolving[i].name
         /\ \A i \in 1 .. Len(resolving) - 1 : TakeParent[i] = resolving[i]
         /\ TakeParent[Len(resolving)].next = Top.next + 1
<1>1. resolving \in Seq(Frame) /\ DOMAIN resolving = 1 .. Len(resolving)
  BY InvLists
<1>2. Len(resolving) \in Nat \ {0} /\ Top = resolving[Len(resolving)] /\ Top \in Frame
  BY TopFacts
<1>3. TakeParent = [resolving EXCEPT ![Len(resolving)] = [Top EXCEPT !.next = Top.next + 1]]
  BY <1>1, <1>2 DEF TakeParent
<1>4. [Top EXCEPT !.next = Top.next + 1] \in Frame
  BY <1>2 DEF Frame
<1>5. TakeParent \in Seq(Frame) /\ Len(TakeParent) = Len(resolving)
  BY <1>1, <1>2, <1>3, <1>4
<1>6. \A i \in 1 .. Len(resolving) - 1 : TakeParent[i] = resolving[i]
  BY <1>1, <1>2, <1>3
<1>7. TakeParent[Len(resolving)] = [Top EXCEPT !.next = Top.next + 1]
  BY <1>1, <1>2, <1>3
<1>8. /\ [Top EXCEPT !.next = Top.next + 1].name = Top.name
      /\ [Top EXCEPT !.next = Top.next + 1].next = Top.next + 1
  BY <1>2 DEF Frame
<1>9. \A i \in 1 .. Len(resolving) : TakeParent[i].name = resolving[i].name
  <2> TAKE i \in 1 .. Len(resolving)
  <2>1. CASE i = Len(resolving)
    BY <1>2, <1>7, <1>8, <2>1
  <2>2. CASE i # Len(resolving)
    BY <1>2, <1>6, <2>2
  <2> QED
    BY <2>1, <2>2
<1> QED
  BY <1>5, <1>6, <1>7, <1>8, <1>9

(* A walk begins with the rules of its profile. *)
LEMMA StartKeeps == ASSUME ResolverInv, StartProfile PROVE ResolverInv'
<1> USE DEF Idle
<1>1. /\ Call \in Registered /\ Call \notin loaded /\ Call \in Names
      /\ resolving = <<>> /\ wanted' = wanted /\ wanted # <<>>
      /\ before' = [ruleStart |-> Len(rules), loaded |-> loaded]
      /\ rules' = Append(rules, Call)
      /\ resolving' = <<[name |-> Call, next |-> 1]>>
      /\ loaded' = loaded /\ inherits' = inherits /\ caller' = caller
  BY DEF StartProfile, ResolverInv, ResolutionTypeOK
<1>2. Resolving = {} /\ Resolving' = {Call} /\ Registered' = Registered
  BY <1>1 DEF Resolving, Registered
<1>3. Lists(rules, loaded) /\ rules \in Seq(Names)
  BY <1>2, InvLists
<1>4. /\ rules' \in Seq(Names) /\ Len(rules) \in Nat /\ Len(rules') = Len(rules) + 1
      /\ \A i \in 1 .. Len(rules) : rules'[i] = rules[i]
  BY <1>1, <1>3, AppendFacts
<1>5. ResolutionTypeOK'
  BY <1>1, <1>2, <1>4 DEF ResolverInv, ResolutionTypeOK
<1>6. StackHasNoRepeats'
  BY <1>1, <1>2 DEF StackHasNoRepeats, Walking
<1>7. RulesAppearOnce'
  <2>1. Lists(rules', loaded \cup {Call})
    BY <1>1, <1>3, ListsOneMore
  <2> QED
    BY <1>1, <1>2, <2>1 DEF RulesAppearOnce, Lists
<1>8. RollBackIsExact'
  <2>1. {rules'[i] : i \in 1 .. Len(rules)} = {rules[i] : i \in DOMAIN rules}
    BY <1>3, <1>4
  <2> QED
    BY <1>1, <1>3, <1>4, <2>1 DEF RollBackIsExact, Lists
<1>9. StackIsAPath'
  BY <1>1, <1>2 DEF StackIsAPath, ResolverInv, ResolutionTypeOK
<1>10. LoadedIsWhole(loaded)' /\ LoadedIsWhole(before.loaded)'
  BY <1>1 DEF LoadedIsWhole, ResolverInv
<1> QED
  BY <1>5, <1>6, <1>7, <1>8, <1>9, <1>10 DEF ResolverInv

(* A parent that is loaded is passed over. *)
LEMMA SkipKeeps == ASSUME ResolverInv, SkipParent PROVE ResolverInv'
<1>1. /\ Walking /\ ~ AtEnd /\ Parent \in loaded /\ resolving' = TakeParent
      /\ wanted' = wanted /\ rules' = rules /\ loaded' = loaded /\ before' = before
      /\ inherits' = inherits /\ caller' = caller
  BY DEF SkipParent, Skipped
<1>2. /\ resolving' \in Seq(Frame) /\ Len(resolving') = Len(resolving)
      /\ Len(resolving) \in Nat \ {0}
      /\ DOMAIN resolving = 1 .. Len(resolving) /\ DOMAIN resolving' = DOMAIN resolving
      /\ \A i \in DOMAIN resolving : resolving'[i].name = resolving[i].name
      /\ \A i \in 1 .. Len(resolving) - 1 : resolving'[i] = resolving[i]
      /\ resolving'[Len(resolving)].next = Top.next + 1
      /\ resolving'[Len(resolving)].name = Top.name
  BY <1>1, TakeParentFacts, TopFacts, InvLists
<1>3. Resolving' = Resolving /\ Registered' = Registered /\ resolving' # <<>>
  BY <1>1, <1>2 DEF Resolving, Registered
<1>4. ResolutionTypeOK'
  BY <1>1, <1>2, <1>3 DEF ResolverInv, ResolutionTypeOK, Frame
<1>5. StackHasNoRepeats'
  BY <1>1, <1>2, <1>3 DEF ResolverInv, StackHasNoRepeats
<1>6. RulesAppearOnce' /\ RollBackIsExact'
  BY <1>1, <1>3 DEF ResolverInv, RulesAppearOnce, RollBackIsExact, Walking
<1>7. StackIsAPath'
  <2>0. inherits' = inherits /\ loaded' = loaded
    BY <1>1
  <2> SUFFICES ASSUME NEW i \in DOMAIN resolving'
               PROVE  /\ resolving'[i].next <= Len(inherits[resolving'[i].name]) + 1
                      /\ \A k \in 1 .. resolving'[i].next - 1 :
                           \/ inherits[resolving'[i].name][k] \in loaded
                           \/ /\ i < Len(resolving') /\ k = resolving'[i].next - 1
                              /\ resolving'[i + 1].name = inherits[resolving'[i].name][k]
    BY <2>0 DEF StackIsAPath
  <2> i \in DOMAIN resolving
    BY <1>2
  <2>1. CASE i = Len(resolving)
    <3>1. /\ Top.next \in DOMAIN inherits[Top.name] /\ inherits[Top.name] \in Seq(Names)
          /\ Top \in Frame /\ \A k \in 1 .. Top.next - 1 : inherits[Top.name][k] \in loaded
      BY <1>1, TopFacts
    <3>2. inherits[Top.name][Top.next] \in loaded
      BY <1>1 DEF Parent
    <3> QED
      BY <1>2, <2>1, <3>1, <3>2 DEF Frame
  <2>2. CASE i # Len(resolving)
    <3>1. /\ resolving'[i] = resolving[i] /\ i + 1 \in DOMAIN resolving
          /\ resolving'[i + 1].name = resolving[i + 1].name
      BY <1>2, <2>2
    <3> QED
      BY <1>2, <3>1 DEF ResolverInv, StackIsAPath
  <2> QED
    BY <2>1, <2>2
<1>8. LoadedIsWhole(loaded)' /\ (Walking => LoadedIsWhole(before.loaded))'
  BY <1>1 DEF LoadedIsWhole, ResolverInv
<1> QED
  BY <1>4, <1>5, <1>6, <1>7, <1>8 DEF ResolverInv

(* A parent that is neither loaded nor on the stack is entered. *)
LEMMA EnterKeeps == ASSUME ResolverInv, EnterParent PROVE ResolverInv'
<1> DEFINE entered == [name |-> Parent, next |-> 1]
<1>1. /\ Walking /\ ~ AtEnd /\ Parent \in Registered /\ Parent \notin loaded
      /\ Parent \notin Resolving /\ Parent \in Names
      /\ resolving' = Append(TakeParent, entered) /\ rules' = Append(rules, Parent)
      /\ wanted' = wanted /\ loaded' = loaded /\ before' = before
      /\ inherits' = inherits /\ caller' = caller
  BY DEF EnterParent, Skipped, ResolverInv, ResolutionTypeOK
<1>2. /\ TakeParent \in Seq(Frame) /\ Len(TakeParent) = Len(resolving)
      /\ Len(resolving) \in Nat \ {0} /\ DOMAIN resolving = 1 .. Len(resolving)
      /\ \A i \in 1 .. Len(resolving) : TakeParent[i].name = resolving[i].name
      /\ \A i \in 1 .. Len(resolving) - 1 : TakeParent[i] = resolving[i]
      /\ TakeParent[Len(resolving)].next = Top.next + 1
  BY <1>1, TakeParentFacts, TopFacts, InvLists
<1>3. entered \in Frame
  BY <1>1 DEF Frame
<1>4. /\ resolving' \in Seq(Frame) /\ Len(resolving') = Len(resolving) + 1
      /\ DOMAIN resolving' = 1 .. Len(resolving) + 1
      /\ \A i \in 1 .. Len(resolving) : resolving'[i] = TakeParent[i]
      /\ resolving'[Len(resolving) + 1] = entered
  <2> HIDE DEF entered
  <2>1. /\ resolving' \in Seq(Frame) /\ Len(resolving') = Len(TakeParent) + 1
        /\ \A i \in 1 .. Len(TakeParent) : resolving'[i] = TakeParent[i]
        /\ resolving'[Len(TakeParent) + 1] = entered
    BY <1>1, <1>2, <1>3, AppendFacts
  <2> QED
    BY <1>2, <2>1
<1>5. \A i \in 1 .. Len(resolving) : resolving'[i].name = resolving[i].name
  BY <1>2, <1>4
<1>6. resolving'[Len(resolving) + 1].name = Parent /\ resolving'[Len(resolving) + 1].next = 1
  BY <1>4
<1> HIDE DEF entered
<1>7. Resolving' = Resolving \cup {Parent}
  <2>1. ASSUME NEW i \in DOMAIN resolving' PROVE resolving'[i].name \in Resolving \cup {Parent}
    <3>1. i \in 1 .. Len(resolving) \/ i = Len(resolving) + 1
      BY <1>2, <1>4
    <3> QED
      BY <1>2, <1>5, <1>6, <3>1 DEF Resolving
  <2>2. ASSUME NEW i \in DOMAIN resolving PROVE \E j \in DOMAIN resolving' : resolving'[j].name = resolving[i].name
    BY <1>2, <1>4, <1>5
  <2>3. Len(resolving) + 1 \in DOMAIN resolving'
    BY <1>2, <1>4
  <2> QED
    BY <1>6, <2>1, <2>2, <2>3 DEF Resolving
<1>8. Lists(rules', (loaded \cup Resolving) \cup {Parent})
  BY <1>1, InvLists, ListsOneMore
<1>9. /\ rules' \in Seq(Names) /\ Len(rules) \in Nat /\ Len(rules') = Len(rules) + 1
      /\ \A i \in 1 .. Len(rules) : rules'[i] = rules[i]
  BY <1>1, InvLists, AppendFacts
<1>10. ResolutionTypeOK'
  BY <1>1, <1>4, <1>9 DEF ResolverInv, ResolutionTypeOK, Frame, Registered
<1>11. StackHasNoRepeats'
  <2>1. \A i \in 1 .. Len(resolving) : resolving[i].name # Parent
    BY <1>1, <1>2 DEF Resolving
  <2>2. ASSUME NEW i \in DOMAIN resolving', NEW j \in DOMAIN resolving',
               resolving'[i].name = resolving'[j].name
        PROVE  i = j
    <3>1. (i \in 1 .. Len(resolving) \/ i = Len(resolving) + 1)
          /\ (j \in 1 .. Len(resolving) \/ j = Len(resolving) + 1)
      BY <1>2, <1>4
    <3> QED
      BY <1>2, <1>5, <1>6, <2>1, <2>2, <3>1 DEF ResolverInv, StackHasNoRepeats
  <2> QED
    BY <1>1, <1>7, <2>2 DEF StackHasNoRepeats, ResolverInv
<1>12. RulesAppearOnce'
  BY <1>1, <1>7, <1>8 DEF RulesAppearOnce, Lists
<1>13. RollBackIsExact'
  <2>1. /\ before.ruleStart <= Len(rules) /\ before.ruleStart \in Nat
        /\ {rules[i] : i \in 1 .. before.ruleStart} = before.loaded
    BY <1>1 DEF ResolverInv, RollBackIsExact, ResolutionTypeOK
  <2>2. \A i \in 1 .. before.ruleStart : rules'[i] = rules[i]
    BY <1>9, <2>1
  <2> QED
    BY <1>1, <1>9, <2>1, <2>2 DEF RollBackIsExact
<1>14. StackIsAPath'
  <2> SUFFICES ASSUME NEW i \in DOMAIN resolving'
               PROVE  /\ resolving'[i].next <= Len(inherits[resolving'[i].name]) + 1
                      /\ \A k \in 1 .. resolving'[i].next - 1 :
                           \/ inherits[resolving'[i].name][k] \in loaded
                           \/ /\ i < Len(resolving') /\ k = resolving'[i].next - 1
                              /\ resolving'[i + 1].name = inherits[resolving'[i].name][k]
    BY <1>1 DEF StackIsAPath
  <2>1. CASE i = Len(resolving) + 1
    <3>1. inherits[Parent] \in Seq(Names)
      BY <1>1 DEF ResolverInv, ResolutionTypeOK
    <3> QED
      BY <1>6, <2>1, <3>1
  <2>2. CASE i = Len(resolving)
    <3>1. /\ Top.next \in DOMAIN inherits[Top.name] /\ inherits[Top.name] \in Seq(Names)
          /\ Top \in Frame /\ \A k \in 1 .. Top.next - 1 : inherits[Top.name][k] \in loaded
          /\ Top = resolving[Len(resolving)]
      BY <1>1, TopFacts
    <3>2. inherits[Top.name][Top.next] = resolving'[Len(resolving) + 1].name
      BY <1>6 DEF Parent
    <3>3. resolving'[i].next = Top.next + 1 /\ resolving'[i].name = Top.name
      BY <1>2, <1>4, <2>2, <3>1
    <3>4. i < Len(resolving') /\ Top.next \in Nat /\ Len(inherits[Top.name]) \in Nat
      BY <1>2, <1>4, <2>2, <3>1 DEF Frame
    <3>5. resolving'[i].next <= Len(inherits[resolving'[i].name]) + 1
      BY <3>1, <3>3, <3>4
    <3>6. ASSUME NEW k \in 1 .. Top.next
          PROVE  \/ inherits[Top.name][k] \in loaded
                 \/ k = Top.next /\ resolving'[i + 1].name = inherits[Top.name][k]
      BY <2>2, <3>1, <3>2, <3>4
    <3>7. resolving'[i].next - 1 = Top.next
      BY <3>3, <3>4
    <3> QED
      BY <3>3, <3>4, <3>5, <3>6, <3>7
  <2>3. CASE i \in 1 .. Len(resolving) - 1
    <3>1. /\ resolving'[i] = resolving[i] /\ i \in DOMAIN resolving
          /\ resolving'[i + 1].name = resolving[i + 1].name
      BY <1>2, <1>4, <1>5, <2>3
    <3> QED
      BY <1>2, <1>4, <2>3, <3>1 DEF ResolverInv, StackIsAPath
  <2> QED
    BY <1>2, <1>4, <2>1, <2>2, <2>3
<1>15. LoadedIsWhole(loaded)' /\ (Walking => LoadedIsWhole(before.loaded))'
  BY <1>1 DEF LoadedIsWhole, ResolverInv
<1> QED
  BY <1>10, <1>11, <1>12, <1>13, <1>14, <1>15 DEF ResolverInv

(* The top that has no parent left is loaded. *)
LEMMA FinishKeeps == ASSUME ResolverInv, FinishProfile PROVE ResolverInv'
<1>1. /\ Walking /\ AtEnd /\ loaded' = loaded \cup {Top.name} /\ resolving' = Front(resolving)
      /\ wanted' = (IF Len(resolving) = 1 THEN Tail(wanted) ELSE wanted)
      /\ rules' = rules /\ before' = before /\ inherits' = inherits /\ caller' = caller
  BY DEF FinishProfile
<1>2. /\ Len(resolving) \in Nat \ {0} /\ Top = resolving[Len(resolving)] /\ Top \in Frame
      /\ Top.name \in Resolving /\ inherits[Top.name] \in Seq(Names)
      /\ Top.next <= Len(inherits[Top.name]) + 1
      /\ \A k \in 1 .. Top.next - 1 : inherits[Top.name][k] \in loaded
  BY <1>1, TopFacts
<1>3. resolving \in Seq(Frame) /\ DOMAIN resolving = 1 .. Len(resolving)
  BY InvLists
<1>4. /\ resolving' \in Seq(Frame) /\ Len(resolving') = Len(resolving) - 1
      /\ DOMAIN resolving' = 1 .. Len(resolving) - 1
      /\ \A i \in 1 .. Len(resolving) - 1 : resolving'[i] = resolving[i]
  <2>1. /\ resolving' \in Seq(Frame) /\ Len(resolving') = Len(resolving) - 1
        /\ \A i \in 1 .. Len(resolving) - 1 : resolving'[i] = resolving[i]
    BY <1>1, <1>3, FrontFacts DEF Walking
  <2> QED
    BY <2>1
<1>5. \A i, j \in DOMAIN resolving : resolving[i].name = resolving[j].name => i = j
  BY DEF ResolverInv, StackHasNoRepeats
<1>6. Resolving' = Resolving \ {Top.name}
  <2>1. ASSUME NEW i \in DOMAIN resolving' PROVE resolving'[i].name \in Resolving \ {Top.name}
    <3>1. i \in DOMAIN resolving /\ i # Len(resolving) /\ Len(resolving) \in DOMAIN resolving
      BY <1>2, <1>3, <1>4
    <3> QED
      BY <1>2, <1>4, <1>5, <3>1 DEF Resolving
  <2>2. ASSUME NEW i \in DOMAIN resolving, resolving[i].name # Top.name
        PROVE  \E j \in DOMAIN resolving' : resolving'[j].name = resolving[i].name
    <3>1. i \in 1 .. Len(resolving) - 1
      BY <1>2, <1>3, <2>2
    <3> QED
      BY <1>4, <3>1
  <2> QED
    BY <2>1, <2>2 DEF Resolving
<1>7. ResolutionTypeOK'
  <2>1. loaded' \subseteq Registered
    BY <1>1, <1>2 DEF ResolverInv, ResolutionTypeOK, Frame
  <2> QED
    BY <1>1, <1>4, <2>1 DEF ResolverInv, ResolutionTypeOK, Frame, Registered
<1>8. StackHasNoRepeats'
  <2>1. (Walking => wanted # <<>>)'
    <3>1. CASE Len(resolving) = 1
      BY <1>4, <3>1 DEF Walking
    <3>2. CASE Len(resolving) # 1
      BY <1>1, <3>2 DEF ResolverInv, StackHasNoRepeats, Walking
    <3> QED
      BY <3>1, <3>2
  <2>2. \A i, j \in DOMAIN resolving' : resolving'[i].name = resolving'[j].name => i = j
    BY <1>2, <1>3, <1>4, <1>5
  <2>3. Resolving' \cap loaded' = {}
    BY <1>1, <1>6 DEF ResolverInv, StackHasNoRepeats
  <2> QED
    BY <2>1, <2>2, <2>3 DEF StackHasNoRepeats
<1>9. RulesAppearOnce'
  <2>1. loaded' \cup Resolving' = loaded \cup Resolving
    BY <1>1, <1>2, <1>6
  <2> QED
    BY <1>1, <2>1 DEF ResolverInv, RulesAppearOnce
<1>10. RollBackIsExact'
  BY <1>1 DEF ResolverInv, RollBackIsExact, Walking
<1>11. StackIsAPath'
  <2> SUFFICES ASSUME NEW i \in DOMAIN resolving'
               PROVE  /\ resolving'[i].next <= Len(inherits[resolving'[i].name]) + 1
                      /\ \A k \in 1 .. resolving'[i].next - 1 :
                           \/ inherits[resolving'[i].name][k] \in loaded'
                           \/ /\ i < Len(resolving') /\ k = resolving'[i].next - 1
                              /\ resolving'[i + 1].name = inherits[resolving'[i].name][k]
    BY <1>1 DEF StackIsAPath
  <2>1. resolving'[i] = resolving[i] /\ i \in DOMAIN resolving /\ i \in 1 .. Len(resolving) - 1
    BY <1>2, <1>3, <1>4
  <2>2. /\ resolving[i].next <= Len(inherits[resolving[i].name]) + 1
        /\ \A k \in 1 .. resolving[i].next - 1 :
             \/ inherits[resolving[i].name][k] \in loaded
             \/ /\ i < Len(resolving) /\ k = resolving[i].next - 1
                /\ resolving[i + 1].name = inherits[resolving[i].name][k]
    BY <2>1 DEF ResolverInv, StackIsAPath
  <2>3. CASE i = Len(resolving) - 1
    <3>1. resolving[i + 1].name \in loaded'
      BY <1>1, <1>2, <2>3
    <3> QED
      BY <1>1, <2>1, <2>2, <3>1
  <2>4. CASE i # Len(resolving) - 1
    <3>1. i < Len(resolving') /\ resolving'[i + 1] = resolving[i + 1]
      BY <1>2, <1>4, <2>1, <2>4
    <3> QED
      BY <1>1, <2>1, <2>2, <3>1
  <2> QED
    BY <2>3, <2>4
<1>12. LoadedIsWhole(loaded)'
  <2>1. \A k \in DOMAIN inherits[Top.name] : inherits[Top.name][k] \in loaded
    <3>1. Top.next = Len(inherits[Top.name]) + 1
      BY <1>1, <1>2 DEF AtEnd, Frame
    <3>2. DOMAIN inherits[Top.name] = 1 .. Top.next - 1
      BY <1>2, <3>1
    <3> QED
      BY <1>2, <3>2
  <2> QED
    BY <1>1, <2>1 DEF ResolverInv, LoadedIsWhole
<1>13. (Walking => LoadedIsWhole(before.loaded))'
  BY <1>1 DEF ResolverInv, LoadedIsWhole, Walking
<1> QED
  BY <1>7, <1>8, <1>9, <1>10, <1>11, <1>12, <1>13 DEF ResolverInv

(* A cycle or a parent nobody registered takes the call back. *)
LEMMA AbandonKeeps == ASSUME ResolverInv, AbandonProfile PROVE ResolverInv'
<1>1. /\ Walking /\ rules' = SubSeq(rules, 1, before.ruleStart) /\ loaded' = before.loaded
      /\ resolving' = <<>> /\ before' = before /\ inherits' = inherits /\ caller' = caller
  BY DEF AbandonProfile, RollBack
<1>2. /\ before.ruleStart \in Nat /\ before.ruleStart <= Len(rules)
      /\ {rules[i] : i \in 1 .. before.ruleStart} = before.loaded
      /\ LoadedIsWhole(before.loaded) /\ before.loaded \subseteq loaded
  BY <1>1 DEF ResolverInv, ResolutionTypeOK, RollBackIsExact
<1>3. Resolving' = {} /\ Registered' = Registered
  BY <1>1 DEF Resolving, Registered
<1>4. Lists(rules', before.loaded) /\ rules' \in Seq(Names)
  <2>1. Lists(rules, loaded \cup Resolving) /\ rules \in Seq(Names)
    BY InvLists
  <2>2. Lists(SubSeq(rules, 1, before.ruleStart), {rules[i] : i \in 1 .. before.ruleStart})
    BY <1>2, <2>1, ListsPrefix
  <2>3. SubSeq(rules, 1, before.ruleStart) \in Seq(Names)
    BY <1>2, <2>1, PrefixFacts
  <2> QED
    BY <1>1, <1>2, <2>2, <2>3
<1>5. ResolutionTypeOK'
  BY <1>1, <1>2, <1>3, <1>4 DEF ResolverInv, ResolutionTypeOK
<1>6. StackHasNoRepeats' /\ RollBackIsExact' /\ StackIsAPath'
  BY <1>1, <1>3 DEF StackHasNoRepeats, RollBackIsExact, StackIsAPath, Walking
<1>7. RulesAppearOnce'
  BY <1>1, <1>3, <1>4 DEF RulesAppearOnce, Lists
<1>8. LoadedIsWhole(loaded)' /\ (Walking => LoadedIsWhole(before.loaded))'
  BY <1>1, <1>2 DEF LoadedIsWhole
<1> QED
  BY <1>5, <1>6, <1>7, <1>8 DEF ResolverInv

(* The steps that only take the next call. *)
LEMMA CallKeeps ==
  ASSUME ResolverInv, SkipLoaded \/ UnknownProfile \/ UNCHANGED resolutionVars
  PROVE  ResolverInv'
<1>1. /\ inherits' = inherits /\ caller' = caller /\ rules' = rules /\ loaded' = loaded
      /\ resolving' = resolving /\ before' = before
      /\ resolving # <<>> => wanted' = wanted
  BY DEF SkipLoaded, UnknownProfile, Idle, resolutionVars, walkVars
<1>2. Registered' = Registered /\ Resolving' = Resolving
  BY <1>1 DEF Registered, Resolving
<1>3. ResolutionTypeOK' /\ StackHasNoRepeats'
  BY <1>1, <1>2 DEF ResolverInv, ResolutionTypeOK, StackHasNoRepeats, Walking
<1>4. RulesAppearOnce' /\ RollBackIsExact' /\ StackIsAPath'
  BY <1>1, <1>2 DEF ResolverInv, RulesAppearOnce, RollBackIsExact, StackIsAPath, Walking
<1>5. LoadedIsWhole(loaded)' /\ (Walking => LoadedIsWhole(before.loaded))'
  BY <1>1 DEF ResolverInv, LoadedIsWhole, Walking
<1> QED
  BY <1>3, <1>4, <1>5 DEF ResolverInv

LEMMA ResolutionInitInv == ResolutionInit => ResolverInv
<1> SUFFICES ASSUME ResolutionInit PROVE ResolverInv
  OBVIOUS
<1>1. /\ rules = <<>> /\ loaded = {} /\ resolving = <<>>
      /\ before = [ruleStart |-> 0, loaded |-> {}] /\ caller \in {"config", "library"}
  BY DEF ResolutionInit, NothingResolved
<1>2. PICK known \in SUBSET Names : inherits \in [known -> Seq(Names)]
  BY DEF ResolutionInit
<1>3. Resolving = {} /\ Registered = known
  BY <1>1, <1>2 DEF Resolving, Registered
<1> QED
  BY <1>1, <1>2, <1>3
  DEF ResolverInv, ResolutionTypeOK, StackHasNoRepeats, RulesAppearOnce, RollBackIsExact,
      StackIsAPath, LoadedIsWhole, Walking

LEMMA ResolutionStepInv == ResolverInv /\ [ResolveStep]_resolutionVars => ResolverInv'
BY StartKeeps, SkipKeeps, EnterKeeps, FinishKeeps, AbandonKeeps, CallKeeps DEF ResolveStep

-----------------------------------------------------------------------------
(* The resolver's stack never holds a profile twice, so it is no deeper than *)
(* the store is large, and a rollback takes back exactly the failed call     *)
(* (profiles.rs:893-962).                                                     *)
THEOREM ResolverSafety == ResolutionSpec => []ResolverInv
<1> QED
  BY ResolutionInitInv, ResolutionStepInv, PTL DEF ResolutionSpec

(* Whenever a caller looks, each profile's rules are there once and with      *)
(* those of everything it inherits, whatever calls failed (profiles.rs:893).  *)
THEOREM ResolutionIsWhole == ResolutionSpec => []ResolvedIsWhole
<1>1. ResolverInv => ResolvedIsWhole
  <2> SUFFICES ASSUME ResolverInv, resolving = <<>> PROVE ResolvedIsWhole
    BY DEF ResolvedIsWhole
  <2>1. Resolving = {}
    BY DEF Resolving
  <2>2. {rules[i] : i \in DOMAIN rules} = loaded
    BY <2>1 DEF ResolverInv, RulesAppearOnce
  <2> QED
    BY <2>2 DEF ResolverInv, RulesAppearOnce, ResolvedIsWhole
<1> QED
  BY <1>1, ResolverSafety, PTL

-----------------------------------------------------------------------------
(* Sums of numbers. *)

(* A set of numbers that is not empty has a least one. *)
LEMMA LeastNatural ==
  ASSUME NEW T \in SUBSET Nat, T # {}
  PROVE  \E n \in T : \A m \in T : n <= m
<1> DEFINE Less == {ss \in Nat \X Nat : ss[1] < ss[2]}
<1>1. IsWellFoundedOn(Less, Nat)
  BY NatLessThanWellFounded, Zenon DEF OpToRel
<1>4. ASSUME NEW a \in Nat, NEW b \in Nat, <<a, b>> \notin Less PROVE b <= a
  BY <1>4
<1> HIDE DEF Less
<1>2. PICK n \in T : \A m \in T : <<m, n>> \notin Less
  BY <1>1, WFMin
<1>3. \A m \in T : n <= m
  BY <1>2, <1>4
<1> QED
  BY <1>3

(* What holds at 0 and is passed on holds up to n. *)
LEMMA CountingUp ==
  ASSUME NEW n \in Nat, NEW S, 0 \in S, \A i \in 0 .. n : i < n /\ i \in S => i + 1 \in S
  PROVE  0 .. n \subseteq S
<1> DEFINE T == (0 .. n) \ S
<1>1. SUFFICES ASSUME T # {} PROVE FALSE
  OBVIOUS
<1>2. T \in SUBSET Nat
  OBVIOUS
<1>3. PICK m \in T : \A k \in T : m <= k
  BY <1>1, <1>2, LeastNatural
<1>4. m \in 0 .. n /\ m # 0
  BY <1>3
<1>5. m - 1 \in 0 .. n /\ m - 1 < n /\ m = (m - 1) + 1 /\ ~(m <= m - 1)
  BY <1>4
<1>6. m - 1 \in S
  BY <1>3, <1>5
<1> QED
  BY <1>3, <1>5, <1>6

(* The recursive function is what its definition says. *)
LEMMA SumsDefined ==
  ASSUME NEW list \in Seq(Nat)
  PROVE  \A n \in 0 .. Len(list) :
           SumsOf(list)[n] = IF n = 0 THEN 0 ELSE SumsOf(list)[n - 1] + list[n]
<1> DEFINE N == Len(list)
           Value(f, n) == IF n = 0 THEN 0 ELSE f[n - 1] + list[n]
           Solves(f, n) == f = [i \in 0 .. n |-> Value(f, i)]
           S == {n \in 0 .. N : \E f : Solves(f, n)}
<1>1. 0 \in S
  <2>1. Solves([i \in 0 .. 0 |-> 0], 0)
    OBVIOUS
  <2> HIDE DEF Solves
  <2> QED
    BY <2>1
<1>2. ASSUME NEW n \in 0 .. N, n < N, n \in S PROVE n + 1 \in S
  <2>1. PICK f : Solves(f, n)
    BY <1>2
  <2> DEFINE g == [i \in 0 .. (n + 1) |-> Value(f, i)]
  <2>2. ASSUME NEW i \in 0 .. (n + 1) PROVE Value(g, i) = Value(f, i)
    <3>1. CASE i = 0
      BY <3>1
    <3>2. CASE i # 0
      <4>1. i - 1 \in 0 .. n /\ i - 1 \in 0 .. (n + 1)
        BY <3>2
      <4>2. f[i - 1] = Value(f, i - 1) /\ g[i - 1] = Value(f, i - 1)
        <5> HIDE DEF Value
        <5> QED
          BY <2>1, <4>1
      <4> HIDE DEF g
      <4> QED
        BY <3>2, <4>2
    <3> QED
      BY <3>1, <3>2
  <2>3. Solves(g, n + 1)
    <3> HIDE DEF Value
    <3> QED
      BY <2>2
  <2> HIDE DEF Solves, g
  <2> QED
    BY <1>2, <2>3
<1>3. \E f : Solves(f, N)
  <2>1. N \in S
    <3>1. N \in Nat
      OBVIOUS
    <3> HIDE DEF S, N
    <3>2. 0 .. N \subseteq S
      BY <1>1, <1>2, <3>1, CountingUp
    <3> QED
      BY <3>1, <3>2
  <2> HIDE DEF Solves
  <2> QED
    BY <2>1
<1>4. SumsOf(list) = CHOOSE f : Solves(f, N)
  BY DEF SumsOf
<1>5. Solves(SumsOf(list), N)
  <2> HIDE DEF Solves
  <2> QED
    BY <1>3, <1>4
<1>6. ASSUME NEW n \in 0 .. N PROVE SumsOf(list)[n] = Value(SumsOf(list), n)
  <2> HIDE DEF Value
  <2> QED
    BY <1>5
<1> QED
  BY <1>6

(* A sum is a number, and depends on what it counts. *)
LEMMA SumsAgree ==
  ASSUME NEW s \in Seq(Nat), NEW t \in Seq(Nat), NEW n \in Nat, n <= Len(s), n <= Len(t),
         \A i \in 1 .. n : s[i] = t[i]
  PROVE  SumsOf(s)[n] \in Nat /\ SumsOf(s)[n] = SumsOf(t)[n]
<1> DEFINE S == {k \in 0 .. n : SumsOf(s)[k] \in Nat /\ SumsOf(s)[k] = SumsOf(t)[k]}
<1>1. 0 \in S
  <2>1. 0 \in 0 .. n /\ 0 \in 0 .. Len(s) /\ 0 \in 0 .. Len(t)
    OBVIOUS
  <2>2. SumsOf(s)[0] = 0 /\ SumsOf(t)[0] = 0
    BY <2>1, SumsDefined
  <2> QED
    BY <2>1, <2>2
<1>2. ASSUME NEW k \in 0 .. n, k < n, k \in S PROVE k + 1 \in S
  <2>1. /\ k + 1 \in 0 .. n /\ k + 1 \in 0 .. Len(s) /\ k + 1 \in 0 .. Len(t)
        /\ k + 1 # 0 /\ (k + 1) - 1 = k /\ k + 1 \in 1 .. n
    BY <1>2
  <2>2. SumsOf(s)[k + 1] = SumsOf(s)[k] + s[k + 1]
    <3>1. SumsOf(s)[k + 1] =
            IF k + 1 = 0 THEN 0 ELSE SumsOf(s)[(k + 1) - 1] + s[k + 1]
      BY <2>1, SumsDefined
    <3> QED
      BY <2>1, <3>1
  <2>3. SumsOf(t)[k + 1] = SumsOf(t)[k] + t[k + 1]
    <3>1. SumsOf(t)[k + 1] =
            IF k + 1 = 0 THEN 0 ELSE SumsOf(t)[(k + 1) - 1] + t[k + 1]
      BY <2>1, SumsDefined
    <3> QED
      BY <2>1, <3>1
  <2>4. s[k + 1] \in Nat /\ s[k + 1] = t[k + 1]
    BY <2>1
  <2>5. SumsOf(s)[k] \in Nat /\ SumsOf(s)[k] = SumsOf(t)[k]
    BY <1>2
  <2>6. SumsOf(s)[k + 1] \in Nat /\ SumsOf(s)[k + 1] = SumsOf(t)[k + 1]
    <3> HIDE DEF S
    <3>1. /\ SumsOf(s)[k + 1] = SumsOf(s)[k] + s[k + 1]
          /\ SumsOf(t)[k + 1] = SumsOf(s)[k] + s[k + 1]
      BY <2>2, <2>3, <2>4, <2>5
    <3> QED
      BY <2>4, <2>5, <3>1
  <2> QED
    BY <2>1, <2>6
<1>3. 0 .. n \subseteq S
  <2> HIDE DEF S
  <2> QED
    BY <1>1, <1>2, CountingUp
<1> QED
  BY <1>3

(* A sum is a number; of nothing it is 0; of two lists the sum of their sums. *)
LEMMA SumOfType == ASSUME NEW s \in Seq(Nat) PROVE SumOf(s) \in Nat
BY SumsAgree DEF SumOf

LEMMA SumOfNone == SumOf(<<>>) = 0
<1>1. <<>> \in Seq(Nat) /\ Len(<<>>) = 0 /\ 0 \in 0 .. 0
  OBVIOUS
<1>2. SumsOf(<<>>)[0] = 0
  BY <1>1, SumsDefined
<1> QED
  BY <1>1, <1>2 DEF SumOf

LEMMA SumOfConcat ==
  ASSUME NEW s \in Seq(Nat), NEW t \in Seq(Nat)
  PROVE  SumOf(s \o t) = SumOf(s) + SumOf(t)
<1> DEFINE r == s \o t
           S == {n \in 0 .. Len(t) : SumsOf(r)[Len(s) + n] = SumOf(s) + SumsOf(t)[n]}
<1>1. /\ r \in Seq(Nat) /\ Len(r) = Len(s) + Len(t) /\ Len(s) \in Nat /\ Len(t) \in Nat
      /\ \A i \in 1 .. Len(s) : r[i] = s[i]
      /\ \A i \in 1 .. Len(t) : r[Len(s) + i] = t[i]
  OBVIOUS
<1> HIDE DEF r
<1>2. 0 \in S
  <2>1. 0 \in 0 .. Len(t) /\ Len(s) <= Len(r) /\ Len(s) + 0 = Len(s)
    BY <1>1
  <2>2. SumsOf(t)[0] = 0
    BY <2>1, SumsDefined
  <2>3. SumOf(s) \in Nat /\ SumOf(s) = SumsOf(r)[Len(s)]
    <3>1. SumsOf(s)[Len(s)] \in Nat /\ SumsOf(s)[Len(s)] = SumsOf(r)[Len(s)]
      <4> DEFINE n == Len(s)
      <4>1. n \in Nat /\ n <= Len(s) /\ n <= Len(r) /\ \A i \in 1 .. n : s[i] = r[i]
        BY <1>1
      <4> HIDE DEF n
      <4>2. SumsOf(s)[n] \in Nat /\ SumsOf(s)[n] = SumsOf(r)[n]
        BY <1>1, <4>1, SumsAgree
      <4> QED
        BY <4>2 DEF n
    <3> QED
      BY <3>1 DEF SumOf
  <2> QED
    BY <2>1, <2>2, <2>3
<1>3. ASSUME NEW n \in 0 .. Len(t), n < Len(t), n \in S PROVE n + 1 \in S
  <2>1. /\ n + 1 \in 0 .. Len(t) /\ n + 1 \in 1 .. Len(t) /\ n + 1 # 0 /\ (n + 1) - 1 = n
        /\ Len(s) + (n + 1) \in 0 .. Len(r) /\ Len(s) + (n + 1) # 0
        /\ (Len(s) + (n + 1)) - 1 = Len(s) + n
    BY <1>1, <1>3
  <2>2. SumsOf(t)[n + 1] = SumsOf(t)[n] + t[n + 1]
    <3>1. SumsOf(t)[n + 1] =
            IF n + 1 = 0 THEN 0 ELSE SumsOf(t)[(n + 1) - 1] + t[n + 1]
      BY <2>1, SumsDefined
    <3> QED
      BY <2>1, <3>1
  <2>3. SumsOf(r)[Len(s) + (n + 1)] = SumsOf(r)[Len(s) + n] + r[Len(s) + (n + 1)]
    <3> DEFINE k == Len(s) + (n + 1)
    <3>1. k \in 0 .. Len(r) /\ k # 0 /\ k - 1 = Len(s) + n
      BY <2>1
    <3> HIDE DEF k
    <3>2. SumsOf(r)[k] = IF k = 0 THEN 0 ELSE SumsOf(r)[k - 1] + r[k]
      BY <1>1, <3>1, SumsDefined
    <3>3. SumsOf(r)[k] = SumsOf(r)[Len(s) + n] + r[k]
      BY <3>1, <3>2
    <3> QED
      BY <3>3 DEF k
  <2>4. r[Len(s) + (n + 1)] = t[n + 1] /\ t[n + 1] \in Nat
    BY <1>1, <2>1
  <2>5. SumsOf(t)[n] \in Nat /\ SumOf(s) \in Nat
    BY SumOfType, SumsAgree
  <2>6. SumsOf(r)[Len(s) + n] = SumOf(s) + SumsOf(t)[n]
    BY <1>3
  <2>7. SumsOf(r)[Len(s) + (n + 1)] = SumOf(s) + SumsOf(t)[n + 1]
    BY <2>2, <2>3, <2>4, <2>5, <2>6
  <2> QED
    BY <2>1, <2>7
<1>4. 0 .. Len(t) \subseteq S
  <2> HIDE DEF S
  <2> QED
    BY <1>1, <1>2, <1>3, CountingUp
<1>5. SumsOf(r)[Len(s) + Len(t)] = SumOf(s) + SumsOf(t)[Len(t)]
  <2>1. Len(t) \in 0 .. Len(t)
    BY <1>1
  <2> QED
    BY <1>4, <2>1
<1> QED
  BY <1>1, <1>5 DEF SumOf, r

LEMMA SumOfAppend ==
  ASSUME NEW s \in Seq(Nat), NEW n \in Nat
  PROVE  SumOf(Append(s, n)) = SumOf(s) + n
<1> DEFINE t == <<n>>
<1>1. Append(s, n) = s \o t /\ t \in Seq(Nat) /\ Len(t) = 1 /\ t[1] = n
  BY AppendIsConcat
<1> HIDE DEF t
<1>2. 0 \in 0 .. Len(t) /\ 1 \in 0 .. Len(t) /\ 1 # 0 /\ 1 - 1 = 0
  BY <1>1
<1>3. SumsOf(t)[1] = SumsOf(t)[0] + n /\ SumsOf(t)[0] = 0
  <2>1. SumsOf(t)[1] = IF 1 = 0 THEN 0 ELSE SumsOf(t)[1 - 1] + t[1]
    BY <1>1, <1>2, SumsDefined
  <2>2. SumsOf(t)[0] = IF 0 = 0 THEN 0 ELSE SumsOf(t)[0 - 1] + t[0]
    BY <1>1, <1>2, SumsDefined
  <2> QED
    BY <1>1, <1>2, <2>1, <2>2
<1>4. SumOf(t) = n
  BY <1>1, <1>3 DEF SumOf
<1> QED
  BY <1>1, <1>4, SumOfConcat

-----------------------------------------------------------------------------
(* What the nodes of a document come to. *)

Sizes(nodes) == [i \in DOMAIN nodes |-> nodes[i].size]
CopiedSizes(nodes) == [i \in DOMAIN nodes |-> IF nodes[i].copied THEN nodes[i].size ELSE 0]

(* The sizes of nodes are numbers, one for each. *)
LEMMA SizesFacts ==
  ASSUME NEW a \in Seq(DocumentNodes)
  PROVE  /\ Sizes(a) \in Seq(Nat) /\ CopiedSizes(a) \in Seq(Nat)
         /\ Len(Sizes(a)) = Len(a) /\ Len(CopiedSizes(a)) = Len(a)
         /\ Total(a) = SumOf(Sizes(a)) /\ Copied(a) = SumOf(CopiedSizes(a))
         /\ Total(a) \in Nat /\ Copied(a) \in Nat
<1>1. Len(a) \in Nat /\ DOMAIN a = 1 .. Len(a) /\ \A i \in 1 .. Len(a) : a[i] \in DocumentNodes
  OBVIOUS
<1>2. /\ Sizes(a) \in Seq(Nat) /\ CopiedSizes(a) \in Seq(Nat)
      /\ Len(Sizes(a)) = Len(a) /\ Len(CopiedSizes(a)) = Len(a)
  <2>1. \A i \in 1 .. Len(a) : a[i].size \in Nat
    BY <1>1 DEF DocumentNodes
  <2>2. /\ Sizes(a) = [i \in 1 .. Len(a) |-> a[i].size]
        /\ CopiedSizes(a) = [i \in 1 .. Len(a) |-> IF a[i].copied THEN a[i].size ELSE 0]
    BY <1>1 DEF Sizes, CopiedSizes
  <2> QED
    BY <1>1, <2>1, <2>2
<1>3. Total(a) = SumOf(Sizes(a)) /\ Copied(a) = SumOf(CopiedSizes(a))
  BY DEF Total, Copied, Sizes, CopiedSizes
<1> QED
  BY <1>2, <1>3, SumOfType

(* A list that begins like one and goes on like another is their concatenation. *)
LEMMA IsConcat ==
  ASSUME NEW s \in Seq(Nat), NEW t \in Seq(Nat), NEW r \in Seq(Nat), Len(r) = Len(s) + Len(t),
         \A i \in 1 .. Len(s) : r[i] = s[i], \A i \in 1 .. Len(t) : r[Len(s) + i] = t[i]
  PROVE  r = s \o t
<1> DEFINE q == s \o t
<1>1. /\ q \in Seq(Nat) /\ Len(q) = Len(s) + Len(t) /\ Len(s) \in Nat /\ Len(t) \in Nat
      /\ \A i \in 1 .. Len(s) : q[i] = s[i]
      /\ \A i \in 1 .. Len(t) : q[Len(s) + i] = t[i]
  OBVIOUS
<1> HIDE DEF q
<1>2. ASSUME NEW i \in 1 .. Len(r) PROVE r[i] = q[i]
  <2>1. CASE i <= Len(s)
    BY <1>1, <2>1
  <2>2. CASE ~ (i <= Len(s))
    <3> DEFINE k == i - Len(s)
    <3>1. k \in 1 .. Len(t) /\ i = Len(s) + k
      BY <1>1, <2>2
    <3> HIDE DEF k
    <3> QED
      BY <1>1, <3>1
  <2> QED
    BY <2>1, <2>2
<1>3. r = q
  BY <1>1, <1>2
<1> QED
  BY <1>3 DEF q

(* What two lists of nodes come to together. *)
LEMMA NodesConcat ==
  ASSUME NEW a \in Seq(DocumentNodes), NEW b \in Seq(DocumentNodes)
  PROVE  /\ a \o b \in Seq(DocumentNodes)
         /\ Total(a \o b) = Total(a) + Total(b)
         /\ Copied(a \o b) = Copied(a) + Copied(b)
<1> DEFINE c == a \o b
<1>1. /\ c \in Seq(DocumentNodes) /\ Len(c) = Len(a) + Len(b)
      /\ Len(a) \in Nat /\ Len(b) \in Nat
      /\ DOMAIN a = 1 .. Len(a) /\ DOMAIN b = 1 .. Len(b) /\ DOMAIN c = 1 .. Len(c)
      /\ \A i \in 1 .. Len(a) : c[i] = a[i] /\ i \in 1 .. Len(c)
      /\ \A i \in 1 .. Len(b) : c[Len(a) + i] = b[i] /\ Len(a) + i \in 1 .. Len(c)
  OBVIOUS
<1> HIDE DEF c
<1>2. Sizes(c) = Sizes(a) \o Sizes(b)
  <2>1. /\ Sizes(a) \in Seq(Nat) /\ Sizes(b) \in Seq(Nat) /\ Sizes(c) \in Seq(Nat)
        /\ Len(Sizes(a)) = Len(a) /\ Len(Sizes(b)) = Len(b) /\ Len(Sizes(c)) = Len(c)
    BY <1>1, SizesFacts
  <2>2. /\ \A i \in 1 .. Len(a) : Sizes(c)[i] = Sizes(a)[i]
        /\ \A i \in 1 .. Len(b) : Sizes(c)[Len(a) + i] = Sizes(b)[i]
    BY <1>1 DEF Sizes
  <2>3. /\ Len(Sizes(c)) = Len(Sizes(a)) + Len(Sizes(b))
        /\ \A i \in 1 .. Len(Sizes(a)) : Sizes(c)[i] = Sizes(a)[i]
        /\ \A i \in 1 .. Len(Sizes(b)) : Sizes(c)[Len(Sizes(a)) + i] = Sizes(b)[i]
    BY <1>1, <2>1, <2>2
  <2> QED
    BY <2>1, <2>3, IsConcat
<1>3. CopiedSizes(c) = CopiedSizes(a) \o CopiedSizes(b)
  <2>1. /\ CopiedSizes(a) \in Seq(Nat) /\ CopiedSizes(b) \in Seq(Nat)
        /\ CopiedSizes(c) \in Seq(Nat)
        /\ Len(CopiedSizes(a)) = Len(a) /\ Len(CopiedSizes(b)) = Len(b)
        /\ Len(CopiedSizes(c)) = Len(c)
    BY <1>1, SizesFacts
  <2>2. /\ \A i \in 1 .. Len(a) : CopiedSizes(c)[i] = CopiedSizes(a)[i]
        /\ \A i \in 1 .. Len(b) : CopiedSizes(c)[Len(a) + i] = CopiedSizes(b)[i]
    BY <1>1 DEF CopiedSizes
  <2>3. /\ Len(CopiedSizes(c)) = Len(CopiedSizes(a)) + Len(CopiedSizes(b))
        /\ \A i \in 1 .. Len(CopiedSizes(a)) : CopiedSizes(c)[i] = CopiedSizes(a)[i]
        /\ \A i \in 1 .. Len(CopiedSizes(b)) : CopiedSizes(c)[Len(CopiedSizes(a)) + i] = CopiedSizes(b)[i]
    BY <1>1, <2>1, <2>2
  <2> QED
    BY <2>1, <2>3, IsConcat
<1>4. SumOf(Sizes(a) \o Sizes(b)) = SumOf(Sizes(a)) + SumOf(Sizes(b))
  BY SizesFacts, SumOfConcat
<1>5. SumOf(CopiedSizes(a) \o CopiedSizes(b)) = SumOf(CopiedSizes(a)) + SumOf(CopiedSizes(b))
  BY SizesFacts, SumOfConcat
<1>6. Total(c) = Total(a) + Total(b) /\ Copied(c) = Copied(a) + Copied(b)
  BY <1>1, <1>2, <1>3, <1>4, <1>5, SizesFacts
<1> QED
  BY <1>1, <1>6 DEF c

(* A node of the document itself, alone and after others. *)
LEMMA OneNode ==
  ASSUME NEW size \in Nat
  PROVE  /\ <<Node(size)>> \in Seq(DocumentNodes)
         /\ Total(<<Node(size)>>) = size /\ Copied(<<Node(size)>>) = 0
<1> DEFINE a == <<Node(size)>>
<1>1. a \in Seq(DocumentNodes) /\ DOMAIN a = {1}
      /\ a[1].size = size /\ a[1].copied = FALSE
  BY DEF DocumentNodes, Node
<1> HIDE DEF a
<1>2. Sizes(a) = <<size>> /\ CopiedSizes(a) = <<0>>
  BY <1>1 DEF Sizes, CopiedSizes
<1>3. SumOf(<<size>>) = size /\ SumOf(<<0>>) = 0
  <2>1. <<>> \in Seq(Nat) /\ Append(<<>>, size) = <<size>> /\ Append(<<>>, 0) = <<0>>
    OBVIOUS
  <2>2. SumOf(Append(<<>>, size)) = SumOf(<<>>) + size
    BY <2>1, SumOfAppend
  <2>3. SumOf(Append(<<>>, 0)) = SumOf(<<>>) + 0
    BY <2>1, SumOfAppend
  <2> QED
    BY <2>1, <2>2, <2>3, SumOfNone
<1>4. Total(a) = SumOf(Sizes(a)) /\ Copied(a) = SumOf(CopiedSizes(a))
  BY <1>1, SizesFacts
<1> QED
  BY <1>1, <1>2, <1>3, <1>4 DEF a

(* What a list of nodes comes to with one more. *)
LEMMA NodesAppend ==
  ASSUME NEW a \in Seq(DocumentNodes), NEW size \in Nat
  PROVE  /\ Append(a, Node(size)) \in Seq(DocumentNodes)
         /\ Append(a, Node(size)) = a \o <<Node(size)>>
         /\ Total(Append(a, Node(size))) = Total(a) + size
         /\ Copied(Append(a, Node(size))) = Copied(a)
<1>1. Node(size) \in DocumentNodes
  BY DEF DocumentNodes, Node
<1>2. Append(a, Node(size)) = a \o <<Node(size)>>
  BY <1>1, AppendIsConcat
<1> DEFINE b == <<Node(size)>>
<1>3. b \in Seq(DocumentNodes) /\ Total(b) = size /\ Copied(b) = 0
  BY OneNode
<1> HIDE DEF b
<1>4. a \o b \in Seq(DocumentNodes) /\ Total(a \o b) = Total(a) + size /\ Copied(a \o b) = Copied(a) + 0
  BY <1>3, NodesConcat
<1>5. Copied(a) \in Nat
  BY SizesFacts
<1> QED
  BY <1>2, <1>4, <1>5 DEF b

(* No nodes come to nothing. *)
LEMMA NoNodes == <<>> \in Seq(DocumentNodes) /\ Total(<<>>) = 0 /\ Copied(<<>>) = 0
<1> DEFINE a == <<>>
<1>1. a \in Seq(DocumentNodes) /\ DOMAIN a = {}
  OBVIOUS
<1>2. Sizes(<<>>) = <<>> /\ CopiedSizes(<<>>) = <<>>
  BY DEF Sizes, CopiedSizes
<1> QED
  BY <1>1, <1>2, SizesFacts, SumOfNone

(* A copy is all copied, and as large as what it copies. *)
LEMMA CopyFacts ==
  ASSUME NEW a \in Seq(DocumentNodes)
  PROVE  /\ CopyOf(a) \in Seq(DocumentNodes)
         /\ Total(CopyOf(a)) = Total(a) /\ Copied(CopyOf(a)) = Total(a)
<1> DEFINE c == CopyOf(a)
<1>1. DOMAIN a = 1 .. Len(a) /\ Len(a) \in Nat /\ \A i \in 1 .. Len(a) : a[i] \in DocumentNodes
  OBVIOUS
<1>2. ASSUME NEW i \in 1 .. Len(a)
      PROVE  c[i] \in DocumentNodes /\ c[i].size = a[i].size /\ c[i].copied = TRUE
  BY <1>1, <1>2 DEF CopyOf, DocumentNodes
<1>3. DOMAIN c = 1 .. Len(a)
  BY <1>1 DEF CopyOf
<1>4. c \in Seq(DocumentNodes)
  <2>1. c = [i \in 1 .. Len(a) |-> c[i]]
    BY <1>1 DEF CopyOf
  <2>2. \A i \in 1 .. Len(a) : c[i] \in DocumentNodes
    BY <1>2
  <2> HIDE DEF c
  <2>3. c \in [1 .. Len(a) -> DocumentNodes]
    BY <2>1, <2>2
  <2> QED
    BY <1>1, <2>3
<1> HIDE DEF c
<1>5. Sizes(c) = Sizes(a) /\ CopiedSizes(c) = Sizes(a)
  BY <1>1, <1>2, <1>3 DEF Sizes, CopiedSizes
<1>6. /\ Total(c) = SumOf(Sizes(c)) /\ Copied(c) = SumOf(CopiedSizes(c))
      /\ Total(a) = SumOf(Sizes(a))
  BY <1>4, SizesFacts
<1> QED
  BY <1>4, <1>5, <1>6 DEF c

(* What was written before a place stays the beginning of what is written. *)
LEMMA PrefixStays ==
  ASSUME NEW a \in Seq(DocumentNodes), NEW b \in Seq(DocumentNodes), NEW n \in Nat, n <= Len(a)
  PROVE  n <= Len(a \o b) /\ SubSeq(a \o b, 1, n) = SubSeq(a, 1, n)
OBVIOUS

(* A list is what it begins with and the rest. *)
LEMMA SplitAt ==
  ASSUME NEW a \in Seq(DocumentNodes), NEW n \in Nat, n <= Len(a)
  PROVE  /\ SubSeq(a, n + 1, Len(a)) \in Seq(DocumentNodes) /\ SubSeq(a, 1, n) \in Seq(DocumentNodes)
         /\ Total(SubSeq(a, n + 1, Len(a))) = Total(a) - Total(SubSeq(a, 1, n))
<1> DEFINE s == SubSeq(a, 1, n)  t == SubSeq(a, n + 1, Len(a))
<1>1. s \in Seq(DocumentNodes) /\ t \in Seq(DocumentNodes) /\ a = s \o t
  <2>1. Len(a) \in Nat /\ 1 \in 1 .. Len(a) + 1 /\ n \in 0 .. Len(a) /\ n \in 1 - 1 .. Len(a)
        /\ Len(a) \in n .. Len(a)
    OBVIOUS
  <2>2. s \o t = SubSeq(a, 1, Len(a))
    BY <2>1, ConcatAdjacentSubSeq
  <2>3. SubSeq(a, 1, Len(a)) = a
    BY SubSeqFull
  <2>4. s \in Seq(DocumentNodes) /\ t \in Seq(DocumentNodes)
    <3>1. /\ 1 \in Int /\ n \in Int /\ n + 1 \in Int /\ Len(a) \in Int
          /\ \A i \in 1 .. n : a[i] \in DocumentNodes
          /\ \A i \in n + 1 .. Len(a) : a[i] \in DocumentNodes
      BY <2>1
    <3>2. s \in Seq(DocumentNodes)
      BY <3>1, SubSeqProperties
    <3>3. t \in Seq(DocumentNodes)
      BY <3>1, SubSeqProperties
    <3> QED
      BY <3>2, <3>3
  <2> QED
    BY <2>2, <2>3, <2>4
<1> HIDE DEF s, t
<1>2. Total(s \o t) = Total(s) + Total(t)
  BY <1>1, NodesConcat
<1>3. Total(s) \in Nat /\ Total(t) \in Nat
  BY <1>1, SizesFacts
<1>4. Total(a) = Total(s) + Total(t)
  BY <1>1, <1>2
<1>5. Total(t) = Total(a) - Total(s)
  BY <1>3, <1>4
<1> QED
  BY <1>1, <1>5 DEF s, t

-----------------------------------------------------------------------------
(* The events of a file. *)

(* The invariant of the walk holds at its start. *)
LEMMA WalkInitInv == WalkInit => BoundsTheDocument
<1> SUFFICES ASSUME WalkInit PROVE BoundsTheDocument
  OBVIOUS
<1>1. SumOf(<<>>) = 0 /\ Total(<<>>) = 0 /\ Copied(<<>>) = 0 /\ <<>> \in Seq(DocumentNodes)
  BY NoNodes, SumOfNone
<1>2. MaxCopied \in Nat /\ MaxTags \in Nat /\ MaxNesting \in Nat
  BY YamlAssumptions
<1> QED
  BY <1>1, <1>2 DEF WalkInit, BoundsTheDocument, WalkTypeOK, CountsTheCopies, KnowsItsStart, BoundsHold

(* What is written only grows, so that a collection still knows its start. *)
LEMMA StartKept ==
  ASSUME BoundsTheDocument, NEW more \in Seq(DocumentNodes), NEW slots \in Nat, Len(named) <= slots
  PROVE  \A i \in DOMAIN open :
           /\ open[i].slot \in {0} \cup 1 .. slots
           /\ open[i].from <= Len(written \o more)
           /\ open[i].start = Total(SubSeq(written \o more, 1, open[i].from))
<1> TAKE i \in DOMAIN open
<1>1. /\ open[i].slot \in {0} \cup DOMAIN named /\ open[i].from <= Len(written)
      /\ open[i].start = Total(SubSeq(written, 1, open[i].from))
  BY DEF BoundsTheDocument, KnowsItsStart
<1>2. written \in Seq(DocumentNodes) /\ open[i].from \in Nat /\ named \in Seq(Seq(DocumentNodes) \cup {Open})
  <2> DEFINE R == [start : Nat, slot : Nat, from : Nat]
  <2>1. open \in Seq(R) /\ \A r \in R : r.from \in Nat
    BY DEF BoundsTheDocument, WalkTypeOK
  <2> HIDE DEF R
  <2>2. open[i].from \in Nat
    BY <2>1
  <2> QED
    BY <2>2 DEF BoundsTheDocument, WalkTypeOK
<1> DEFINE n == open[i].from
<1>3. n \in Nat /\ n <= Len(written)
  BY <1>1, <1>2
<1>4. n <= Len(written \o more) /\ SubSeq(written \o more, 1, n) = SubSeq(written, 1, n)
  <2> HIDE DEF n
  <2> QED
    BY <1>2, <1>3, PrefixStays
<1>5. open[i].slot \in {0} \cup 1 .. slots
  BY <1>1, <1>2
<1> QED
  BY <1>1, <1>4, <1>5

(* A name stands for the slot of its latest node. *)
LEMMA BindFacts ==
  ASSUME BoundsTheDocument, NEW a \in Anchors \cup {NoAnchor}
  PROVE  /\ DOMAIN Bind(a) \subseteq Anchors
         /\ a = NoAnchor => Bind(a) = anchors
         /\ \A b \in DOMAIN Bind(a) : Bind(a)[b] \in 1 .. Len(named) + 1
<1>1. /\ DOMAIN anchors \subseteq Anchors /\ \A b \in DOMAIN anchors : anchors[b] \in DOMAIN named
      /\ Len(named) = Len(anchorSizes) /\ Len(named) \in Nat /\ DOMAIN named = 1 .. Len(named)
  BY DEF BoundsTheDocument, WalkTypeOK
<1>2. CASE a = NoAnchor
  BY <1>1, <1>2 DEF Bind
<1>3. CASE a # NoAnchor
  BY <1>1, <1>3, YamlAssumptions DEF Bind, NewSlot
<1> QED
  BY <1>2, <1>3

(* A scalar adds itself. *)
LEMMA ScalarKeeps ==
  ASSUME BoundsTheDocument, NEW n \in Lengths, NEW t \in TagLengths,
         NEW a \in Anchors \cup {NoAnchor}, Scalar(n, t, a)
  PROVE  BoundsTheDocument'
<1> DEFINE size == Overhead + t + n
<1>1. n \in Nat /\ t \in Nat /\ size \in Nat
  BY YamlAssumptions
<1>2. /\ {expanded, aliasBytes, tagBytes} \subseteq Nat
      /\ tags \in Seq(Nat) /\ written \in Seq(DocumentNodes)
      /\ named \in Seq(Seq(DocumentNodes) \cup {Open}) /\ anchorSizes \in Seq(Nat \cup {Open})
      /\ Len(named) = Len(anchorSizes)
      /\ DOMAIN anchors \subseteq Anchors /\ \A b \in DOMAIN anchors : anchors[b] \in DOMAIN named
      /\ open \in Seq([start : Nat, slot : Nat, from : Nat])
  BY DEF BoundsTheDocument, WalkTypeOK
<1> HIDE DEF size
<1>3. /\ tagBytes' = tagBytes + t /\ expanded' = expanded + size /\ aliasBytes' = aliasBytes
      /\ tags' = Append(tags, t) /\ written' = Append(written, Node(size)) /\ open' = open
      /\ anchors' = Bind(a) /\ walk = "walking"
      /\ anchorSizes' = IF a = NoAnchor THEN anchorSizes ELSE Append(anchorSizes, size)
      /\ named' = IF a = NoAnchor THEN named ELSE Append(named, <<Node(size)>>)
      /\ walk' = IF tagBytes' > MaxTags THEN "tags" ELSE walk
  BY DEF Scalar, ChargeTag, size
<1>4. /\ written' \in Seq(DocumentNodes) /\ written' = written \o <<Node(size)>>
      /\ Total(written') = Total(written) + size /\ Copied(written') = Copied(written)
      /\ <<Node(size)>> \in Seq(DocumentNodes) /\ Total(<<Node(size)>>) = size
  BY <1>1, <1>2, <1>3, NodesAppend, OneNode
<1>5. tags' \in Seq(Nat) /\ SumOf(tags') = SumOf(tags) + t
  BY <1>1, <1>2, <1>3, SumOfAppend
<1>6. /\ named' \in Seq(Seq(DocumentNodes) \cup {Open}) /\ anchorSizes' \in Seq(Nat \cup {Open})
      /\ Len(named') = Len(anchorSizes') /\ Len(named) <= Len(named') /\ Len(named') \in Nat
      /\ DOMAIN named' = 1 .. Len(named')
      /\ a # NoAnchor => Len(named') = Len(named) + 1
  <2> DEFINE S == Seq(DocumentNodes) \cup {Open}  T == Nat \cup {Open}
  <2>1. /\ size \in T /\ <<Node(size)>> \in S
        /\ named \in Seq(S) /\ anchorSizes \in Seq(T)
    BY <1>1, <1>2, <1>4
  <2> HIDE DEF S, T
  <2>2. /\ Append(named, <<Node(size)>>) \in Seq(S) /\ Append(anchorSizes, size) \in Seq(T)
        /\ Len(Append(named, <<Node(size)>>)) = Len(named) + 1
        /\ Len(Append(anchorSizes, size)) = Len(anchorSizes) + 1
        /\ Len(named) \in Nat
    BY <2>1, AppendFacts
  <2>3. /\ named' \in Seq(S) /\ anchorSizes' \in Seq(T)
        /\ Len(named') = IF a = NoAnchor THEN Len(named) ELSE Len(named) + 1
        /\ Len(anchorSizes') = Len(named')
    BY <1>2, <1>3, <2>1, <2>2
  <2> QED
    BY <2>2, <2>3 DEF S, T
<1>7. WalkTypeOK'
  <2>1. DOMAIN anchors' \subseteq Anchors /\ \A b \in DOMAIN anchors' : anchors'[b] \in DOMAIN named'
    <3>1. CASE a = NoAnchor
      BY <1>2, <1>3, <3>1 DEF Bind
    <3>2. CASE a # NoAnchor
      BY <1>3, <1>6, <3>2, BindFacts
    <3> QED
      BY <3>1, <3>2
  <2>2. {expanded', aliasBytes', tagBytes'} \subseteq Nat
    BY <1>1, <1>2, <1>3
  <2> QED
    BY <1>2, <1>3, <1>4, <1>5, <1>6, <2>1, <2>2 DEF WalkTypeOK
<1>8. CountsTheCopies'
  <2>1. /\ expanded = Total(written) /\ aliasBytes = Copied(written) /\ tagBytes = SumOf(tags)
        /\ \A slot \in DOMAIN named :
             anchorSizes[slot] = IF named[slot] = Open THEN Open ELSE Total(named[slot])
    BY DEF BoundsTheDocument, CountsTheCopies
  <2>2. ASSUME NEW slot \in DOMAIN named'
        PROVE  anchorSizes'[slot] = IF named'[slot] = Open THEN Open ELSE Total(named'[slot])
    <3>1. CASE a = NoAnchor
      BY <1>3, <2>1, <3>1
    <3>2. CASE a # NoAnchor
      <4>1. CASE slot \in DOMAIN named
        BY <1>2, <1>3, <2>1, <3>2, <4>1
      <4>2. CASE slot \notin DOMAIN named
        <5>1. slot = Len(named) + 1 /\ slot = Len(anchorSizes) + 1
          BY <1>2, <1>6, <3>2, <4>2
        <5>2. named'[slot] = <<Node(size)>> /\ anchorSizes'[slot] = size
          BY <1>2, <1>3, <3>2, <5>1
        <5>3. <<Node(size)>> # Open
          BY <1>4, YamlAssumptions DEF DocumentNodes
        <5> QED
          BY <1>4, <5>2, <5>3
      <4> QED
        BY <4>1, <4>2
    <3> QED
      BY <3>1, <3>2
  <2>3. expanded' = Total(written') /\ aliasBytes' = Copied(written') /\ tagBytes' = SumOf(tags')
    BY <1>3, <1>4, <1>5, <2>1
  <2> QED
    BY <2>2, <2>3 DEF CountsTheCopies
<1>9. KnowsItsStart'
  <2>1. \A i \in DOMAIN open :
          /\ open[i].slot \in {0} \cup 1 .. Len(named')
          /\ open[i].from <= Len(written')
          /\ open[i].start = Total(SubSeq(written', 1, open[i].from))
    BY <1>4, <1>6, StartKept
  <2> QED
    BY <1>3, <1>6, <2>1 DEF KnowsItsStart
<1>10. BoundsHold'
  <2>1. tagBytes' = SumOf(tags') /\ tagBytes' \in Nat /\ MaxTags \in Nat
    BY <1>7, <1>8, YamlAssumptions DEF CountsTheCopies, WalkTypeOK
  <2>2. Copied(written) <= MaxCopied /\ Len(open) <= MaxNesting
    BY <1>3 DEF BoundsTheDocument, BoundsHold
  <2> QED
    BY <1>3, <1>4, <2>1, <2>2 DEF BoundsHold
<1> QED
  BY <1>7, <1>8, <1>9, <1>10 DEF BoundsTheDocument

(* A collection that begins adds its own node, its size still open. *)
LEMMA CollectionStartKeeps ==
  ASSUME BoundsTheDocument, NEW t \in TagLengths, NEW a \in Anchors \cup {NoAnchor},
         CollectionStart(t, a)
  PROVE  BoundsTheDocument'
<1> DEFINE size == Overhead + t
           top == [start |-> expanded, slot |-> IF a = NoAnchor THEN 0 ELSE NewSlot,
                   from |-> Len(written)]
           Places == [start : Nat, slot : Nat, from : Nat]
<1>1. t \in Nat /\ size \in Nat
  <2>1. t \in Nat /\ Overhead \in Nat
    BY YamlAssumptions
  <2> QED
    BY <2>1
<1>2. /\ {expanded, aliasBytes, tagBytes} \subseteq Nat
      /\ tags \in Seq(Nat) /\ written \in Seq(DocumentNodes)
      /\ named \in Seq(Seq(DocumentNodes) \cup {Open}) /\ anchorSizes \in Seq(Nat \cup {Open})
      /\ Len(named) = Len(anchorSizes)
      /\ DOMAIN anchors \subseteq Anchors /\ \A b \in DOMAIN anchors : anchors[b] \in DOMAIN named
      /\ open \in Seq(Places)
  BY DEF BoundsTheDocument, WalkTypeOK
<1>0. Len(written) \in Nat /\ Len(anchorSizes) \in Nat
  BY <1>2
<1>a. top \in Places /\ top.start = expanded /\ top.from = Len(written)
      /\ top.slot = IF a = NoAnchor THEN 0 ELSE Len(named) + 1
  BY <1>0, <1>2 DEF NewSlot
<1>b. /\ tagBytes' = tagBytes + t /\ expanded' = expanded + Overhead + t /\ aliasBytes' = aliasBytes
      /\ tags' = Append(tags, t) /\ written' = Append(written, Node(size))
      /\ open' = Append(open, top)
      /\ anchors' = Bind(a) /\ walk = "walking"
      /\ anchorSizes' = IF a = NoAnchor THEN anchorSizes ELSE Append(anchorSizes, Open)
      /\ named' = IF a = NoAnchor THEN named ELSE Append(named, Open)
      /\ walk' = IF Len(open') > MaxNesting THEN "nesting"
                 ELSE IF tagBytes' > MaxTags THEN "tags" ELSE walk
  BY DEF CollectionStart, ChargeTag
<1>c. Overhead \in Nat /\ MaxTags \in Nat /\ MaxNesting \in Nat
  BY YamlAssumptions
<1>d. expanded' = expanded + size
  BY <1>1, <1>2, <1>b, <1>c
<1> HIDE DEF size, top, Places
<1>4. /\ written' \in Seq(DocumentNodes) /\ written' = written \o <<Node(size)>>
      /\ Total(written') = Total(written) + size /\ Copied(written') = Copied(written)
      /\ <<Node(size)>> \in Seq(DocumentNodes)
  BY <1>1, <1>2, <1>b, NodesAppend, OneNode
<1>5. tags' \in Seq(Nat) /\ SumOf(tags') = SumOf(tags) + t
  BY <1>1, <1>2, <1>b, SumOfAppend
<1>6. /\ named' \in Seq(Seq(DocumentNodes) \cup {Open}) /\ anchorSizes' \in Seq(Nat \cup {Open})
      /\ Len(named') = Len(anchorSizes') /\ Len(named) <= Len(named') /\ Len(named') \in Nat
      /\ DOMAIN named' = 1 .. Len(named')
      /\ Len(named) \in Nat
      /\ a # NoAnchor => /\ Len(named') = Len(named) + 1
                         /\ named'[Len(named) + 1] = Open /\ anchorSizes'[Len(named) + 1] = Open
  <2> DEFINE S == Seq(DocumentNodes) \cup {Open}  T == Nat \cup {Open}
  <2>1. Open \in T /\ Open \in S /\ named \in Seq(S) /\ anchorSizes \in Seq(T)
    BY <1>2
  <2> HIDE DEF S, T
  <2>2. /\ Append(named, Open) \in Seq(S) /\ Append(anchorSizes, Open) \in Seq(T)
        /\ Len(Append(named, Open)) = Len(named) + 1
        /\ Len(Append(anchorSizes, Open)) = Len(anchorSizes) + 1
        /\ Append(named, Open)[Len(named) + 1] = Open
        /\ Append(anchorSizes, Open)[Len(anchorSizes) + 1] = Open
        /\ Len(named) \in Nat
    BY <2>1, AppendFacts
  <2>3. /\ named' \in Seq(S) /\ anchorSizes' \in Seq(T)
        /\ Len(named') = IF a = NoAnchor THEN Len(named) ELSE Len(named) + 1
        /\ Len(anchorSizes') = Len(named')
        /\ a # NoAnchor => named'[Len(named) + 1] = Open /\ anchorSizes'[Len(named) + 1] = Open
    BY <1>2, <1>b, <2>1, <2>2
  <2> QED
    BY <2>2, <2>3 DEF S, T
<1>e. /\ open' \in Seq(Places) /\ Len(open') = Len(open) + 1 /\ Len(open) \in Nat
      /\ \A i \in 1 .. Len(open) : open'[i] = open[i]
      /\ open'[Len(open) + 1] = top
      /\ DOMAIN open = 1 .. Len(open) /\ DOMAIN open' = 1 .. Len(open) + 1
  BY <1>2, <1>a, <1>b, AppendFacts
<1>7. WalkTypeOK'
  <2>1. DOMAIN anchors' \subseteq Anchors /\ \A b \in DOMAIN anchors' : anchors'[b] \in DOMAIN named'
    <3>1. CASE a = NoAnchor
      BY <1>2, <1>b, <3>1 DEF Bind
    <3>2. CASE a # NoAnchor
      BY <1>b, <1>6, <3>2, BindFacts
    <3> QED
      BY <3>1, <3>2
  <2>2. {expanded', aliasBytes', tagBytes'} \subseteq Nat
    BY <1>1, <1>2, <1>b, <1>d
  <2> QED
    BY <1>4, <1>5, <1>6, <1>e, <2>1, <2>2 DEF WalkTypeOK, Places
<1>8. CountsTheCopies'
  <2>1. /\ expanded = Total(written) /\ aliasBytes = Copied(written) /\ tagBytes = SumOf(tags)
        /\ \A slot \in DOMAIN named :
             anchorSizes[slot] = IF named[slot] = Open THEN Open ELSE Total(named[slot])
    BY DEF BoundsTheDocument, CountsTheCopies
  <2>2. ASSUME NEW slot \in DOMAIN named'
        PROVE  anchorSizes'[slot] = IF named'[slot] = Open THEN Open ELSE Total(named'[slot])
    <3>1. CASE a = NoAnchor
      BY <1>b, <2>1, <3>1
    <3>2. CASE a # NoAnchor
      <4>1. CASE slot \in DOMAIN named
        BY <1>2, <1>b, <2>1, <3>2, <4>1
      <4>2. CASE slot \notin DOMAIN named
        <5>1. slot = Len(named) + 1 /\ slot = Len(anchorSizes) + 1
          BY <1>2, <1>6, <3>2, <4>2
        <5>2. named'[slot] = Open /\ anchorSizes'[slot] = Open
          BY <1>6, <3>2, <5>1
        <5> QED
          BY <5>2
      <4> QED
        BY <4>1, <4>2
    <3> QED
      BY <3>1, <3>2
  <2>3. expanded' = Total(written') /\ aliasBytes' = Copied(written') /\ tagBytes' = SumOf(tags')
    BY <1>4, <1>5, <1>b, <1>d, <2>1
  <2> QED
    BY <2>2, <2>3 DEF CountsTheCopies
<1>9. KnowsItsStart'
  <2>1. \A i \in DOMAIN open :
          /\ open[i].slot \in {0} \cup 1 .. Len(named')
          /\ open[i].from <= Len(written')
          /\ open[i].start = Total(SubSeq(written', 1, open[i].from))
    BY <1>4, <1>6, StartKept
  <2>2. /\ top.slot \in {0} \cup 1 .. Len(named')
        /\ top.from <= Len(written')
        /\ top.start = Total(SubSeq(written', 1, top.from))
    <3>1. Len(written) <= Len(written') /\ SubSeq(written', 1, Len(written)) = SubSeq(written, 1, Len(written))
      <4> DEFINE n == Len(written)
      <4>1. n \in Nat /\ n <= Len(written)
        BY <1>0
      <4> HIDE DEF n
      <4>2. n <= Len(written') /\ SubSeq(written', 1, n) = SubSeq(written, 1, n)
        BY <1>2, <1>4, <4>1, PrefixStays
      <4> QED
        BY <4>2 DEF n
    <3>2. SubSeq(written, 1, Len(written)) = written
      BY <1>2, SubSeqFull
    <3>3. expanded = Total(written)
      BY DEF BoundsTheDocument, CountsTheCopies
    <3>4. top.slot \in {0} \cup 1 .. Len(named')
      <4>1. CASE a = NoAnchor
        BY <1>a, <4>1
      <4>2. CASE a # NoAnchor
        <5>1. Len(named) \in Nat /\ Len(named') = Len(named) + 1 /\ top.slot = Len(named) + 1
          BY <1>6, <1>a, <4>2
        <5> QED
          BY <5>1
      <4> QED
        BY <4>1, <4>2
    <3> QED
      BY <1>a, <3>1, <3>2, <3>3, <3>4
  <2>3. ASSUME NEW i \in DOMAIN open'
        PROVE  /\ open'[i].slot \in {0} \cup DOMAIN named' /\ open'[i].from <= Len(written')
               /\ open'[i].start = Total(SubSeq(written', 1, open'[i].from))
    <3>1. CASE i \in 1 .. Len(open)
      BY <1>6, <1>e, <2>1, <3>1
    <3>2. CASE i = Len(open) + 1
      BY <1>6, <1>e, <2>2, <3>2
    <3> QED
      BY <1>e, <3>1, <3>2
  <2> QED
    BY <2>3 DEF KnowsItsStart
<1>10. BoundsHold'
  <2>1. tagBytes' = SumOf(tags') /\ tagBytes' \in Nat
    BY <1>7, <1>8 DEF CountsTheCopies, WalkTypeOK
  <2>2. Copied(written) <= MaxCopied
    BY <1>b DEF BoundsTheDocument, BoundsHold
  <2>3. Len(open') \in Nat
    BY <1>e
  <2> QED
    BY <1>b, <1>c, <1>4, <2>1, <2>2, <2>3 DEF BoundsHold
<1> QED
  BY <1>7, <1>8, <1>9, <1>10 DEF BoundsTheDocument

(* A collection that ends has the nodes since its start. *)
LEMMA CollectionEndKeeps ==
  ASSUME BoundsTheDocument, CollectionEnd PROVE BoundsTheDocument'
<1> DEFINE top == Last(open)
           Places == [start : Nat, slot : Nat, from : Nat]
           nodes == SubSeq(written, top.from + 1, Len(written))
<1>2. /\ {expanded, aliasBytes, tagBytes} \subseteq Nat
      /\ tags \in Seq(Nat) /\ written \in Seq(DocumentNodes)
      /\ named \in Seq(Seq(DocumentNodes) \cup {Open}) /\ anchorSizes \in Seq(Nat \cup {Open})
      /\ Len(named) = Len(anchorSizes)
      /\ DOMAIN anchors \subseteq Anchors /\ \A b \in DOMAIN anchors : anchors[b] \in DOMAIN named
      /\ open \in Seq(Places)
  BY DEF BoundsTheDocument, WalkTypeOK
<1>3. /\ tagBytes' = tagBytes + 0 /\ expanded' = expanded /\ aliasBytes' = aliasBytes
      /\ tags' = tags /\ written' = written /\ anchors' = anchors
      /\ open # <<>> /\ open' = Front(open) /\ walk = "walking" /\ walk' = walk
      /\ anchorSizes' = IF top.slot = 0 THEN anchorSizes
                        ELSE [anchorSizes EXCEPT ![top.slot] = expanded - top.start]
      /\ named' = IF top.slot = 0 THEN named ELSE [named EXCEPT ![top.slot] = nodes]
  BY DEF CollectionEnd, ChargeTag, Since
<1> HIDE DEF nodes
<1>a. \A r \in Places : r.from \in Nat
  OBVIOUS
<1> HIDE DEF Places
<1>4. /\ open' \in Seq(Places) /\ Len(open') = Len(open) - 1 /\ Len(open) \in Nat \ {0}
      /\ \A i \in 1 .. Len(open) - 1 : open'[i] = open[i]
      /\ top = open[Len(open)] /\ top \in Places
      /\ DOMAIN open = 1 .. Len(open) /\ DOMAIN open' = 1 .. Len(open) - 1
  <2>1. /\ Front(open) \in Seq(Places) /\ Len(Front(open)) = Len(open) - 1
        /\ \A i \in 1 .. Len(open) - 1 : Front(open)[i] = open[i]
        /\ Len(open) \in Nat \ {0} /\ Last(open) = open[Len(open)] /\ Last(open) \in Places
    BY <1>2, <1>3, FrontFacts
  <2>2. DOMAIN open = 1 .. Len(open) /\ DOMAIN Front(open) = 1 .. Len(Front(open))
    BY <1>2, <2>1
  <2> QED
    BY <1>3, <2>1, <2>2
<1>5. /\ top.from \in Nat /\ top.slot \in {0} \cup DOMAIN named /\ top.from <= Len(written)
      /\ top.start = Total(SubSeq(written, 1, top.from))
  <2>1. top.from \in Nat
    BY <1>4, <1>a
  <2>2. Len(open) \in DOMAIN open
    BY <1>4
  <2> QED
    BY <1>4, <2>1, <2>2 DEF BoundsTheDocument, KnowsItsStart
<1>6. expanded = Total(written) /\ aliasBytes = Copied(written) /\ tagBytes = SumOf(tags)
      /\ \A slot \in DOMAIN named :
           anchorSizes[slot] = IF named[slot] = Open THEN Open ELSE Total(named[slot])
  BY DEF BoundsTheDocument, CountsTheCopies
<1> HIDE DEF top
<1>7. nodes \in Seq(DocumentNodes) /\ Total(nodes) = expanded - top.start /\ nodes # Open
      /\ Total(nodes) \in Nat
  <2>1. nodes \in Seq(DocumentNodes) /\ Total(nodes) = Total(written) - Total(SubSeq(written, 1, top.from))
    <3> DEFINE n == top.from
    <3>1. n \in Nat /\ n <= Len(written)
      BY <1>5
    <3> HIDE DEF n
    <3>2. /\ SubSeq(written, n + 1, Len(written)) \in Seq(DocumentNodes)
          /\ Total(SubSeq(written, n + 1, Len(written))) = Total(written) - Total(SubSeq(written, 1, n))
      BY <1>2, <3>1, SplitAt
    <3> QED
      BY <3>2 DEF n, nodes
  <2>2. nodes # Open
    BY <2>1, YamlAssumptions DEF DocumentNodes
  <2> QED
    BY <1>5, <1>6, <2>1, <2>2, SizesFacts
<1>8. /\ named' \in Seq(Seq(DocumentNodes) \cup {Open}) /\ anchorSizes' \in Seq(Nat \cup {Open})
      /\ Len(named') = Len(anchorSizes') /\ DOMAIN named' = DOMAIN named
      /\ DOMAIN anchorSizes = DOMAIN named
  <2> DEFINE S == Seq(DocumentNodes) \cup {Open}  T == Nat \cup {Open}
  <2>1. /\ nodes \in S /\ expanded - top.start \in T
        /\ named \in Seq(S) /\ anchorSizes \in Seq(T)
    BY <1>2, <1>7
  <2> HIDE DEF S, T
  <2>2. /\ named' \in Seq(S) /\ anchorSizes' \in Seq(T)
        /\ Len(named') = Len(anchorSizes') /\ DOMAIN named' = DOMAIN named
        /\ DOMAIN anchorSizes = DOMAIN named
    BY <1>2, <1>3, <1>5, <2>1
  <2> QED
    BY <2>2 DEF S, T
<1>9. WalkTypeOK'
  <2>1. {expanded', aliasBytes', tagBytes'} \subseteq Nat
    BY <1>2, <1>3
  <2> QED
    BY <1>2, <1>3, <1>4, <1>8, <2>1 DEF WalkTypeOK, Places
<1>10. CountsTheCopies'
  <2>1. ASSUME NEW slot \in DOMAIN named'
        PROVE  anchorSizes'[slot] = IF named'[slot] = Open THEN Open ELSE Total(named'[slot])
    <3>1. CASE slot = top.slot /\ top.slot # 0
      <4>1. anchorSizes'[slot] = expanded - top.start /\ named'[slot] = nodes
        BY <1>3, <1>8, <3>1
      <4> QED
        BY <1>7, <4>1
    <3>2. CASE ~ (slot = top.slot /\ top.slot # 0)
      <4>1. anchorSizes'[slot] = anchorSizes[slot] /\ named'[slot] = named[slot]
        BY <1>3, <1>8, <3>2
      <4> QED
        BY <1>6, <1>8, <4>1
    <3> QED
      BY <3>1, <3>2
  <2> QED
    BY <1>2, <1>3, <1>6, <2>1 DEF CountsTheCopies
<1>11. KnowsItsStart'
  <2>1. \A i \in DOMAIN open' : i \in DOMAIN open /\ open'[i] = open[i]
    BY <1>4
  <2> QED
    BY <1>3, <1>8, <2>1 DEF BoundsTheDocument, KnowsItsStart
<1>12. BoundsHold'
  <2>1. MaxNesting \in Nat /\ Len(open') <= Len(open) /\ Len(open') \in Nat /\ Len(open) \in Nat
    BY <1>4, YamlAssumptions
  <2>2. /\ Copied(written) <= MaxCopied /\ SumOf(tags) <= MaxTags
        /\ Len(open) <= MaxNesting
    BY <1>3 DEF BoundsTheDocument, BoundsHold
  <2> QED
    BY <1>3, <2>1, <2>2 DEF BoundsHold
<1> QED
  BY <1>9, <1>10, <1>11, <1>12 DEF BoundsTheDocument

(* An alias adds what its node holds, all of it copied. *)
LEMMA AliasKeeps ==
  ASSUME BoundsTheDocument, NEW a \in Anchors, Alias(a) PROVE BoundsTheDocument'
<1> DEFINE node == named[anchors[a]]
<1>1. /\ {expanded, aliasBytes, tagBytes} \subseteq Nat
      /\ tags \in Seq(Nat) /\ written \in Seq(DocumentNodes)
      /\ named \in Seq(Seq(DocumentNodes) \cup {Open}) /\ anchorSizes \in Seq(Nat \cup {Open})
      /\ Len(named) = Len(anchorSizes) /\ Len(named) \in Nat
      /\ DOMAIN anchors \subseteq Anchors /\ \A b \in DOMAIN anchors : anchors[b] \in DOMAIN named
      /\ open \in Seq([start : Nat, slot : Nat, from : Nat])
  BY DEF BoundsTheDocument, WalkTypeOK
<1>2. expanded = Total(written) /\ aliasBytes = Copied(written) /\ tagBytes = SumOf(tags)
      /\ \A slot \in DOMAIN named :
           anchorSizes[slot] = IF named[slot] = Open THEN Open ELSE Total(named[slot])
  BY DEF BoundsTheDocument, CountsTheCopies
<1>3. node \in Seq(DocumentNodes) /\ AnchoredSize(anchors[a]) = Total(node)
  <2>1. anchors[a] \in DOMAIN named /\ anchorSizes[anchors[a]] # Open
    BY <1>1 DEF Alias
  <2>2. node # Open /\ anchorSizes[anchors[a]] = Total(node)
    BY <1>2, <2>1
  <2>3. node \in Seq(DocumentNodes) \cup {Open}
    <3> DEFINE S == Seq(DocumentNodes) \cup {Open}
    <3>1. named \in Seq(S)
      BY <1>1
    <3> HIDE DEF S
    <3>2. node \in S
      BY <2>1, <3>1
    <3> QED
      BY <3>2 DEF S
  <2> QED
    BY <2>2, <2>3 DEF AnchoredSize
<1>4. /\ tagBytes' = tagBytes + 0 /\ expanded' = expanded + Total(node)
      /\ aliasBytes' = aliasBytes + Total(node)
      /\ written' = written \o CopyOf(node) /\ walk = "walking"
      /\ walk' = IF aliasBytes' > MaxCopied THEN "copies" ELSE walk
      /\ anchors' = anchors /\ anchorSizes' = anchorSizes /\ open' = open
      /\ named' = named /\ tags' = tags
  BY <1>3 DEF Alias, ChargeTag
<1> HIDE DEF node
<1>5. /\ CopyOf(node) \in Seq(DocumentNodes) /\ Total(CopyOf(node)) = Total(node)
      /\ Copied(CopyOf(node)) = Total(node) /\ Total(node) \in Nat
  BY <1>3, CopyFacts, SizesFacts
<1>6. /\ written' \in Seq(DocumentNodes) /\ Total(written') = Total(written) + Total(node)
      /\ Copied(written') = Copied(written) + Total(node)
  <2> DEFINE c == CopyOf(node)
  <2>1. c \in Seq(DocumentNodes) /\ Total(c) = Total(node) /\ Copied(c) = Total(node) /\ written' = written \o c
    BY <1>4, <1>5
  <2> HIDE DEF c
  <2> QED
    BY <1>1, <2>1, NodesConcat
<1>7. WalkTypeOK'
  <2>1. {expanded', aliasBytes', tagBytes'} \subseteq Nat
    BY <1>1, <1>4, <1>5
  <2> QED
    BY <1>1, <1>4, <1>6, <2>1 DEF WalkTypeOK
<1>8. CountsTheCopies'
  BY <1>1, <1>2, <1>4, <1>6 DEF CountsTheCopies
<1>9. KnowsItsStart'
  <2>1. \A i \in DOMAIN open :
          /\ open[i].slot \in {0} \cup 1 .. Len(named)
          /\ open[i].from <= Len(written')
          /\ open[i].start = Total(SubSeq(written', 1, open[i].from))
    <3> DEFINE c == CopyOf(node)  n == Len(named)
    <3>1. c \in Seq(DocumentNodes) /\ n \in Nat /\ Len(named) <= n /\ written' = written \o c
      BY <1>1, <1>4, <1>5
    <3> HIDE DEF c, n
    <3>2. \A i \in DOMAIN open :
            /\ open[i].slot \in {0} \cup 1 .. n
            /\ open[i].from <= Len(written')
            /\ open[i].start = Total(SubSeq(written', 1, open[i].from))
      BY <3>1, StartKept
    <3> QED
      BY <3>2 DEF n
  <2>2. DOMAIN named = 1 .. Len(named)
    BY <1>1
  <2> QED
    BY <1>4, <2>1, <2>2 DEF KnowsItsStart
<1>10. BoundsHold'
  <2>1. aliasBytes' = Copied(written') /\ aliasBytes' \in Nat /\ MaxCopied \in Nat
    BY <1>7, <1>8, YamlAssumptions DEF CountsTheCopies, WalkTypeOK
  <2>2. SumOf(tags) <= MaxTags /\ Len(open) <= MaxNesting
    BY <1>4 DEF BoundsTheDocument, BoundsHold
  <2> QED
    BY <1>4, <2>1, <2>2 DEF BoundsHold
<1> QED
  BY <1>7, <1>8, <1>9, <1>10 DEF BoundsTheDocument

(* An event that writes no node. *)
LEMMA OthersKeep ==
  ASSUME BoundsTheDocument,
         StopWalk \/ DocumentStart \/ (\E a \in Anchors : EndlessAlias(a)) \/ UNCHANGED yamlVars
  PROVE  BoundsTheDocument'
<1>1. /\ {expanded, aliasBytes, tagBytes} \subseteq Nat
      /\ tags \in Seq(Nat) /\ written \in Seq(DocumentNodes)
      /\ named \in Seq(Seq(DocumentNodes) \cup {Open}) /\ anchorSizes \in Seq(Nat \cup {Open})
      /\ Len(named) = Len(anchorSizes)
      /\ DOMAIN anchors \subseteq Anchors /\ \A b \in DOMAIN anchors : anchors[b] \in DOMAIN named
      /\ open \in Seq([start : Nat, slot : Nat, from : Nat])
  BY DEF BoundsTheDocument, WalkTypeOK
<1>2. /\ expanded' = expanded /\ aliasBytes' = aliasBytes /\ open' = open
      /\ written' = written /\ tags' = tags /\ tagBytes' = tagBytes
      /\ \/ anchors' = anchors /\ anchorSizes' = anchorSizes /\ named' = named
         \/ open = <<>> /\ anchors' = <<>> /\ anchorSizes' = <<>> /\ named' = <<>>
      /\ walk' = walk \/ (walk = "walking" /\ walk' \in {"accepted", "endless"})
  <2>1. tagBytes + 0 = tagBytes
    BY <1>1
  <2>2. CASE StopWalk
    BY <2>2 DEF StopWalk, walkState
  <2>3. CASE DocumentStart
    BY <2>1, <2>3 DEF DocumentStart, ChargeTag
  <2>4. CASE \E a \in Anchors : EndlessAlias(a)
    BY <2>1, <2>4 DEF EndlessAlias, ChargeTag
  <2>5. CASE UNCHANGED yamlVars
    BY <2>5 DEF yamlVars, walkState
  <2> QED
    BY <2>2, <2>3, <2>4, <2>5
<1>3. WalkTypeOK' /\ CountsTheCopies' /\ KnowsItsStart'
  <2>1. CASE anchors' = anchors /\ anchorSizes' = anchorSizes /\ named' = named
    BY <1>2, <2>1 DEF BoundsTheDocument, WalkTypeOK, CountsTheCopies, KnowsItsStart
  <2>2. CASE open = <<>> /\ anchors' = <<>> /\ anchorSizes' = <<>> /\ named' = <<>>
    <3>1. WalkTypeOK'
      BY <1>1, <1>2, <2>2 DEF WalkTypeOK
    <3>2. CountsTheCopies'
      BY <1>2, <2>2 DEF BoundsTheDocument, CountsTheCopies
    <3>3. KnowsItsStart'
      BY <1>2, <2>2 DEF KnowsItsStart
    <3> QED
      BY <3>1, <3>2, <3>3
  <2> QED
    BY <1>2, <2>1, <2>2
<1>4. BoundsHold'
  BY <1>2 DEF BoundsTheDocument, BoundsHold
<1> QED
  BY <1>3, <1>4 DEF BoundsTheDocument

(* The walk counts what a reader that copies every alias will have, and a file *)
(* that passes loads within every bound, whatever its events (config.rs:257). *)
THEOREM WalkBounds == WalkSpec => []BoundsTheDocument
<1>1. BoundsTheDocument /\ [WalkEvent]_yamlVars => BoundsTheDocument'
  BY ScalarKeeps, CollectionStartKeeps, CollectionEndKeeps, AliasKeeps, OthersKeep DEF WalkEvent
<1> QED
  BY <1>1, WalkInitInv, PTL DEF WalkSpec

-----------------------------------------------------------------------------
(* A normalized list of metadata. *)

(* A partial sum is no more than the whole. *)
LEMMA SumsGrow ==
  ASSUME NEW s \in Seq(Nat), NEW n \in Nat, n < Len(s)
  PROVE  /\ SumsOf(s)[n + 1] = SumsOf(s)[n] + s[n + 1] /\ s[n + 1] \in Nat
         /\ SumsOf(s)[n] \in Nat /\ SumsOf(s)[n + 1] <= SumOf(s) /\ SumOf(s) \in Nat
<1> DEFINE T == {k \in 0 .. Len(s) : k <= n \/ SumsOf(s)[n + 1] <= SumsOf(s)[k]}
<1>0. Len(s) \in Nat
  OBVIOUS
<1>1. ASSUME NEW k \in 0 .. Len(s), k < Len(s)
      PROVE  /\ SumsOf(s)[k + 1] = SumsOf(s)[k] + s[k + 1] /\ s[k + 1] \in Nat
             /\ SumsOf(s)[k] \in Nat
  <2>1. k + 1 \in 0 .. Len(s) /\ k + 1 # 0 /\ (k + 1) - 1 = k /\ k + 1 \in 1 .. Len(s)
    BY <1>0, <1>1
  <2>2. SumsOf(s)[k + 1] = IF k + 1 = 0 THEN 0 ELSE SumsOf(s)[(k + 1) - 1] + s[k + 1]
    BY <2>1, SumsDefined
  <2>3. SumsOf(s)[k] \in Nat
    BY <1>0, SumsAgree
  <2> QED
    BY <2>1, <2>2, <2>3
<1>a. /\ n \in 0 .. Len(s) /\ n + 1 \in 0 .. Len(s)
      /\ SumsOf(s)[n + 1] = SumsOf(s)[n] + s[n + 1] /\ s[n + 1] \in Nat /\ SumsOf(s)[n] \in Nat
  BY <1>0, <1>1
<1>b. SumsOf(s)[n + 1] \in Nat
  BY <1>a
<1>2. 0 \in T
  BY <1>0
<1>3. ASSUME NEW k \in 0 .. Len(s), k < Len(s), k \in T PROVE k + 1 \in T
  <2>1. k + 1 \in 0 .. Len(s) /\ n \in 0 .. Len(s)
    BY <1>0, <1>3
  <2>2. CASE k < n
    BY <2>1, <2>2
  <2>3. CASE k = n
    BY <1>b, <2>1, <2>3
  <2>4. CASE k > n
    <3>1. SumsOf(s)[n + 1] <= SumsOf(s)[k]
      BY <1>3, <2>4
    <3>2. /\ SumsOf(s)[k + 1] = SumsOf(s)[k] + s[k + 1] /\ s[k + 1] \in Nat
          /\ SumsOf(s)[k] \in Nat
      BY <1>1, <1>3
    <3>3. SumsOf(s)[n + 1] <= SumsOf(s)[k + 1]
      BY <1>b, <3>1, <3>2
    <3> QED
      BY <2>1, <3>3
  <2> QED
    BY <2>1, <2>2, <2>3, <2>4
<1>4. 0 .. Len(s) \subseteq T
  <2> HIDE DEF T
  <2> QED
    BY <1>0, <1>2, <1>3, CountingUp
<1>5. SumsOf(s)[n + 1] <= SumOf(s)
  <2>1. Len(s) \in 0 .. Len(s)
    BY <1>0
  <2> QED
    BY <1>0, <1>4, <2>1 DEF SumOf
<1>6. n \in 0 .. Len(s)
  BY <1>0
<1> QED
  BY <1>1, <1>5, <1>6, SumOfType

(* This recursive function is what its definition says, too. *)
LEMMA NormalizingDefined ==
  ASSUME NEW S, NEW list \in Seq(S), NEW budget
  PROVE  \A n \in 0 .. Len(list) :
           Normalizing(budget, list)[n] =
             IF n = 0 THEN [fits |-> TRUE, texts |-> <<>>, bytes |-> 0]
             ELSE NormalizeEntry(budget, Normalizing(budget, list)[n - 1], list[n])
<1> DEFINE N == Len(list)
           Value(f, n) == IF n = 0 THEN [fits |-> TRUE, texts |-> <<>>, bytes |-> 0]
                          ELSE NormalizeEntry(budget, f[n - 1], list[n])
           Solves(f, n) == f = [i \in 0 .. n |-> Value(f, i)]
           P == {n \in 0 .. N : \E f : Solves(f, n)}
<1>1. 0 \in P
  <2>1. Solves([i \in 0 .. 0 |-> [fits |-> TRUE, texts |-> <<>>, bytes |-> 0]], 0)
    OBVIOUS
  <2> HIDE DEF Solves
  <2> QED
    BY <2>1
<1>2. ASSUME NEW n \in 0 .. N, n < N, n \in P PROVE n + 1 \in P
  <2>1. PICK f : Solves(f, n)
    BY <1>2
  <2> DEFINE g == [i \in 0 .. (n + 1) |-> Value(f, i)]
  <2>2. ASSUME NEW i \in 0 .. (n + 1) PROVE Value(g, i) = Value(f, i)
    <3>1. CASE i = 0
      BY <3>1
    <3>2. CASE i # 0
      <4>1. i - 1 \in 0 .. n /\ i - 1 \in 0 .. (n + 1)
        BY <3>2
      <4>2. f[i - 1] = Value(f, i - 1) /\ g[i - 1] = Value(f, i - 1)
        <5> HIDE DEF Value
        <5> QED
          BY <2>1, <4>1
      <4> HIDE DEF g
      <4> QED
        BY <3>2, <4>2
    <3> QED
      BY <3>1, <3>2
  <2>3. Solves(g, n + 1)
    <3> HIDE DEF Value
    <3> QED
      BY <2>2
  <2> HIDE DEF Solves, g
  <2> QED
    BY <1>2, <2>3
<1>3. \E f : Solves(f, N)
  <2>1. N \in P
    <3>1. N \in Nat
      OBVIOUS
    <3> HIDE DEF P, N
    <3>2. 0 .. N \subseteq P
      BY <1>1, <1>2, <3>1, CountingUp
    <3> QED
      BY <3>1, <3>2
  <2> HIDE DEF Solves
  <2> QED
    BY <2>1
<1>4. Normalizing(budget, list) = CHOOSE f : Solves(f, N)
  BY DEF Normalizing
<1>5. Solves(Normalizing(budget, list), N)
  <2> HIDE DEF Solves
  <2> QED
    BY <1>3, <1>4
<1>6. ASSUME NEW n \in 0 .. N
      PROVE  Normalizing(budget, list)[n] = Value(Normalizing(budget, list), n)
  <2> HIDE DEF Value
  <2> QED
    BY <1>5
<1> QED
  BY <1>6

Lens(texts) == [i \in DOMAIN texts |-> Len(texts[i])]

(* What normalization leaves: texts that are not blank, each once, within the *)
(* budget one by one and together.                                           *)
Normal(budget, texts) ==
  /\ texts \in Seq(ToSet(texts))
  /\ \A i \in DOMAIN texts :
       /\ texts[i] # <<>> /\ Len(texts[i]) \in Nat /\ Len(texts[i]) <= budget.entryBytes
       /\ \A j \in DOMAIN texts : texts[i] = texts[j] => i = j
  /\ Len(texts) <= budget.entries /\ SumOf(Lens(texts)) <= budget.bytes

NormalSoFar(budget, kept) ==
  kept.fits => Normal(budget, kept.texts) /\ kept.bytes = SumOf(Lens(kept.texts))

Budget(budget) == {budget.entryBytes, budget.entries, budget.bytes} \subseteq Nat

(* One more entry leaves it so. *)
LEMMA NormalizeEntryFacts ==
  ASSUME NEW budget, Budget(budget), NEW kept, NormalSoFar(budget, kept),
         kept.fits \in BOOLEAN, "fits" \in DOMAIN kept,
         NEW entry, Len(entry.text) \in Nat, entry.blanks \in Nat
  PROVE  /\ NormalSoFar(budget, NormalizeEntry(budget, kept, entry))
         /\ NormalizeEntry(budget, kept, entry).fits \in BOOLEAN
         /\ "fits" \in DOMAIN NormalizeEntry(budget, kept, entry)
<1> DEFINE next == NormalizeEntry(budget, kept, entry)
           grown == [fits |-> /\ Len(kept.texts) < budget.entries
                              /\ kept.bytes + Len(entry.text) <= budget.bytes,
                     texts |-> Append(kept.texts, entry.text),
                     bytes |-> kept.bytes + Len(entry.text)]
<1>1. CASE ~ kept.fits
  BY <1>1 DEF NormalizeEntry
<1>2. CASE kept.fits /\ Length(entry) > budget.entryBytes
  BY <1>2 DEF NormalizeEntry, NormalSoFar
<1>3. CASE /\ kept.fits /\ ~ (Length(entry) > budget.entryBytes)
           /\ entry.text = <<>> \/ Contains(kept.texts, entry.text)
  BY <1>3 DEF NormalizeEntry
<1>4. CASE /\ kept.fits /\ ~ (Length(entry) > budget.entryBytes)
           /\ ~ (entry.text = <<>> \/ Contains(kept.texts, entry.text))
  <2>1. next = grown
    BY <1>4 DEF NormalizeEntry
  <2> HIDE DEF next
  <2>2. grown.fits \in BOOLEAN /\ "fits" \in DOMAIN grown
    OBVIOUS
  <2>3. ASSUME grown.fits PROVE Normal(budget, grown.texts) /\ grown.bytes = SumOf(Lens(grown.texts))
    <3> DEFINE old == kept.texts
               new == Append(old, entry.text)
               S == ToSet(old) \cup {entry.text}
    <3>1. Normal(budget, old) /\ kept.bytes = SumOf(Lens(old))
      BY <1>4 DEF NormalSoFar
    <3>2. /\ old \in Seq(S) /\ entry.text \in S /\ Len(old) \in Nat
          /\ DOMAIN old = 1 .. Len(old)
      <4>1. old \in Seq(ToSet(old))
        BY <3>1 DEF Normal
      <4> QED
        BY <4>1
    <3>3. Len(entry.text) <= budget.entryBytes
      BY <1>4 DEF Length, Budget
    <3>4. \A i \in DOMAIN old : old[i] # entry.text
      BY <1>4 DEF Contains
    <3>5. /\ Len(old) < budget.entries /\ kept.bytes + Len(entry.text) <= budget.bytes
          /\ grown.texts = new /\ grown.bytes = kept.bytes + Len(entry.text)
      BY <2>3
    <3> HIDE DEF S, old
    <3>6. /\ new \in Seq(S) /\ Len(new) = Len(old) + 1 /\ DOMAIN new = 1 .. Len(old) + 1
          /\ \A i \in 1 .. Len(old) : new[i] = old[i]
          /\ new[Len(old) + 1] = entry.text
      BY <3>2, AppendFacts
    <3> HIDE DEF new
    <3>7. Lens(old) \in Seq(Nat) /\ Lens(new) = Append(Lens(old), Len(entry.text))
      <4>1. \A i \in DOMAIN old : Len(old[i]) \in Nat
        BY <3>1 DEF Normal
      <4>2. Lens(old) = [i \in 1 .. Len(old) |-> Len(old[i])]
        BY <3>2 DEF Lens
      <4>3. Lens(old) \in Seq(Nat) /\ Len(Lens(old)) = Len(old)
        BY <3>2, <4>1, <4>2
      <4>4. Lens(new) = [i \in 1 .. Len(old) + 1 |-> Len(new[i])]
        BY <3>6 DEF Lens
      <4>5. Lens(new) \in Seq(Nat) /\ Len(Lens(new)) = Len(old) + 1
        <5>1. \A i \in 1 .. Len(old) + 1 : Len(new[i]) \in Nat
          <6> TAKE i \in 1 .. Len(old) + 1
          <6>1. CASE i \in 1 .. Len(old)
            BY <3>2, <3>6, <4>1, <6>1
          <6>2. CASE i = Len(old) + 1
            BY <3>6, <6>2
          <6> QED
            BY <3>2, <6>1, <6>2
        <5> QED
          BY <3>2, <4>4, <5>1
      <4>6. \A i \in 1 .. Len(old) : Lens(new)[i] = Lens(old)[i]
        BY <3>2, <3>6, <4>2, <4>4
      <4>7. Lens(new)[Len(old) + 1] = Len(entry.text)
        BY <3>2, <3>6, <4>4
      <4> DEFINE a == Lens(old)  b == Lens(new)  e == Len(entry.text)
      <4>8. a \in Seq(Nat) /\ b \in Seq(Nat) /\ e \in Nat /\ Len(b) = Len(a) + 1
            /\ (\A i \in 1 .. Len(a) : b[i] = a[i]) /\ b[Len(a) + 1] = e
        BY <4>3, <4>5, <4>6, <4>7
      <4> HIDE DEF a, b, e
      <4>9. b = Append(a, e)
        BY <4>8
      <4> QED
        BY <4>3, <4>9 DEF a, b, e
    <3>8. SumOf(Lens(new)) = kept.bytes + Len(entry.text)
      BY <3>1, <3>7, SumOfAppend
    <3>9. Normal(budget, new)
      <4>1. new \in Seq(ToSet(new))
        <5>1. \A i \in 1 .. Len(old) + 1 : new[i] \in ToSet(new)
          BY <3>6 DEF ToSet
        <5>2. new = [i \in 1 .. Len(old) + 1 |-> new[i]]
          BY <3>6
        <5> QED
          BY <3>2, <5>1, <5>2
      <4>2. ASSUME NEW i \in DOMAIN new
            PROVE  /\ new[i] # <<>> /\ Len(new[i]) \in Nat /\ Len(new[i]) <= budget.entryBytes
                   /\ \A j \in DOMAIN new : new[i] = new[j] => i = j
        <5>1. \A j \in DOMAIN new : j \in DOMAIN old \/ j = Len(old) + 1
          BY <3>2, <3>6
        <5>2. entry.text # <<>>
          BY <1>4
        <5>3. /\ new[i] # <<>> /\ Len(new[i]) \in Nat /\ Len(new[i]) <= budget.entryBytes
          BY <3>1, <3>2, <3>3, <3>6, <5>1, <5>2 DEF Normal
        <5>4. ASSUME NEW j \in DOMAIN new, new[i] = new[j] PROVE i = j
          <6>1. CASE i \in DOMAIN old /\ j \in DOMAIN old
            BY <3>1, <3>2, <3>6, <5>4, <6>1 DEF Normal
          <6>2. CASE ~ (i \in DOMAIN old /\ j \in DOMAIN old)
            BY <3>2, <3>4, <3>6, <5>1, <5>4, <6>2
          <6> QED
            BY <6>1, <6>2
        <5> QED
          BY <5>3, <5>4
      <4>3. Len(new) <= budget.entries
        BY <3>2, <3>5, <3>6 DEF Budget
      <4> QED
        BY <3>5, <3>8, <4>1, <4>2, <4>3 DEF Normal
    <3> QED
      BY <3>5, <3>8, <3>9
  <2> HIDE DEF grown
  <2>4. NormalSoFar(budget, grown)
    BY <2>3 DEF NormalSoFar
  <2> QED
    BY <2>1, <2>2, <2>4 DEF next
<1> QED
  BY <1>1, <1>2, <1>3, <1>4

(* What is normalized is of that kind. *)
LEMMA NormalizeFacts ==
  ASSUME NEW budget, Budget(budget), NEW list, IsMetadata(list)
  PROVE  NormalSoFar(budget, Normalize(budget, list))
<1> DEFINE kept == Normalizing(budget, list)
           S == {n \in 0 .. Len(list) :
                   /\ NormalSoFar(budget, kept[n]) /\ kept[n].fits \in BOOLEAN
                   /\ "fits" \in DOMAIN kept[n]}
<1>0. list \in Seq(ToSet(list)) /\ Len(list) \in Nat
      /\ \A i \in 1 .. Len(list) : Len(list[i].text) \in Nat /\ list[i].blanks \in Nat
  BY DEF IsMetadata, ToSet
<1>1. 0 \in S
  <2> DEFINE start == [fits |-> TRUE, texts |-> <<>>, bytes |-> 0]
  <2>1. 0 \in 0 .. Len(list)
    BY <1>0
  <2>2. kept[0] = start
    BY <1>0, <2>1, NormalizingDefined
  <2>3. Lens(<<>>) = <<>>
    BY DEF Lens
  <2>4. Normal(budget, <<>>)
    <3>1. <<>> \in Seq(ToSet(<<>>)) /\ DOMAIN <<>> = {} /\ Len(<<>>) = 0
      OBVIOUS
    <3> QED
      BY <2>3, <3>1, SumOfNone DEF Normal, Budget
  <2>5. NormalSoFar(budget, start) /\ start.fits \in BOOLEAN /\ "fits" \in DOMAIN start
    BY <2>3, <2>4, SumOfNone DEF NormalSoFar
  <2> HIDE DEF kept, start
  <2> QED
    BY <2>1, <2>2, <2>5
<1>2. ASSUME NEW n \in 0 .. Len(list), n < Len(list), n \in S PROVE n + 1 \in S
  <2>1. n + 1 \in 0 .. Len(list) /\ n + 1 # 0 /\ (n + 1) - 1 = n /\ n + 1 \in 1 .. Len(list)
    BY <1>0, <1>2
  <2>2. kept[n + 1] = NormalizeEntry(budget, kept[n], list[n + 1])
    <3>1. kept[n + 1] = IF n + 1 = 0 THEN [fits |-> TRUE, texts |-> <<>>, bytes |-> 0]
                        ELSE NormalizeEntry(budget, kept[(n + 1) - 1], list[n + 1])
      BY <1>0, <2>1, NormalizingDefined
    <3> QED
      BY <2>1, <3>1
  <2>3. Len(list[n + 1].text) \in Nat /\ list[n + 1].blanks \in Nat
    BY <1>0, <2>1
  <2> HIDE DEF kept
  <2>4. NormalSoFar(budget, kept[n]) /\ kept[n].fits \in BOOLEAN /\ "fits" \in DOMAIN kept[n]
    BY <1>2
  <2> DEFINE next == NormalizeEntry(budget, kept[n], list[n + 1])
  <2>5. NormalSoFar(budget, next) /\ next.fits \in BOOLEAN /\ "fits" \in DOMAIN next
    BY <2>3, <2>4, NormalizeEntryFacts
  <2> HIDE DEF next
  <2> QED
    BY <2>1, <2>2, <2>5 DEF next
<1>3. 0 .. Len(list) \subseteq S
  <2> HIDE DEF S
  <2> QED
    BY <1>0, <1>1, <1>2, CountingUp
<1>4. Len(list) \in 0 .. Len(list)
  BY <1>0
<1> QED
  BY <1>3, <1>4 DEF Normalize

(* Normalizing such a list again leaves it as it is. *)
LEMMA NormalizeAgain ==
  ASSUME NEW budget, Budget(budget), NEW texts, Normal(budget, texts)
  PROVE  LET again == Normalize(budget, AsEntries(texts)) IN again.fits /\ again.texts = texts
<1> DEFINE list == AsEntries(texts)
           N == Len(texts)
           lens == Lens(texts)
           kept == Normalizing(budget, list)
           Begun(n) == [fits |-> TRUE, texts |-> SubSeq(texts, 1, n), bytes |-> SumsOf(lens)[n]]
           S == {n \in 0 .. N : kept[n] = Begun(n)}
           T == ToSet(texts)
           R == {[text |-> texts[i], blanks |-> 0] : i \in DOMAIN texts}
<1>1. texts \in Seq(T) /\ N \in Nat /\ DOMAIN texts = 1 .. N
  BY DEF Normal
<1>2. /\ list \in Seq(R) /\ Len(list) = N
      /\ \A i \in 1 .. N : list[i] = [text |-> texts[i], blanks |-> 0]
  <2>1. list = [i \in 1 .. N |-> [text |-> texts[i], blanks |-> 0]]
    BY <1>1 DEF AsEntries
  <2>2. \A i \in 1 .. N : [text |-> texts[i], blanks |-> 0] \in R
    BY <1>1
  <2> HIDE DEF list, R
  <2> QED
    BY <1>1, <2>1, <2>2
<1>3. /\ lens \in Seq(Nat) /\ Len(lens) = N /\ \A i \in 1 .. N : lens[i] = Len(texts[i])
  <2>1. lens = [i \in 1 .. N |-> Len(texts[i])]
    BY <1>1 DEF Lens
  <2>2. \A i \in 1 .. N : Len(texts[i]) \in Nat
    BY <1>1 DEF Normal
  <2> QED
    BY <1>1, <2>1, <2>2
<1>4. /\ \A i \in 1 .. N : /\ texts[i] # <<>> /\ Len(texts[i]) \in Nat
                           /\ Len(texts[i]) <= budget.entryBytes
                           /\ \A j \in 1 .. N : texts[i] = texts[j] => i = j
      /\ N <= budget.entries /\ SumOf(lens) <= budget.bytes
  BY <1>1 DEF Normal
<1>5. budget.entryBytes \in Nat /\ budget.entries \in Nat /\ budget.bytes \in Nat
  BY DEF Budget
<1> HIDE DEF N, lens, kept, list, R, T
<1>6. 0 \in S
  <2>1. 0 \in 0 .. Len(list) /\ 0 \in 0 .. Len(lens) /\ 0 \in 0 .. N
    BY <1>1, <1>2, <1>3
  <2>2. kept[0] = [fits |-> TRUE, texts |-> <<>>, bytes |-> 0]
    BY <1>2, <2>1, NormalizingDefined DEF kept
  <2>3. SumsOf(lens)[0] = 0
    BY <1>3, <2>1, SumsDefined
  <2>4. SubSeq(texts, 1, 0) = <<>>
    BY SubSeqEmpty
  <2> QED
    BY <2>1, <2>2, <2>3, <2>4
<1>7. ASSUME NEW n \in 0 .. N, n < N, n \in S PROVE n + 1 \in S
  <2> DEFINE text == texts[n + 1]
             entry == [text |-> text, blanks |-> 0]
  <2>1. /\ n + 1 \in 0 .. N /\ n + 1 # 0 /\ (n + 1) - 1 = n /\ n + 1 \in 1 .. N
        /\ n + 1 \in 0 .. Len(list) /\ n \in Nat /\ n < Len(lens)
    BY <1>1, <1>2, <1>3, <1>7
  <2>2. kept[n + 1] = NormalizeEntry(budget, kept[n], entry)
    <3>1. kept[n + 1] = IF n + 1 = 0 THEN [fits |-> TRUE, texts |-> <<>>, bytes |-> 0]
                        ELSE NormalizeEntry(budget, kept[(n + 1) - 1], list[n + 1])
      BY <1>2, <2>1, NormalizingDefined DEF kept
    <3>2. list[n + 1] = entry
      BY <1>2, <2>1
    <3> QED
      BY <2>1, <3>1, <3>2
  <2>3. kept[n] = Begun(n)
    BY <1>7
  <2>4. /\ SubSeq(texts, 1, n) \in Seq(T) /\ Len(SubSeq(texts, 1, n)) = n
        /\ DOMAIN SubSeq(texts, 1, n) = 1 .. n
        /\ \A i \in 1 .. n : SubSeq(texts, 1, n)[i] = texts[i]
    <3>1. n <= Len(texts)
      BY <1>7 DEF N
    <3>2. /\ SubSeq(texts, 1, n) \in Seq(T) /\ Len(SubSeq(texts, 1, n)) = n
          /\ \A i \in 1 .. n : SubSeq(texts, 1, n)[i] = texts[i]
      BY <1>1, <2>1, <3>1, PrefixFacts
    <3> QED
      BY <3>2
  <2>5. text # <<>> /\ Len(text) \in Nat /\ Len(text) <= budget.entryBytes
    BY <1>4, <2>1
  <2>6. ~ Contains(SubSeq(texts, 1, n), text)
    <3>1. ASSUME NEW i \in 1 .. n PROVE texts[i] # text
      <4>1. i \in 1 .. N /\ i # n + 1
        BY <1>1, <1>7
      <4> QED
        BY <1>4, <2>1, <4>1
    <3> HIDE DEF text
    <3> QED
      BY <2>4, <3>1 DEF Contains
  <2>7. /\ SumsOf(lens)[n + 1] = SumsOf(lens)[n] + Len(text)
        /\ SumsOf(lens)[n + 1] <= budget.bytes
    <3>1. /\ SumsOf(lens)[n + 1] = SumsOf(lens)[n] + lens[n + 1]
          /\ SumsOf(lens)[n + 1] <= SumOf(lens) /\ SumOf(lens) \in Nat
          /\ SumsOf(lens)[n] \in Nat /\ lens[n + 1] \in Nat
      BY <1>3, <2>1, SumsGrow
    <3>2. lens[n + 1] = Len(text)
      BY <1>3, <2>1
    <3> QED
      BY <1>4, <1>5, <3>1, <3>2
  <2>8. n < budget.entries
    BY <1>1, <1>4, <1>5, <1>7
  <2>9. Append(SubSeq(texts, 1, n), text) = SubSeq(texts, 1, n + 1)
    <3>1. n + 1 <= Len(texts)
      BY <1>1, <1>7 DEF N
    <3>2. /\ SubSeq(texts, 1, n + 1) \in Seq(T) /\ Len(SubSeq(texts, 1, n + 1)) = n + 1
          /\ \A i \in 1 .. n + 1 : SubSeq(texts, 1, n + 1)[i] = texts[i]
      BY <1>1, <2>1, <3>1, PrefixFacts
    <3> DEFINE a == SubSeq(texts, 1, n)  b == SubSeq(texts, 1, n + 1)
    <3>3. /\ a \in Seq(T) /\ b \in Seq(T) /\ text \in T /\ Len(b) = Len(a) + 1 /\ Len(a) = n
          /\ (\A i \in 1 .. n : b[i] = a[i]) /\ b[n + 1] = text
      <4>1. text \in T
        BY <1>1, <2>1
      <4> QED
        BY <2>1, <2>4, <3>2, <4>1
    <3> HIDE DEF a, b, text
    <3>4. Append(a, text) = b
      BY <2>1, <3>3
    <3> QED
      BY <3>4 DEF a, b
  <2>10. Length(entry) = Len(text) /\ entry.text = text
    BY <2>5 DEF Length
  <2> HIDE DEF text, entry
  <2>11. NormalizeEntry(budget, Begun(n), entry) = Begun(n + 1)
    <3> DEFINE k == Begun(n)
    <3>1. k.fits = TRUE /\ k.texts = SubSeq(texts, 1, n) /\ k.bytes = SumsOf(lens)[n]
      OBVIOUS
    <3> HIDE DEF k
    <3>2. ~ (Length(entry) > budget.entryBytes)
      BY <1>5, <2>5, <2>10
    <3>3. ~ (entry.text = <<>> \/ Contains(k.texts, entry.text))
      BY <2>5, <2>6, <2>10, <3>1
    <3>4. NormalizeEntry(budget, k, entry) =
            [fits |-> /\ Len(k.texts) < budget.entries /\ k.bytes + Len(text) <= budget.bytes,
             texts |-> Append(k.texts, text), bytes |-> k.bytes + Len(text)]
      BY <2>10, <3>1, <3>2, <3>3 DEF NormalizeEntry
    <3>5. (Len(k.texts) < budget.entries /\ k.bytes + Len(text) <= budget.bytes) = TRUE
      BY <2>4, <2>7, <2>8, <3>1
    <3> QED
      BY <2>7, <2>9, <3>1, <3>4, <3>5 DEF k
  <2> QED
    BY <2>1, <2>2, <2>3, <2>11
<1>8. 0 .. N \subseteq S
  <2> HIDE DEF S
  <2> QED
    BY <1>1, <1>6, <1>7, CountingUp
<1>9. kept[N] = Begun(N)
  <2>1. N \in 0 .. N
    BY <1>1
  <2> QED
    BY <1>8, <2>1
<1>10. Normalize(budget, AsEntries(texts)) = Begun(N)
  BY <1>2, <1>9 DEF Normalize, kept, list
<1>11. SubSeq(texts, 1, N) = texts
  BY <1>1, SubSeqFull DEF N
<1> QED
  BY <1>10, <1>11

(* So a profile that was accepted stays as it is. *)
LEMMA AcceptedStays ==
  ASSUME NEW c \in Contents, Accepted(c.document), NEW field \in Fields
  PROVE  /\ ~ ProfileOf(c.document).bundled
         /\ LET texts == ProfileOf(c.document)[field]
                again == Normalize(ProfileBudget[field], AsEntries(texts))
            IN again.fits /\ again.texts = texts
<1> DEFINE kept == Normalize(ProfileBudget[field], c.document[field])
<1>1. IsMetadata(c.document[field]) /\ Budget(ProfileBudget[field])
  BY LoadingAssumptions DEF Accepted, Budget
<1>2. ~ ProfileOf(c.document).bundled /\ ProfileOf(c.document)[field] = kept.texts /\ kept.fits
  BY DEF Accepted, ProfileOf, Fields
<1>3. Normal(ProfileBudget[field], kept.texts)
  BY <1>1, <1>2, NormalizeFacts DEF NormalSoFar
<1> HIDE DEF kept
<1>4. LET again == Normalize(ProfileBudget[field], AsEntries(kept.texts))
      IN  again.fits /\ again.texts = kept.texts
  BY <1>1, <1>3, NormalizeAgain
<1> QED
  BY <1>2, <1>4

-----------------------------------------------------------------------------
(* The files of the user are read. *)

(* The inductive invariant of a load.  That no profile is lost is a property *)
(* of its end; up to there, of the files found, those no longer to be        *)
(* inserted have theirs kept and come before those still to be inserted.     *)
LoadInv == LoadingTypeOK /\ LoadKeepsBudgets /\ LoadsInOrder

Source == [path : ToSet(ProfileFiles), content : Contents]

(* The paths of profiles.d, each once. *)
LEMMA FileFacts ==
  /\ ProfileFiles \in Seq(ToSet(ProfileFiles)) /\ DOMAIN ProfileFiles \subseteq Nat
  /\ \A i \in DOMAIN ProfileFiles : ProfileFiles[i] \in ToSet(ProfileFiles)
  /\ ToSet(ProfileFiles) \subseteq Paths
  /\ \A i, j \in DOMAIN ProfileFiles : ProfileFiles[i] = ProfileFiles[j] => i = j
  /\ \A p \in ToSet(ProfileFiles) : \E i \in DOMAIN ProfileFiles : ProfileFiles[i] = p
<1>1. ProfileFiles \in Seq(ToSet(ProfileFiles))
  BY LoadingAssumptions
<1>2. DOMAIN ProfileFiles \subseteq Nat
  BY <1>1
<1> QED
  BY <1>1, <1>2, LoadingAssumptions DEF ToSet, Paths

(* Of two paths the one with the smaller index comes first. *)
LEMMA BeforeFacts ==
  /\ \A i, j \in DOMAIN ProfileFiles : Before(ProfileFiles[i], ProfileFiles[j]) <=> i < j
  /\ \A p, q : Before(p, q) => p # q
BY FileFacts DEF Before

(* The types of what was read. *)
LEMMA TypeFacts ==
  ASSUME LoadingTypeOK
  PROVE  /\ sources \in Seq(Source) /\ Len(sources) \in Nat /\ DOMAIN sources = 1 .. Len(sources)
         /\ Read \subseteq ToSet(ProfileFiles) /\ Unread \subseteq DOMAIN ProfileFiles
         /\ \A i \in DOMAIN sources :
              /\ sources[i].path \in ToSet(ProfileFiles) /\ sources[i].path \in Paths
              /\ sources[i].content \in Contents /\ sources[i].content.size \in Nat
<1>1. sources \in Seq(Source)
  BY DEF LoadingTypeOK, Source
<1>2. \A s \in Source : s.path \in ToSet(ProfileFiles) /\ s.content \in Contents
  BY DEF Source
<1>3. Len(sources) \in Nat /\ DOMAIN sources = 1 .. Len(sources)
      /\ \A i \in DOMAIN sources : sources[i] \in Source
  BY <1>1
<1> QED
  BY <1>1, <1>2, <1>3, FileFacts, LoadingAssumptions DEF Read, Unread

(* The invariant of a load holds at its start. *)
LEMMA LoadingInitInv == LoadingInit => LoadInv
<1> SUFFICES ASSUME LoadingInit PROVE LoadInv
  OBVIOUS
<1>1. LoadingTypeOK
  <2>1. <<>> \in Seq([path : ToSet(ProfileFiles), content : Contents])
    OBVIOUS
  <2>2. shown \in [Paths -> SUBSET (Contents \cup {Missing})]
    BY DEF LoadingInit
  <2>3. 0 \in 0 .. MaxEdits /\ 0 \in Nat
    BY LoadingAssumptions
  <2> QED
    BY <2>1, <2>2, <2>3, LoadingAssumptions DEF LoadingInit, LoadingTypeOK, Stages
<1>2. LoadKeepsBudgets
  BY LoadingAssumptions, BundledAssumption DEF LoadingInit, LoadKeepsBudgets
<1>3. Cardinality(entries) <= MaxFiles
  BY LoadingAssumptions, FS_EmptySet DEF LoadingInit
<1>4. Read = {}
  BY DEF Read, LoadingInit
<1> QED
  BY <1>1, <1>2, <1>3, <1>4
  DEF LoadInv, LoadsInOrder, FindsFiles, ReadsInOrder, InsertsInOrder, NoneMadeUp, LoadingInit

(* A load that fails leaves the store as it was. *)
LEMMA FailedLoads ==
  ASSUME LoadInv, LoadingTypeOK', loading' = "failed", UNCHANGED <<shown, store>>,
         Len(sources') <= MaxFiles
  PROVE  LoadInv'
<1>1. LoadKeepsBudgets'
  <2>1. WithinStore(store)
    BY DEF LoadInv, LoadKeepsBudgets
  <2> QED
    BY <2>1 DEF LoadKeepsBudgets
<1>2. NoneMadeUp'
  BY DEF LoadInv, LoadsInOrder, NoneMadeUp
<1>3. FindsFiles' /\ ReadsInOrder' /\ InsertsInOrder'
  BY DEF FindsFiles, ReadsInOrder, InsertsInOrder
<1> QED
  BY <1>1, <1>2, <1>3 DEF LoadInv, LoadsInOrder

(* Min names that least number. *)
LEMMA LeastIsIn ==
  ASSUME NEW T \in SUBSET Nat, T # {}
  PROVE  Min(T) \in T /\ \A k \in T : Min(T) <= k
<1>1. PICK n \in T : \A k \in T : n <= k
  BY LeastNatural
<1> QED
  BY <1>1 DEF Min

(* A directory is finite. *)
LEMMA FilesAreFinite == IsFiniteSet(ToSet(ProfileFiles))
<1> DEFINE n == Len(ProfileFiles)
<1>1. n \in Nat /\ DOMAIN ProfileFiles = 1 .. n
  BY LoadingAssumptions
<1>2. IsFiniteSet(1 .. n)
  BY <1>1, FS_Interval
<1>3. ProfileFiles \in Surjection(1 .. n, ToSet(ProfileFiles))
  BY <1>1, FileFacts DEF Surjection, ToSet
<1> HIDE DEF n
<1> QED
  BY <1>2, <1>3, FS_Surjection

(* An edit may add to what a path has shown. *)
LEMMA EditLoads ==
  ASSUME LoadInv, NEW path \in Paths, NEW content \in Contents \cup {Missing}, Edit(path, content)
  PROVE  LoadInv'
<1>1. /\ disk' = [disk EXCEPT ![path] = content]
      /\ shown' = IF loading \in {"listing", "reading"}
                  THEN [shown EXCEPT ![path] = @ \cup {content}] ELSE shown
      /\ edits' = edits + 1 /\ edits < MaxEdits /\ UNCHANGED <<loading, readVars, store>>
  BY DEF Edit
<1>2. LoadingTypeOK /\ MaxEdits \in Nat
  BY LoadingAssumptions DEF LoadInv
<1>3. /\ unlisted' = unlisted /\ listed' = listed /\ entries' = entries /\ opened' = opened
      /\ sources' = sources /\ total' = total /\ overlay' = overlay /\ unchecked' = unchecked
      /\ loading' = loading /\ store' = store
  BY <1>1 DEF readVars
<1>4. shown' \in [Paths -> SUBSET (Contents \cup {Missing})]
      /\ \A p \in Paths : shown[p] \subseteq shown'[p]
  BY <1>1, <1>2 DEF LoadingTypeOK
<1>5. LoadingTypeOK'
  BY <1>1, <1>2, <1>3, <1>4 DEF LoadingTypeOK
<1>6. LoadKeepsBudgets'
  BY <1>3 DEF LoadInv, LoadKeepsBudgets
<1>7. Read' = Read /\ Unread' = Unread /\ NextPath' = NextPath /\ ToRead' = ToRead
  BY <1>3 DEF Read, Unread, NextPath, ToRead
<1>8. FindsFiles'
  <2>1. FindsFiles
    BY DEF LoadInv, LoadsInOrder
  <2>2. loading \in {"listing", "reading"} => \A p \in Paths : disk'[p] \in shown'[p]
    BY <1>1, <1>2, <2>1 DEF FindsFiles, LoadingTypeOK
  <2>3. ToSet(ProfileFiles) \subseteq Paths
    BY FileFacts
  <2>4. \A p \in ToSet(ProfileFiles) : Missing \notin shown'[p] => Missing \notin shown[p]
    BY <1>4, <2>3
  <2> QED
    BY <1>3, <2>1, <2>2, <2>4 DEF FindsFiles
<1>9. ReadsInOrder'
  <2>1. ReadsInOrder
    BY DEF LoadInv, LoadsInOrder
  <2>2. \A i \in DOMAIN sources : shown[sources[i].path] \subseteq shown'[sources[i].path]
    BY <1>2, <1>4, TypeFacts
  <2>3. loading = "reading" /\ opened # None => shown[NextPath] \subseteq shown'[NextPath]
    <3> SUFFICES ASSUME loading = "reading", opened # None PROVE NextPath \in Paths
      BY <1>4
    <3>1. Unread # {} /\ Unread \subseteq DOMAIN ProfileFiles
      BY <1>2, <2>1, TypeFacts DEF ReadsInOrder, ToRead
    <3>2. Min(Unread) \in Unread
      BY <3>1, FileFacts, LeastIsIn
    <3> QED
      BY <3>1, <3>2, FileFacts DEF NextPath
  <2> QED
    BY <1>3, <1>7, <2>1, <2>2, <2>3 DEF ReadsInOrder
<1>10. InsertsInOrder'
  <2>1. CASE loading \in {"listing", "reading"}
    BY <1>3, <2>1 DEF InsertsInOrder
  <2>2. CASE loading \notin {"listing", "reading"}
    <3>1. shown' = shown
      BY <1>1, <2>2
    <3> QED
      BY <1>3, <1>7, <3>1
      DEF LoadInv, LoadsInOrder, InsertsInOrder, Kept, Holds, Snapshot
  <2> QED
    BY <2>1, <2>2
<1>11. NoneMadeUp'
  <2>1. NoneMadeUp
    BY DEF LoadInv, LoadsInOrder
  <2>2. \A i \in DOMAIN ProfileFiles : shown[ProfileFiles[i]] \subseteq shown'[ProfileFiles[i]]
    BY <1>4, FileFacts
  <2> QED
    BY <1>3, <2>1, <2>2 DEF NoneMadeUp
<1> QED
  BY <1>5, <1>6, <1>8, <1>9, <1>10, <1>11 DEF LoadInv, LoadsInOrder

(* An entry that is looked at is found unless it was missing just then. *)
LEMMA SeeEntryLoads ==
  ASSUME LoadInv, NEW path \in Paths, SeeEntry(path) PROVE LoadInv'
<1> DEFINE kept == IF disk[path] = Missing THEN entries ELSE entries \cup {path}
<1>1. /\ loading = "listing" /\ path \in unlisted /\ unlisted' = unlisted \ {path}
      /\ IF listed' > MaxEntries \/ Cardinality(kept) > MaxFiles
         THEN loading' = "failed" /\ entries' = entries
         ELSE entries' = kept /\ loading' = loading
      /\ disk' = disk /\ edits' = edits /\ opened' = opened /\ sources' = sources
      /\ total' = total /\ overlay' = overlay /\ unchecked' = unchecked /\ store' = store
      /\ shown' = shown
  BY DEF SeeEntry, FailLoad
<1>2. LoadingTypeOK
  BY DEF LoadInv
<1>3. path \in ToSet(ProfileFiles) /\ kept \subseteq ToSet(ProfileFiles)
  BY <1>1, <1>2 DEF LoadingTypeOK
<1>4. LoadingTypeOK'
  BY <1>1, <1>2, <1>3 DEF LoadingTypeOK, Stages
<1>5. Len(sources) <= MaxFiles
  BY DEF LoadInv, LoadKeepsBudgets
<1>6. CASE loading' = "failed"
  BY <1>1, <1>4, <1>5, <1>6, FailedLoads
<1>7. CASE loading' # "failed"
  <2>1. entries' = kept /\ ~ (Cardinality(kept) > MaxFiles) /\ loading' = "listing"
    BY <1>1, <1>7
  <2>2. Cardinality(entries') <= MaxFiles
    <3>1. Cardinality(kept) \in Nat
      <4>1. IsFiniteSet(ToSet(ProfileFiles))
        BY FilesAreFinite
      <4> QED
        BY <1>3, <4>1, FS_Subset, FS_CardinalityType
    <3> QED
      BY <2>1, <3>1, LoadingAssumptions
  <2>3. FindsFiles /\ ReadsInOrder
    BY DEF LoadInv, LoadsInOrder
  <2>4. FindsFiles'
    <3>1. ASSUME NEW p \in ToSet(ProfileFiles) \ unlisted', Missing \notin shown[p]
          PROVE  p \in entries'
      <4>1. CASE p = path
        <5>1. disk[path] \in shown[path]
          BY <1>1, <2>3 DEF FindsFiles
        <5> QED
          BY <2>1, <3>1, <4>1, <5>1
      <4>2. CASE p # path
        BY <1>1, <2>1, <2>3, <3>1, <4>2 DEF FindsFiles
      <4> QED
        BY <4>1, <4>2
    <3> QED
      BY <1>1, <2>1, <2>2, <2>3, <3>1 DEF FindsFiles
  <2>5. Read = {} /\ Read' = {} /\ sources = <<>>
    BY <1>1, <2>3 DEF FindsFiles, Read
  <2>6. ReadsInOrder'
    BY <1>1, <2>1, <2>3, <2>5 DEF ReadsInOrder, ToRead
  <2>7. InsertsInOrder' /\ NoneMadeUp' /\ LoadKeepsBudgets'
    BY <1>1, <2>1
    DEF LoadInv, LoadsInOrder, InsertsInOrder, NoneMadeUp, LoadKeepsBudgets
  <2> QED
    BY <1>4, <2>4, <2>6, <2>7 DEF LoadInv, LoadsInOrder
<1> QED
  BY <1>6, <1>7

(* Nothing was read while the directory was listed. *)
LEMMA EndListingLoads == ASSUME LoadInv, EndListing PROVE LoadInv'
<1>1. /\ loading = "listing" /\ unlisted = {} /\ loading' = "reading"
      /\ disk' = disk /\ edits' = edits /\ store' = store /\ shown' = shown
      /\ unlisted' = unlisted /\ listed' = listed /\ entries' = entries /\ opened' = opened
      /\ sources' = sources /\ total' = total /\ overlay' = overlay /\ unchecked' = unchecked
  BY DEF EndListing, readVars
<1>2. FindsFiles /\ ReadsInOrder /\ LoadingTypeOK /\ NoneMadeUp /\ LoadKeepsBudgets
  BY DEF LoadInv, LoadsInOrder
<1>3. sources = <<>> /\ total = 0 /\ opened = None /\ Read' = {}
  BY <1>1, <1>2 DEF FindsFiles, ReadsInOrder, ToRead, Read
<1>4. LoadingTypeOK'
  BY <1>1, <1>2 DEF LoadingTypeOK, Stages
<1>5. LoadKeepsBudgets'
  <2>1. [i \in DOMAIN sources |-> sources[i].content.size] = <<>>
    BY <1>3
  <2> QED
    BY <1>1, <1>2, <1>3, <2>1, SumOfNone, LoadingAssumptions DEF LoadKeepsBudgets
<1>6. FindsFiles'
  BY <1>1, <1>2 DEF FindsFiles
<1>7. ReadsInOrder' /\ InsertsInOrder' /\ NoneMadeUp'
  BY <1>1, <1>2, <1>3 DEF ReadsInOrder, InsertsInOrder, NoneMadeUp
<1> QED
  BY <1>4, <1>5, <1>6, <1>7 DEF LoadInv, LoadsInOrder

(* The files that were read are among those found, each once. *)
LEMMA SourcesAreFound ==
  ASSUME NEW list \in Seq(Source), NEW found \in SUBSET ToSet(ProfileFiles),
         \A i \in DOMAIN list : list[i].path \in found,
         \A i, j \in DOMAIN list : i < j => Before(list[i].path, list[j].path)
  PROVE  Len(list) <= Cardinality(found)
<1> DEFINE n == Len(list)
           path == [i \in 1 .. n |-> list[i].path]
<1>1. n \in Nat /\ DOMAIN list = 1 .. n
  OBVIOUS
<1>2. path \in Injection(1 .. n, found)
  <2>1. path \in [1 .. n -> found]
    BY <1>1
  <2>2. ASSUME NEW i \in 1 .. n, NEW j \in 1 .. n, path[i] = path[j] PROVE i = j
    <3>1. ~ (i < j) /\ ~ (j < i)
      BY <1>1, <2>2, BeforeFacts
    <3> QED
      BY <1>1, <3>1
  <2> HIDE DEF n, path
  <2> QED
    BY <2>1, <2>2 DEF Injection, IsInjective
<1>3. IsFiniteSet(found)
  BY FilesAreFinite, FS_Subset
<1>4. n <= Cardinality(found)
  <2>1. Cardinality(1 .. n) <= Cardinality(found)
    <3> HIDE DEF n, path
    <3> QED
      BY <1>2, <1>3, FS_Injection
  <2>2. Cardinality(1 .. n) = n
    <3> HIDE DEF n
    <3> QED
      BY <1>1, FS_Interval
  <2> QED
    BY <2>1, <2>2
<1> QED
  BY <1>4

(* The next file to read is the first of those left. *)
LEMMA NextIsFirst ==
  ASSUME LoadingTypeOK, loading = "reading", Unread # {}
  PROVE  \E m \in Unread : /\ NextPath = ProfileFiles[m] /\ \A i \in Unread : m <= i
                           /\ NextPath \in ToSet(ProfileFiles) /\ NextPath \in Paths
<1>1. Unread \in SUBSET DOMAIN ProfileFiles
  BY TypeFacts
<1>2. Min(Unread) \in Unread /\ \A i \in Unread : Min(Unread) <= i
  BY <1>1, FileFacts, LeastIsIn
<1> QED
  BY <1>1, <1>2, FileFacts DEF NextPath

(* What is opened is what the path holds. *)
LEMMA OpenPathLoads == ASSUME LoadInv, OpenPath PROVE LoadInv'
<1>1. /\ ToRead /\ opened = None
      /\ IF disk[NextPath] = Missing \/ disk[NextPath].size > MaxFileBytes
         THEN loading' = "failed" /\ opened' = opened
         ELSE opened' = disk[NextPath] /\ loading' = loading
      /\ disk' = disk /\ edits' = edits /\ store' = store /\ shown' = shown
      /\ unlisted' = unlisted /\ listed' = listed /\ entries' = entries
      /\ sources' = sources /\ total' = total /\ overlay' = overlay /\ unchecked' = unchecked
  BY DEF OpenPath, FailLoad
<1>2. LoadingTypeOK /\ LoadKeepsBudgets /\ FindsFiles /\ ReadsInOrder /\ InsertsInOrder
      /\ NoneMadeUp
  BY DEF LoadInv, LoadsInOrder
<1>3. NextPath \in Paths
  <2>1. CASE loading = "reading"
    BY <1>1, <1>2, <2>1, NextIsFirst DEF ToRead
  <2>2. CASE loading # "reading"
    <3>1. unchecked \in Seq(ToSet(OverlayFiles)) /\ unchecked # <<>>
      BY <1>1, <1>2, <2>2 DEF ToRead, LoadingTypeOK
    <3>2. Head(unchecked) \in ToSet(OverlayFiles)
      BY <3>1
    <3> QED
      BY <2>2, <3>2 DEF NextPath, Paths
  <2> QED
    BY <2>1, <2>2
<1>4. opened' # opened => opened' \in Contents
  BY <1>1, <1>2, <1>3 DEF LoadingTypeOK
<1>5. LoadingTypeOK'
  BY <1>1, <1>2, <1>4 DEF LoadingTypeOK, Stages
<1>6. CASE loading' = "failed"
  BY <1>1, <1>2, <1>5, <1>6, FailedLoads DEF LoadKeepsBudgets
<1>7. CASE loading' # "failed"
  <2>1. loading' = loading /\ opened' = disk[NextPath] /\ opened' # Missing
    BY <1>1, <1>7
  <2>2. Read' = Read /\ Unread' = Unread /\ NextPath' = NextPath /\ ToRead'
    BY <1>1, <2>1 DEF Read, Unread, NextPath, ToRead
  <2>3. LoadKeepsBudgets' /\ NoneMadeUp' /\ InsertsInOrder'
    BY <1>1, <1>2, <2>1, <2>2
    DEF LoadKeepsBudgets, NoneMadeUp, InsertsInOrder, Kept, Holds, Snapshot
  <2>4. loading # "listing"
    BY <1>1 DEF ToRead
  <2>5. FindsFiles'
    BY <1>1, <1>2, <2>1, <2>4 DEF FindsFiles
  <2>6. loading = "reading" => opened' \in shown[NextPath] /\ Unread # {}
    BY <1>1, <1>2, <1>3, <2>1 DEF FindsFiles, ToRead
  <2>7. ReadsInOrder'
    BY <1>1, <1>2, <2>1, <2>2, <2>6 DEF ReadsInOrder
  <2> QED
    BY <1>5, <2>3, <2>5, <2>7 DEF LoadInv, LoadsInOrder
<1> QED
  BY <1>6, <1>7

(* What is read comes after all that was read before, and before the rest. *)
LEMMA ReadSourceLoads == ASSUME LoadInv, ReadSource PROVE LoadInv'
<1>1. /\ loading = "reading" /\ opened # None /\ opened' = None
      /\ disk' = disk /\ edits' = edits /\ store' = store /\ shown' = shown
      /\ unlisted' = unlisted /\ listed' = listed /\ entries' = entries
      /\ overlay' = overlay /\ unchecked' = unchecked
  BY DEF ReadSource
<1>2. LoadingTypeOK /\ LoadKeepsBudgets /\ FindsFiles /\ ReadsInOrder /\ InsertsInOrder
      /\ NoneMadeUp
  BY DEF LoadInv, LoadsInOrder
<1>3. PICK content \in ReadNow :
        IF content.size > MaxFileBytes \/ Charge(content) > MaxBytes
        THEN loading' = "failed" /\ sources' = sources /\ total' = total
        ELSE /\ sources' = Append(sources, [path |-> NextPath, content |-> content])
             /\ total' = Charge(content)
             /\ loading' = loading
  BY DEF ReadSource, FailLoad
<1>4. Unread # {} /\ opened \in shown[NextPath] \ {Missing}
  BY <1>1, <1>2 DEF ReadsInOrder, ToRead
<1>5. PICK m \in Unread : /\ NextPath = ProfileFiles[m] /\ \A i \in Unread : m <= i
                          /\ NextPath \in ToSet(ProfileFiles) /\ NextPath \in Paths
  BY <1>1, <1>2, <1>4, NextIsFirst
<1>6. content \in shown[NextPath] \ {Missing} /\ content \in Contents
  BY <1>1, <1>2, <1>4, <1>5 DEF ReadNow, FindsFiles, LoadingTypeOK
<1>7. CASE loading' = "failed"
  <2>1. sources' = sources /\ total' = total
    BY <1>1, <1>3, <1>7
  <2>2. LoadingTypeOK'
    BY <1>1, <1>2, <1>7, <2>1 DEF LoadingTypeOK, Stages
  <2> QED
    BY <1>1, <1>2, <1>7, <2>1, <2>2, FailedLoads DEF LoadKeepsBudgets
<1>8. CASE loading' # "failed"
  <2> DEFINE s == [path |-> NextPath, content |-> content]
             n == Len(sources)
  <2>1. /\ sources' = Append(sources, s) /\ total' = total + content.size
        /\ loading' = "reading" /\ ~ (total + content.size > MaxBytes)
    BY <1>1, <1>3, <1>8 DEF Charge
  <2>2. /\ sources \in Seq(Source) /\ n \in Nat /\ DOMAIN sources = 1 .. n
        /\ s \in Source /\ s.path = NextPath /\ s.content = content /\ content.size \in Nat
        /\ Unread \subseteq DOMAIN ProfileFiles
        /\ \A i \in DOMAIN sources : sources[i].content.size \in Nat
    BY <1>2, <1>5, <1>6, TypeFacts, LoadingAssumptions DEF Source
  <2> HIDE DEF s, n
  <2>3. /\ sources' \in Seq(Source) /\ DOMAIN sources' = 1 .. n + 1 /\ Len(sources') = n + 1
        /\ \A i \in 1 .. n : sources'[i] = sources[i]
        /\ sources'[n + 1] = s
    BY <2>1, <2>2 DEF n
  <2>4. Read' = Read \cup {NextPath}
    BY <2>2, <2>3 DEF Read
  <2>5. LoadingTypeOK'
    <3>1. total' \in Nat
      BY <1>2, <2>1, <2>2 DEF LoadingTypeOK
    <3> QED
      BY <1>1, <1>2, <2>1, <2>3, <3>1 DEF LoadingTypeOK, Source, Stages
  <2>6. ReadsInOrder'
    <3>1. Unread' = {i \in DOMAIN ProfileFiles : ProfileFiles[i] \in entries \ Read'}
      BY <1>1 DEF Unread
    <3>2. \A i \in Unread' : i \in Unread /\ i # m
      BY <1>5, <2>4, <3>1 DEF Unread
    <3>3. ASSUME NEW i \in Unread', NEW p \in Read' PROVE Before(p, ProfileFiles[i])
      <4>1. CASE p \in Read
        BY <1>1, <1>2, <3>2, <4>1 DEF ReadsInOrder
      <4>2. CASE p = NextPath
        <5>1. m < i
          BY <1>5, <2>2, <3>2, FileFacts
        <5> QED
          BY <1>5, <2>2, <3>2, <4>2, <5>1, BeforeFacts
      <4> QED
        BY <2>4, <4>1, <4>2
    <3>4. Read' \subseteq entries
      BY <1>1, <1>2, <1>5, <2>4 DEF ReadsInOrder, Unread
    <3>5. ASSUME NEW i \in DOMAIN sources'
          PROVE  sources'[i].content \in shown[sources'[i].path] \ {Missing}
      <4>1. CASE i = n + 1
        BY <1>6, <2>2, <2>3, <4>1
      <4>2. CASE i \in 1 .. n
        BY <1>1, <1>2, <2>2, <2>3, <4>2 DEF ReadsInOrder
      <4> QED
        BY <2>2, <2>3, <4>1, <4>2
    <3>6. ASSUME NEW i \in DOMAIN sources', NEW j \in DOMAIN sources', i < j
          PROVE  Before(sources'[i].path, sources'[j].path)
      <4>1. i \in 1 .. n
        BY <2>2, <2>3, <3>6
      <4>2. sources'[i].path = sources[i].path /\ sources[i].path \in Read
        BY <2>2, <2>3, <4>1 DEF Read
      <4>3. CASE j = n + 1
        BY <1>1, <1>2, <1>5, <2>2, <2>3, <4>2, <4>3 DEF ReadsInOrder
      <4>4. CASE j \in 1 .. n
        BY <1>1, <1>2, <2>2, <2>3, <3>6, <4>1, <4>4 DEF ReadsInOrder
      <4> QED
        BY <2>2, <2>3, <4>3, <4>4
    <3> QED
      BY <1>1, <2>1, <3>3, <3>4, <3>5, <3>6 DEF ReadsInOrder
  <2>7. FindsFiles'
    BY <1>1, <1>2, <2>1 DEF FindsFiles
  <2>8. LoadKeepsBudgets'
    <3> DEFINE sizes == [i \in DOMAIN sources |-> sources[i].content.size]
    <3>1. sizes \in Seq(Nat) /\ Len(sizes) = n
      BY <2>2
    <3>2. [i \in DOMAIN sources' |-> sources'[i].content.size] = Append(sizes, content.size)
      <4>1. /\ Append(sizes, content.size) \in Seq(Nat)
            /\ Len(Append(sizes, content.size)) = n + 1
            /\ DOMAIN Append(sizes, content.size) = 1 .. n + 1
            /\ \A i \in 1 .. n : Append(sizes, content.size)[i] = sources[i].content.size
            /\ Append(sizes, content.size)[n + 1] = content.size
        BY <2>2, <3>1
      <4>2. \A i \in 1 .. n + 1 : sources'[i].content.size = Append(sizes, content.size)[i]
        BY <2>2, <2>3, <4>1
      <4>3. Append(sizes, content.size)
              = [i \in 1 .. n + 1 |-> Append(sizes, content.size)[i]]
        BY <4>1
      <4> HIDE DEF sizes
      <4> QED
        BY <2>3, <4>2, <4>3
    <3>3. total' = SumOf([i \in DOMAIN sources' |-> sources'[i].content.size])
      <4>1. total = SumOf(sizes)
        BY <1>1, <1>2 DEF LoadKeepsBudgets
      <4> HIDE DEF sizes
      <4> QED
        BY <2>1, <2>2, <3>1, <3>2, <4>1, SumOfAppend
    <3>4. Len(sources') <= MaxFiles
      <4>1. \A i \in DOMAIN sources' : sources'[i].path \in entries
        BY <1>1, <2>1, <2>6 DEF ReadsInOrder, Read
      <4>2. \A i, j \in DOMAIN sources' : i < j => Before(sources'[i].path, sources'[j].path)
        BY <2>1, <2>6 DEF ReadsInOrder
      <4>3. Len(sources') <= Cardinality(entries)
        BY <1>2, <2>3, <4>1, <4>2, SourcesAreFound DEF LoadingTypeOK
      <4>4. Cardinality(entries) <= MaxFiles /\ Cardinality(entries) \in Nat
        BY <1>1, <1>2, FilesAreFinite, FS_Subset, FS_CardinalityType
        DEF FindsFiles, LoadingTypeOK
      <4> QED
        BY <2>2, <2>3, <4>3, <4>4, LoadingAssumptions
    <3>5. total' <= MaxBytes
      BY <1>2, <2>1, <2>2, LoadingAssumptions DEF LoadingTypeOK
    <3> QED
      BY <1>1, <1>2, <3>3, <3>4, <3>5 DEF LoadKeepsBudgets
  <2>9. InsertsInOrder' /\ NoneMadeUp'
    BY <1>1, <1>2, <2>1 DEF InsertsInOrder, NoneMadeUp
  <2> QED
    BY <2>5, <2>6, <2>7, <2>8, <2>9 DEF LoadInv, LoadsInOrder
<1> QED
  BY <1>7, <1>8

(* All files found were read. *)
LEMMA EndReadingLoads == ASSUME LoadInv, EndReading PROVE LoadInv'
<1>1. /\ loading = "reading" /\ Unread = {} /\ loading' = "parsing"
      /\ disk' = disk /\ edits' = edits /\ store' = store /\ shown' = shown
      /\ unlisted' = unlisted /\ listed' = listed /\ entries' = entries /\ opened' = opened
      /\ sources' = sources /\ total' = total /\ overlay' = overlay /\ unchecked' = unchecked
  BY DEF EndReading, readVars
<1>2. LoadingTypeOK /\ LoadKeepsBudgets /\ FindsFiles /\ ReadsInOrder /\ NoneMadeUp
  BY DEF LoadInv, LoadsInOrder
<1>3. Read' = Read /\ opened' = None
  BY <1>1, <1>2 DEF Read, ReadsInOrder, ToRead
<1>6. ASSUME NEW p \in entries PROVE p \in Read
  <2>1. PICK i \in DOMAIN ProfileFiles : ProfileFiles[i] = p
    BY <1>2, FileFacts DEF LoadingTypeOK
  <2> QED
    BY <1>1, <2>1 DEF Unread
<1>4. LoadingTypeOK' /\ LoadKeepsBudgets' /\ FindsFiles' /\ NoneMadeUp' /\ InsertsInOrder'
  BY <1>1, <1>2
  DEF LoadingTypeOK, Stages, LoadKeepsBudgets, FindsFiles, NoneMadeUp, InsertsInOrder
<1>5. ReadsInOrder'
  BY <1>1, <1>2, <1>3, <1>6 DEF ReadsInOrder
<1> QED
  BY <1>4, <1>5 DEF LoadInv, LoadsInOrder

(* All of them parse, or none is inserted. *)
LEMMA ParseSourcesLoads == ASSUME LoadInv, ParseSources PROVE LoadInv'
<1>1. /\ loading = "parsing"
      /\ loading' = IF \A i \in DOMAIN sources : Accepted(Snapshot(sources[i]))
                    THEN "inserting" ELSE "failed"
      /\ disk' = disk /\ edits' = edits /\ store' = store /\ shown' = shown
      /\ unlisted' = unlisted /\ listed' = listed /\ entries' = entries /\ opened' = opened
      /\ sources' = sources /\ total' = total /\ overlay' = overlay /\ unchecked' = unchecked
  BY DEF ParseSources, readVars
<1>2. LoadingTypeOK /\ LoadKeepsBudgets /\ FindsFiles /\ ReadsInOrder /\ NoneMadeUp
  BY DEF LoadInv, LoadsInOrder
<1>3. LoadingTypeOK'
  BY <1>1, <1>2 DEF LoadingTypeOK, Stages
<1>4. CASE loading' = "failed"
  BY <1>1, <1>2, <1>3, <1>4, FailedLoads DEF LoadKeepsBudgets
<1>5. CASE loading' # "failed"
  <2>1. loading' = "inserting" /\ \A i \in DOMAIN sources : Accepted(Snapshot(sources[i]))
    BY <1>1, <1>5
  <2>2. Read' = Read /\ entries \subseteq Read
    BY <1>1, <1>2 DEF ReadsInOrder, Read
  <2>3. LoadKeepsBudgets' /\ FindsFiles' /\ NoneMadeUp'
    BY <1>1, <1>2, <2>1 DEF LoadKeepsBudgets, FindsFiles, NoneMadeUp
  <2>4. ReadsInOrder'
    BY <1>1, <1>2, <2>1, <2>2 DEF ReadsInOrder, ToRead
  <2>5. InsertsInOrder'
    BY <1>1, <2>1, <2>2 DEF InsertsInOrder, Snapshot
  <2> QED
    BY <1>3, <2>3, <2>4, <2>5 DEF LoadInv, LoadsInOrder
<1> QED
  BY <1>4, <1>5

(* A profile replaces one of its name, which a file before it held. *)
LEMMA InsertSourceLoads == ASSUME LoadInv, InsertSource PROVE LoadInv'
<1>0. PICK first : first = sources[1]
  OBVIOUS
<1> DEFINE document == first.content.document
<1>1. /\ loading = "inserting" /\ sources # <<>>
      /\ IF Insertable(store, Snapshot(Head(sources)))
         THEN store' = Insert(store, Snapshot(Head(sources))) /\ loading' = loading
         ELSE loading' = "failed" /\ store' = store
      /\ sources' = Tail(sources)
      /\ disk' = disk /\ edits' = edits /\ shown' = shown
      /\ unlisted' = unlisted /\ listed' = listed /\ entries' = entries /\ opened' = opened
      /\ total' = total /\ overlay' = overlay /\ unchecked' = unchecked
  BY DEF InsertSource, FailLoad
<1>2. LoadingTypeOK /\ LoadKeepsBudgets /\ FindsFiles /\ ReadsInOrder /\ InsertsInOrder
      /\ NoneMadeUp
  BY DEF LoadInv, LoadsInOrder
<1>3. /\ sources \in Seq(Source) /\ Len(sources) \in Nat /\ DOMAIN sources = 1 .. Len(sources)
      /\ 1 \in DOMAIN sources /\ Head(sources) = first
      /\ first.path \in ToSet(ProfileFiles)
  BY <1>0, <1>1, <1>2, TypeFacts
<1>4. /\ sources' \in Seq(Source) /\ Len(sources') = Len(sources) - 1
      /\ DOMAIN sources' = 1 .. Len(sources) - 1
      /\ \A i \in DOMAIN sources' : sources'[i] = sources[i + 1]
  <2>1. /\ Tail(sources) \in Seq(Source) /\ Len(Tail(sources)) = Len(sources) - 1
        /\ \A i \in 1 .. Len(Tail(sources)) : Tail(sources)[i] = sources[i + 1]
    BY <1>1, <1>3, HeadTailProperties
  <2> QED
    BY <1>1, <1>3, <2>1
<1>5. LoadingTypeOK'
  BY <1>1, <1>2, <1>4 DEF LoadingTypeOK, Stages, Source
<1>6. Len(sources') <= MaxFiles
  BY <1>2, <1>3, <1>4, LoadingAssumptions DEF LoadKeepsBudgets
<1>7. CASE loading' = "failed"
  BY <1>1, <1>5, <1>6, <1>7, FailedLoads
<1>8. CASE loading' # "failed"
  <2>1. /\ Insertable(store, document) /\ store' = Insert(store, document)
        /\ loading' = "inserting"
    BY <1>1, <1>3, <1>8 DEF Snapshot
  <2>0. /\ DOMAIN store' = DOMAIN store \cup {document.name}
        /\ store'[document.name] = ProfileOf(document)
        /\ \A n \in DOMAIN store : n # document.name => store'[n] = store[n]
    BY <2>1 DEF Insert
  <2>2. /\ \A i \in DOMAIN sources' : i + 1 \in DOMAIN sources /\ sources'[i] = sources[i + 1]
        /\ Read' \subseteq Read
        /\ \A q \in Read : q = first.path \/ q \in Read'
    <3>1. \A i \in DOMAIN sources' : i + 1 \in DOMAIN sources /\ sources'[i] = sources[i + 1]
      BY <1>3, <1>4
    <3>2. \A i \in DOMAIN sources : i = 1 \/ (i - 1 \in DOMAIN sources' /\ sources'[i - 1] = sources[i])
      BY <1>3, <1>4
    <3> QED
      BY <1>0, <3>1, <3>2 DEF Read
  <2>3. PICK h \in DOMAIN ProfileFiles : ProfileFiles[h] = first.path
    BY <1>3, FileFacts
  <2>4. /\ Accepted(document) /\ first.content \in shown[ProfileFiles[h]] \ {Missing}
        /\ first.path \in Read
    BY <1>0, <1>1, <1>2, <1>3, <2>3 DEF InsertsInOrder, ReadsInOrder, Snapshot, Read
  <2>5. Holds(document)'
    BY <2>0 DEF Holds
  <2>6. NoneMadeUp'
    <3> SUFFICES ASSUME NEW n \in DOMAIN store'
                 PROVE  \/ n \in DOMAIN Bundled /\ store'[n] = Bundled[n]
                        \/ \E i \in DOMAIN ProfileFiles : \E c \in shown[ProfileFiles[i]] \ {Missing} :
                             /\ Accepted(c.document) /\ c.document.name = n
                             /\ store'[n] = ProfileOf(c.document)
      BY <1>1 DEF NoneMadeUp
    <3>1. CASE n = document.name
      BY <2>0, <2>4, <3>1
    <3>2. CASE n # document.name
      <4>1. n \in DOMAIN store /\ store'[n] = store[n]
        BY <2>0, <3>2
      <4> QED
        BY <1>2, <4>1 DEF NoneMadeUp
    <3> QED
      BY <3>1, <3>2
  <2>7. LoadKeepsBudgets'
    <3>1. WithinStore(store')
      BY <2>1 DEF Insertable
    <3>2. WithinStore(store)'
      BY <3>1
    <3> QED
      BY <1>6, <2>1, <3>2 DEF LoadKeepsBudgets
  <2>8. FindsFiles'
    BY <1>1, <1>2, <2>1 DEF FindsFiles
  <2>9. ReadsInOrder'
    <3>1. Read' \subseteq entries
      BY <1>1, <1>2, <2>2 DEF ReadsInOrder
    <3>2. \A i \in DOMAIN sources' : sources'[i].content \in shown[sources'[i].path] \ {Missing}
      BY <1>1, <1>2, <2>2 DEF ReadsInOrder
    <3>3. ASSUME NEW i \in DOMAIN sources', NEW j \in DOMAIN sources', i < j
          PROVE  Before(sources'[i].path, sources'[j].path)
      <4>1. i + 1 < j + 1
        BY <1>3, <1>4, <3>3
      <4> QED
        BY <1>1, <1>2, <2>2, <4>1 DEF ReadsInOrder
    <3> QED
      BY <1>1, <1>2, <2>1, <3>1, <3>2, <3>3 DEF ReadsInOrder, ToRead
  <2>10. ASSUME NEW i \in DOMAIN ProfileFiles, ProfileFiles[i] \in entries \ Read'
         PROVE  /\ \E c \in shown[ProfileFiles[i]] \ {Missing} : Kept(i, c.document)'
                /\ \A q \in Read' : Before(ProfileFiles[i], q)
    <3>1. CASE ProfileFiles[i] \in Read
      <4>1. i = h
        BY <2>2, <2>3, <2>10, <3>1, FileFacts
      <4>2. Kept(i, document)'
        BY <2>4, <2>5 DEF Kept
      <4>3. ASSUME NEW q \in Read' PROVE Before(ProfileFiles[i], q)
        <5>1. PICK k \in DOMAIN sources' : sources'[k].path = q
          BY DEF Read
        <5>2. 1 < k + 1
          BY <1>3, <1>4, <5>1
        <5> QED
          BY <1>0, <1>1, <1>2, <1>3, <2>2, <2>3, <4>1, <5>1, <5>2 DEF ReadsInOrder
      <4> QED
        BY <2>4, <4>1, <4>2, <4>3
    <3>2. CASE ProfileFiles[i] \notin Read
      <4>1. /\ \E c \in shown[ProfileFiles[i]] \ {Missing} : Kept(i, c.document)
            /\ \A q \in Read : Before(ProfileFiles[i], q)
        BY <1>1, <1>2, <2>10, <3>2 DEF InsertsInOrder
      <4>2. i < h
        BY <2>3, <2>4, <4>1, BeforeFacts
      <4>3. ASSUME NEW d, Holds(d), d.name # document.name PROVE Holds(d)'
        BY <2>0, <4>3 DEF Holds
      <4>4. PICK c \in shown[ProfileFiles[i]] \ {Missing} : Kept(i, c.document)
        BY <4>1
      <4>5. Kept(i, c.document)'
        <5>1. CASE c.document.name = document.name
          BY <1>1, <2>4, <2>5, <4>2, <4>4, <5>1 DEF Kept
        <5>2. CASE c.document.name # document.name /\ Holds(c.document)
          BY <4>3, <4>4, <5>2 DEF Kept
        <5>3. CASE c.document.name # document.name /\ ~ Holds(c.document)
          <6>1. PICK j \in DOMAIN ProfileFiles : \E b \in shown[ProfileFiles[j]] \ {Missing} :
                  /\ i < j /\ Accepted(b.document) /\ b.document.name = c.document.name
                  /\ Holds(b.document)
            BY <4>4, <5>3 DEF Kept
          <6>2. PICK b \in shown[ProfileFiles[j]] \ {Missing} :
                  /\ i < j /\ Accepted(b.document) /\ b.document.name = c.document.name
                  /\ Holds(b.document)
            BY <6>1
          <6>3. Holds(b.document)'
            BY <4>3, <5>3, <6>2
          <6> QED
            BY <1>1, <4>4, <6>2, <6>3 DEF Kept
        <5> QED
          BY <5>1, <5>2, <5>3
      <4> QED
        BY <2>2, <4>1, <4>5
    <3> QED
      BY <3>1, <3>2
  <2>11. InsertsInOrder'
    <3>1. \A i \in DOMAIN sources' : Accepted(Snapshot(sources'[i]))
      BY <1>1, <1>2, <2>2 DEF InsertsInOrder
    <3> QED
      BY <1>1, <2>1, <2>10, <3>1 DEF InsertsInOrder, Snapshot
  <2> QED
    BY <1>5, <2>6, <2>7, <2>8, <2>9, <2>11 DEF LoadInv, LoadsInOrder
<1> QED
  BY <1>7, <1>8

(* All were inserted. *)
LEMMA EndInsertingLoads == ASSUME LoadInv, EndInserting PROVE LoadInv'
<1>1. /\ loading = "inserting" /\ sources = <<>> /\ loading' = "overlay"
      /\ disk' = disk /\ edits' = edits /\ store' = store /\ shown' = shown
      /\ unlisted' = unlisted /\ listed' = listed /\ entries' = entries /\ opened' = opened
      /\ sources' = sources /\ total' = total /\ overlay' = overlay /\ unchecked' = unchecked
  BY DEF EndInserting, readVars
<1>2. LoadingTypeOK /\ LoadKeepsBudgets /\ FindsFiles /\ ReadsInOrder /\ InsertsInOrder
      /\ NoneMadeUp
  BY DEF LoadInv, LoadsInOrder
<1>3. Read' = Read /\ opened' = None
  BY <1>1, <1>2 DEF Read, ReadsInOrder, ToRead
<1> QED
  BY <1>1, <1>2, <1>3
  DEF LoadInv, LoadsInOrder, LoadingTypeOK, Stages, LoadKeepsBudgets, FindsFiles, ReadsInOrder,
      InsertsInOrder, NoneMadeUp, Kept, Holds

(* Once the profiles are inserted, the store stays as it is. *)
LEMMA OverlayLoads ==
  ASSUME LoadInv, LoadingTypeOK', loading \in {"overlay", "found"},
         loading' \in {"overlay", "found", "loaded"},
         UNCHANGED <<entries, sources, store, shown, unlisted>>,
         opened' # None => opened' = opened /\ unchecked' = unchecked /\ loading' = loading
  PROVE  LoadInv'
<1>1. LoadingTypeOK /\ LoadKeepsBudgets /\ FindsFiles /\ ReadsInOrder /\ InsertsInOrder
      /\ NoneMadeUp
  BY DEF LoadInv, LoadsInOrder
<1>2. Read' = Read /\ (opened' # None => ToRead')
  BY <1>1 DEF Read, ReadsInOrder, ToRead
<1> QED
  BY <1>1, <1>2
  DEF LoadInv, LoadsInOrder, LoadKeepsBudgets, FindsFiles, ReadsInOrder,
      InsertsInOrder, NoneMadeUp, Kept, Holds

(* The overlay takes in no profile. *)
LEMMA OverlayStepsLoad == ASSUME LoadInv, LookForOverlay \/ ReadOverlay \/ EndOverlay PROVE LoadInv'
<1>1. LoadingTypeOK /\ Len(sources) <= MaxFiles /\ ReadsInOrder
  BY DEF LoadInv, LoadKeepsBudgets, LoadsInOrder
<1>2. /\ loading \in {"overlay", "found"} /\ loading' \in {"overlay", "found", "loaded", "failed"}
      /\ unchecked' \in {unchecked, Tail(unchecked)} /\ opened' \in {opened, None}
      /\ opened' # None => opened' = opened /\ unchecked' = unchecked /\ loading' = loading
      /\ unchecked' # unchecked => unchecked # <<>>
      /\ disk' = disk /\ edits' = edits /\ store' = store /\ shown' = shown
      /\ unlisted' = unlisted /\ listed' = listed /\ entries' = entries
      /\ sources' = sources /\ total' = total
  <2>1. CASE LookForOverlay
    BY <1>1, <2>1 DEF LookForOverlay, ReadsInOrder, ToRead
  <2>2. CASE ReadOverlay
    BY <1>1, <2>2 DEF ReadOverlay, FailLoad, ReadsInOrder, ToRead
  <2>3. CASE EndOverlay
    BY <1>1, <2>3 DEF EndOverlay, readVars, ReadsInOrder, ToRead
  <2> QED
    BY <2>1, <2>2, <2>3
<1>3. LoadingTypeOK'
  <2>1. unchecked' \in Seq(ToSet(OverlayFiles))
    <3>1. unchecked \in Seq(ToSet(OverlayFiles))
      BY <1>1 DEF LoadingTypeOK
    <3>2. unchecked # <<>> => Tail(unchecked) \in Seq(ToSet(OverlayFiles))
      BY <3>1, HeadTailProperties
    <3> QED
      BY <1>2, <3>1, <3>2
  <2> QED
    BY <1>1, <1>2, <2>1 DEF LoadingTypeOK, Stages
<1>4. CASE loading' = "failed"
  BY <1>1, <1>2, <1>3, <1>4, FailedLoads
<1>5. CASE loading' # "failed"
  BY <1>2, <1>3, <1>5, OverlayLoads
<1> QED
  BY <1>4, <1>5

(* What does not load leaves the load as it is. *)
LEMMA LoadUnchanged == ASSUME LoadInv, UNCHANGED loadingVars PROVE LoadInv'
<1>1. /\ loading' = loading
      /\ disk' = disk /\ edits' = edits /\ store' = store /\ shown' = shown
      /\ unlisted' = unlisted /\ listed' = listed /\ entries' = entries /\ opened' = opened
      /\ sources' = sources /\ total' = total /\ overlay' = overlay /\ unchecked' = unchecked
  BY DEF loadingVars, readVars
<1>2. Read' = Read /\ Unread' = Unread /\ NextPath' = NextPath /\ ToRead' = ToRead
  BY <1>1 DEF Read, Unread, NextPath, ToRead
<1> QED
  BY <1>1, <1>2
  DEF LoadInv, LoadsInOrder, LoadingTypeOK, LoadKeepsBudgets, FindsFiles, ReadsInOrder,
      InsertsInOrder, NoneMadeUp, Kept, Holds, Snapshot

(* Every step of a load or of the user keeps the invariant. *)
LEMMA LoadStepKeeps == ASSUME LoadInv, LoadStep \/ EditStep PROVE LoadInv'
BY EditLoads, SeeEntryLoads, EndListingLoads, OpenPathLoads, ReadSourceLoads, EndReadingLoads,
   ParseSourcesLoads, InsertSourceLoads, EndInsertingLoads, OverlayStepsLoad
DEF LoadStep, EditStep

(* What the store keeps, the budgets accept again. *)
LEMMA KeptStays == ASSUME LoadInv PROVE NormalizedStays
<1> SUFFICES ASSUME NEW n \in DOMAIN store, ~ store[n].bundled, NEW field \in Fields
             PROVE  LET again == Normalize(ProfileBudget[field], AsEntries(store[n][field]))
                    IN again.fits /\ again.texts = store[n][field]
  BY DEF NormalizedStays
<1>1. NoneMadeUp /\ LoadingTypeOK
  BY DEF LoadInv, LoadsInOrder
<1>2. ~ (n \in DOMAIN Bundled /\ store[n] = Bundled[n])
  BY LoadingAssumptions
<1>3. PICK i \in DOMAIN ProfileFiles : \E c \in shown[ProfileFiles[i]] \ {Missing} :
        Accepted(c.document) /\ c.document.name = n /\ store[n] = ProfileOf(c.document)
  BY <1>1, <1>2 DEF NoneMadeUp
<1>4. PICK c \in shown[ProfileFiles[i]] \ {Missing} :
        Accepted(c.document) /\ c.document.name = n /\ store[n] = ProfileOf(c.document)
  BY <1>3
<1>5. c \in Contents
  BY <1>1, <1>4, FileFacts DEF LoadingTypeOK
<1> QED
  BY <1>4, <1>5, AcceptedStays

(* At the end every file that stayed put has its profile, or a later one has. *)
LEMMA LoadedIsWhatWasRead == ASSUME LoadInv PROVE StoreIsWhatWasRead
<1> SUFFICES ASSUME loading = "loaded" PROVE NoneMadeUp /\ NoneLost
  BY DEF StoreIsWhatWasRead
<1>1. NoneMadeUp /\ FindsFiles /\ InsertsInOrder
  BY DEF LoadInv, LoadsInOrder
<1>2. ASSUME NEW i \in DOMAIN ProfileFiles, NEW held \in shown[ProfileFiles[i]] \ {Missing},
             Steady(ProfileFiles[i])
      PROVE  Kept(i, held.document)
  <2>1. shown[ProfileFiles[i]] = {held}
    BY <1>2 DEF Steady
  <2>2. ProfileFiles[i] \in entries \ Read
    <3>1. Missing \notin shown[ProfileFiles[i]] /\ unlisted = {} /\ sources = <<>>
      BY <1>1, <2>1 DEF FindsFiles, InsertsInOrder
    <3>2. ProfileFiles[i] \in entries
      BY <1>1, <3>1, FileFacts DEF FindsFiles
    <3> QED
      BY <3>1, <3>2 DEF Read
  <2> QED
    BY <1>1, <2>1, <2>2 DEF InsertsInOrder
<1> QED
  BY <1>1, <1>2 DEF NoneLost

(* No step of the store disturbs what is known of the load. *)
LEMMA StoreStepLoads == ASSUME LoadInv, [StoreStep]_storeVars PROVE LoadInv'
<1>1. CASE LoadStep \/ EditStep
  BY <1>1, LoadStepKeeps
<1>2. CASE UNCHANGED loadingVars
  BY <1>2, LoadUnchanged
<1> QED
  BY <1>1, <1>2 DEF StoreStep, storeVars, ChooseProfiles, BeginResolution

(***************************************************************************)
(* However the user's files are edited while a session loads them, the     *)
(* load keeps within its budgets, what it keeps the budgets accept again,  *)
(* and the store it ends with is the bundled profiles and what the files   *)
(* held, none made up and none that stayed put lost                        *)
(* (profile_selection.rs:222-262, profiles.rs:796-1098).                   *)
(***************************************************************************)
THEOREM StoreSafety == StoreSpec => []StoreInv
<1>1. StoreInit => LoadInv
  BY LoadingInitInv DEF StoreInit
<1>2. LoadInv /\ [StoreStep]_storeVars => LoadInv'
  BY StoreStepLoads
<1>3. LoadInv => StoreInv
  BY KeptStays, LoadedIsWhatWasRead DEF LoadInv, StoreInv
<1> QED
  BY <1>1, <1>2, <1>3, PTL DEF StoreSpec

-----------------------------------------------------------------------------
(***************************************************************************)
(* The automaton of the hints.  A node stands for the words it is the      *)
(* longest end of: its link is the longest end shorter than itself, a      *)
(* search along links arrives at the longest end of the longer word, and   *)
(* what a scan reports are the hints that end what was read.  Last, a      *)
(* hint's symbols are among the text's exactly where it stands as a whole  *)
(* word, which is what the boundary symbols are for.                       *)
(***************************************************************************)

(* What a word ends with. *)

Ends(m, w) == Len(m) <= Len(w) /\ \A i \in 1 .. Len(m) : m[i] = w[Len(w) - Len(m) + i]

(* The end of an end is an end. *)
LEMMA EndsFurther ==
  ASSUME NEW S, NEW a \in Seq(S), NEW b \in Seq(S), NEW c \in Seq(S), Ends(a, b), Ends(b, c)
  PROVE  Ends(a, c)
<1>1. Len(a) \in Nat /\ Len(b) \in Nat /\ Len(c) \in Nat /\ Len(a) <= Len(b) /\ Len(b) <= Len(c)
  BY DEF Ends
<1>2. ASSUME NEW i \in 1 .. Len(a) PROVE a[i] = c[Len(c) - Len(a) + i]
  <2>1. Len(b) - Len(a) + i \in 1 .. Len(b)
    BY <1>1
  <2>2. a[i] = b[Len(b) - Len(a) + i]
    BY DEF Ends
  <2>3. b[Len(b) - Len(a) + i] = c[Len(c) - Len(b) + (Len(b) - Len(a) + i)]
    BY <2>1 DEF Ends
  <2>4. Len(c) - Len(b) + (Len(b) - Len(a) + i) = Len(c) - Len(a) + i
    BY <1>1
  <2> QED
    BY <2>2, <2>3, <2>4
<1> QED
  BY <1>1, <1>2 DEF Ends

(* Of two ends of a word the shorter is an end of the longer. *)
LEMMA EndsNest ==
  ASSUME NEW S, NEW a \in Seq(S), NEW b \in Seq(S), NEW c \in Seq(S), Ends(a, c), Ends(b, c),
         Len(a) <= Len(b)
  PROVE  Ends(a, b)
<1>1. Len(a) \in Nat /\ Len(b) \in Nat /\ Len(c) \in Nat /\ Len(b) <= Len(c)
  BY DEF Ends
<1>2. ASSUME NEW i \in 1 .. Len(a) PROVE a[i] = b[Len(b) - Len(a) + i]
  <2>1. Len(b) - Len(a) + i \in 1 .. Len(b)
    BY <1>1
  <2>2. a[i] = c[Len(c) - Len(a) + i]
    BY DEF Ends
  <2>3. b[Len(b) - Len(a) + i] = c[Len(c) - Len(b) + (Len(b) - Len(a) + i)]
    BY <2>1 DEF Ends
  <2>4. Len(c) - Len(b) + (Len(b) - Len(a) + i) = Len(c) - Len(a) + i
    BY <1>1
  <2> QED
    BY <2>2, <2>3, <2>4
<1> QED
  BY <1>2 DEF Ends

(* An end as long as the word is the word. *)
LEMMA EndsWhole ==
  ASSUME NEW S, NEW a \in Seq(S), NEW b \in Seq(S)
  PROVE  /\ Ends(a, a) /\ Ends(<<>>, a)
         /\ Ends(a, b) /\ Len(a) = Len(b) => a = b
         /\ Ends(a, <<>>) => a = <<>>
<1>1. Ends(a, a) /\ Ends(<<>>, a)
  BY DEF Ends
<1>2. ASSUME Ends(a, b), Len(a) = Len(b) PROVE a = b
  <2>1. \A i \in 1 .. Len(a) : a[i] = b[i]
    BY <1>2 DEF Ends
  <2> QED
    BY <1>2, <2>1, SeqEqual
<1>3. Ends(a, <<>>) => a = <<>>
  BY DEF Ends
<1> QED
  BY <1>1, <1>2, <1>3

(* One more symbol. *)
LEMMA EndsAppend ==
  ASSUME NEW S, NEW a \in Seq(S), NEW b \in Seq(S), NEW c \in S, NEW d \in S
  PROVE  Ends(Append(a, c), Append(b, d)) <=> c = d /\ Ends(a, b)
<1> DEFINE x == Append(a, c)
           y == Append(b, d)
<1>1. /\ Len(a) \in Nat /\ Len(b) \in Nat
      /\ Len(x) = Len(a) + 1 /\ Len(y) = Len(b) + 1
      /\ \A i \in 1 .. Len(a) : x[i] = a[i]
      /\ \A i \in 1 .. Len(b) : y[i] = b[i]
      /\ x[Len(a) + 1] = c /\ y[Len(b) + 1] = d
  BY AppendProperties
<1> HIDE DEF x, y
<1>2. ASSUME Ends(x, y) PROVE c = d /\ Ends(a, b)
  <2>1. Len(a) <= Len(b) /\ Len(y) - Len(x) = Len(b) - Len(a)
    BY <1>1, <1>2 DEF Ends
  <2>2. c = d
    <3>1. Len(a) + 1 \in 1 .. Len(x) /\ Len(y) - Len(x) + (Len(a) + 1) = Len(b) + 1
      BY <1>1
    <3> QED
      BY <1>1, <1>2, <3>1 DEF Ends
  <2>3. ASSUME NEW i \in 1 .. Len(a) PROVE a[i] = b[Len(b) - Len(a) + i]
    <3>1. i \in 1 .. Len(x) /\ Len(b) - Len(a) + i \in 1 .. Len(b)
      BY <1>1, <2>1
    <3>2. x[i] = y[Len(y) - Len(x) + i]
      BY <1>2, <3>1 DEF Ends
    <3> QED
      BY <1>1, <2>1, <3>1, <3>2
  <2> QED
    BY <2>1, <2>2, <2>3 DEF Ends
<1>3. ASSUME c = d, Ends(a, b) PROVE Ends(x, y)
  <2>1. Len(a) <= Len(b) /\ Len(x) <= Len(y) /\ Len(y) - Len(x) = Len(b) - Len(a)
    BY <1>1, <1>3 DEF Ends
  <2>2. ASSUME NEW i \in 1 .. Len(x) PROVE x[i] = y[Len(y) - Len(x) + i]
    <3>1. CASE i = Len(a) + 1
      <4>1. Len(y) - Len(x) + i = Len(b) + 1
        BY <1>1, <3>1
      <4> QED
        BY <1>1, <1>3, <3>1, <4>1
    <3>2. CASE i # Len(a) + 1
      <4>1. i \in 1 .. Len(a) /\ Len(b) - Len(a) + i \in 1 .. Len(b)
        BY <1>1, <2>1, <3>2
      <4>2. a[i] = b[Len(b) - Len(a) + i]
        BY <1>3, <4>1 DEF Ends
      <4> QED
        BY <1>1, <2>1, <4>1, <4>2
    <3> QED
      BY <3>1, <3>2
  <2> QED
    BY <2>1, <2>2 DEF Ends
<1> QED
  BY <1>2, <1>3 DEF x, y

(* What ends a word and is not all of it ends the rest of it. *)
LEMMA EndsTail ==
  ASSUME NEW S, NEW a \in Seq(S), NEW b \in Seq(S), b # <<>>
  PROVE  Ends(a, Tail(b)) <=> Ends(a, b) /\ a # b
<1> DEFINE t == Tail(b)
<1>1. /\ Len(a) \in Nat /\ Len(b) \in Nat \ {0} /\ t \in Seq(S) /\ Len(t) = Len(b) - 1
  <2>1. Len(b) \in Nat \ {0}
    BY EmptySeq
  <2> QED
    BY <2>1, HeadTailProperties
<1>2. \A i \in 1 .. Len(t) : t[i] = b[i + 1]
  BY HeadTailProperties
<1> HIDE DEF t
<1>3. ASSUME Len(a) <= Len(t), NEW i \in 1 .. Len(a)
      PROVE  t[Len(t) - Len(a) + i] = b[Len(b) - Len(a) + i]
  <2>1. Len(t) - Len(a) + i \in 1 .. Len(t) /\ (Len(t) - Len(a) + i) + 1 = Len(b) - Len(a) + i
    BY <1>1, <1>3
  <2> QED
    BY <1>2, <2>1
<1>4. ASSUME Ends(a, t) PROVE Ends(a, b) /\ a # b
  <2>1. Len(a) <= Len(t) /\ Len(a) <= Len(b) /\ Len(a) # Len(b)
    BY <1>1, <1>4 DEF Ends
  <2>2. \A i \in 1 .. Len(a) : a[i] = b[Len(b) - Len(a) + i]
    BY <1>3, <1>4, <2>1 DEF Ends
  <2> QED
    BY <2>1, <2>2 DEF Ends
<1>5. ASSUME Ends(a, b), a # b PROVE Ends(a, t)
  <2>1. Len(a) # Len(b) /\ Len(a) <= Len(b)
    BY <1>5, EndsWhole DEF Ends
  <2>2. Len(a) <= Len(t)
    BY <1>1, <2>1
  <2>3. \A i \in 1 .. Len(a) : a[i] = t[Len(t) - Len(a) + i]
    BY <1>3, <1>5, <2>2 DEF Ends
  <2> QED
    BY <2>2, <2>3 DEF Ends
<1> QED
  BY <1>4, <1>5 DEF t

-----------------------------------------------------------------------------
(* The automaton. *)

(* The nodes of an automaton, with the way to each; those that end a word,   *)
(* and the longest of them.                                                  *)
IsTrie(nodes) ==
  /\ nodes \in SUBSET Seq(Symbol) /\ <<>> \in nodes
  /\ \A m \in Seq(Symbol), c \in Symbol : Append(m, c) \in nodes => m \in nodes

Ending(nodes, w) == {m \in nodes : Ends(m, w)}

Deepest(set) == CHOOSE d \in set : \A m \in set : Len(m) <= Len(d)

(* The link of a node: the longest node that ends it and is shorter. *)
Link(nodes, node) == IF node = <<>> THEN <<>> ELSE Deepest(Ending(nodes, Tail(node)))

(* The longest node that ends a word stands for the word. *)
LEMMA DeepestFacts ==
  ASSUME NEW nodes, IsTrie(nodes), NEW w \in Seq(Symbol)
  PROVE  /\ Deepest(Ending(nodes, w)) \in nodes /\ Ends(Deepest(Ending(nodes, w)), w)
         /\ Ending(nodes, Deepest(Ending(nodes, w))) = Ending(nodes, w)
         /\ w \in nodes => Deepest(Ending(nodes, w)) = w
<1> DEFINE E == Ending(nodes, w)
           d == Deepest(E)
           T == {Len(w) - Len(m) : m \in E}
<1>1. \A m \in E : m \in nodes /\ m \in Seq(Symbol) /\ Ends(m, w)
  BY DEF Ending, IsTrie
<1>2. \A m \in E : Len(m) \in Nat /\ Len(m) <= Len(w) /\ Len(w) \in Nat
  BY <1>1 DEF Ends
<1>3. <<>> \in E
  BY EndsWhole DEF Ending, IsTrie
<1> HIDE DEF E
<1>4. d \in E /\ \A m \in E : Len(m) <= Len(d)
  <2>1. T \in SUBSET Nat /\ T # {}
    BY <1>2, <1>3
  <2>2. PICK n \in T : \A k \in T : n <= k
    BY <2>1, LeastNatural
  <2>3. PICK m \in E : n = Len(w) - Len(m)
    BY <2>2
  <2>4. ASSUME NEW k \in E PROVE Len(k) <= Len(m)
    <3>1. n <= Len(w) - Len(k)
      BY <2>2
    <3> QED
      BY <1>2, <2>3, <3>1
  <2> QED
    BY <2>4, Zenon DEF Deepest
<1> HIDE DEF d
<1>5. d \in Seq(Symbol) /\ d \in nodes /\ Ends(d, w)
  BY <1>1, <1>4
<1>6. Ending(nodes, d) = E
  <2>1. ASSUME NEW m \in nodes, Ends(m, d) PROVE Ends(m, w)
    <3>1. m \in Seq(Symbol)
      BY DEF IsTrie
    <3> QED
      BY <1>5, <2>1, <3>1, EndsFurther
  <2>2. ASSUME NEW m \in E PROVE Ends(m, d)
    BY <1>1, <1>4, <1>5, EndsNest
  <2> QED
    BY <1>1, <2>1, <2>2 DEF Ending, E
<1>7. ASSUME w \in nodes PROVE d = w
  <2>1. w \in E
    BY <1>7, EndsWhole DEF E, Ending
  <2>2. Len(d) = Len(w)
    BY <1>2, <1>4, <2>1
  <2> QED
    BY <1>5, <2>2, EndsWhole
<1> QED
  BY <1>5, <1>6, <1>7 DEF d, E

(* A word is a last symbol and what comes before it. *)
LEMMA FrontAndLast ==
  ASSUME NEW S, NEW s \in Seq(S), s # <<>>
  PROVE  Front(s) \in Seq(S) /\ Last(s) \in S /\ s = Append(Front(s), Last(s))
<1>1. /\ Front(s) \in Seq(S) /\ Len(Front(s)) = Len(s) - 1
      /\ \A i \in 1 .. Len(s) - 1 : Front(s)[i] = s[i]
      /\ Len(s) \in Nat \ {0} /\ Last(s) = s[Len(s)] /\ Last(s) \in S
  BY FrontFacts
<1> DEFINE f == Front(s)
           l == Last(s)
<1>2. /\ Append(f, l) \in Seq(S) /\ Len(Append(f, l)) = Len(f) + 1
      /\ \A i \in 1 .. Len(f) : Append(f, l)[i] = f[i]
      /\ Append(f, l)[Len(f) + 1] = l
  BY <1>1, AppendProperties
<1> HIDE DEF f, l
<1>3. Len(Append(f, l)) = Len(s) /\ \A i \in 1 .. Len(s) : Append(f, l)[i] = s[i]
  BY <1>1, <1>2 DEF f, l
<1>4. Append(f, l) = s
  BY <1>2, <1>3, SeqEqual
<1> QED
  BY <1>1, <1>4 DEF f, l

(* Words that end alike end alike after one more symbol. *)
LEMMA EndingAppend ==
  ASSUME NEW nodes, IsTrie(nodes), NEW v \in Seq(Symbol), NEW w \in Seq(Symbol), NEW c \in Symbol,
         Ending(nodes, v) = Ending(nodes, w)
  PROVE  Ending(nodes, Append(v, c)) = Ending(nodes, Append(w, c))
<1>1. ASSUME NEW m \in nodes
      PROVE  Ends(m, Append(v, c)) <=> Ends(m, Append(w, c))
  <2>1. m \in Seq(Symbol) /\ Append(v, c) \in Seq(Symbol) /\ Append(w, c) \in Seq(Symbol)
    BY AppendProperties DEF IsTrie
  <2>2. CASE m = <<>>
    BY <2>1, <2>2, EndsWhole
  <2>3. CASE m # <<>>
    <3>1. PICK f \in Seq(Symbol), l \in Symbol : m = Append(f, l)
      BY <2>1, <2>3, FrontAndLast
    <3>2. f \in nodes
      BY <3>1 DEF IsTrie
    <3>3. Ends(f, v) <=> Ends(f, w)
      BY <3>2 DEF Ending
    <3>4. Ends(Append(f, l), Append(v, c)) <=> l = c /\ Ends(f, v)
      BY EndsAppend
    <3>5. Ends(Append(f, l), Append(w, c)) <=> l = c /\ Ends(f, w)
      BY EndsAppend
    <3> QED
      BY <3>1, <3>3, <3>4, <3>5
  <2> QED
    BY <2>2, <2>3
<1> QED
  BY <1>1 DEF Ending

(* All but the word itself end what is behind its first symbol. *)
LEMMA EndingTail ==
  ASSUME NEW nodes, IsTrie(nodes), NEW w \in Seq(Symbol), w # <<>>
  PROVE  Ending(nodes, w) = Ending(nodes, Tail(w)) \cup ({w} \cap nodes)
<1>1. \A m \in nodes : Ends(m, Tail(w)) <=> Ends(m, w) /\ m # w
  BY EndsTail DEF IsTrie
<1>2. Ends(w, w)
  BY EndsWhole
<1> QED
  BY <1>1, <1>2 DEF Ending

(* A link leads to a shorter node. *)
LEMMA LinkFacts ==
  ASSUME NEW nodes, IsTrie(nodes), NEW m \in nodes
  PROVE  /\ Link(nodes, m) \in nodes
         /\ m # <<>> => /\ Len(Link(nodes, m)) < Len(m)
                        /\ Ending(nodes, Link(nodes, m)) = Ending(nodes, Tail(m))
         /\ Len(m) <= 1 => Link(nodes, m) = <<>>
<1>1. CASE m = <<>>
  BY <1>1 DEF Link, IsTrie
<1>2. CASE m # <<>>
  <2> DEFINE t == Tail(m)
  <2>1. m \in Seq(Symbol) /\ Len(m) \in Nat \ {0}
    BY <1>2, EmptySeq DEF IsTrie
  <2>2. t \in Seq(Symbol) /\ Len(t) = Len(m) - 1
    BY <1>2, <2>1, HeadTailProperties
  <2> HIDE DEF t
  <2>3. /\ Deepest(Ending(nodes, t)) \in nodes /\ Ends(Deepest(Ending(nodes, t)), t)
        /\ Ending(nodes, Deepest(Ending(nodes, t))) = Ending(nodes, t)
    BY <2>2, DeepestFacts
  <2>4. Link(nodes, m) = Deepest(Ending(nodes, t))
    BY <1>2 DEF Link, t
  <2>5. Link(nodes, m) \in Seq(Symbol)
    BY <2>3, <2>4 DEF IsTrie
  <2>6. Len(Link(nodes, m)) \in Nat /\ Len(Link(nodes, m)) <= Len(t)
    BY <2>3, <2>4, <2>5 DEF Ends
  <2>7. Len(Link(nodes, m)) < Len(m)
    BY <2>1, <2>2, <2>6
  <2>8. ASSUME Len(m) <= 1 PROVE Link(nodes, m) = <<>>
    <3>1. Len(Link(nodes, m)) = 0
      BY <2>1, <2>6, <2>7, <2>8
    <3> QED
      BY <2>5, <3>1, EmptySeq
  <2> QED
    BY <2>3, <2>4, <2>7, <2>8 DEF t
<1> QED
  BY <1>1, <1>2

(* Where the search for a transition ends. *)
After(nodes, m, c) == Deepest(Ending(nodes, Append(m, c)))

(* A link is where the search from the shorter link arrives. *)
LEMMA LinkAfter ==
  ASSUME NEW nodes, IsTrie(nodes), NEW m \in nodes, m # <<>>, NEW c \in Symbol
  PROVE  /\ Ending(nodes, Tail(Append(m, c))) = Ending(nodes, Append(Link(nodes, m), c))
         /\ Link(nodes, Append(m, c)) = After(nodes, Link(nodes, m), c)
<1>1. m \in Seq(Symbol) /\ Link(nodes, m) \in Seq(Symbol)
  BY LinkFacts DEF IsTrie
<1>2. Tail(m) \in Seq(Symbol)
  BY <1>1, HeadTailProperties
<1>3. Tail(Append(m, c)) = Append(Tail(m), c) /\ Append(m, c) # <<>>
  BY <1>1, HeadTailAppend, AppendProperties
<1>4. Ending(nodes, Link(nodes, m)) = Ending(nodes, Tail(m))
  BY LinkFacts
<1>5. Ending(nodes, Append(Tail(m), c)) = Ending(nodes, Append(Link(nodes, m), c))
  BY <1>1, <1>2, <1>4, EndingAppend
<1> QED
  BY <1>3, <1>5 DEF Link, After

(* One step of a search, along a link or by a transition. *)
LEMMA FallOnce ==
  ASSUME NEW nodes, IsTrie(nodes), NEW m \in nodes, NEW c \in Symbol
  PROVE  After(nodes, m, c) = IF Append(m, c) \in nodes THEN Append(m, c)
                              ELSE IF m = <<>> THEN <<>>
                              ELSE After(nodes, Link(nodes, m), c)
<1>1. m \in Seq(Symbol) /\ <<>> \in Seq(Symbol)
  BY DEF IsTrie
<1>2. Append(m, c) \in Seq(Symbol) /\ Append(m, c) # <<>>
  BY <1>1, AppendProperties
<1>3. CASE Append(m, c) \in nodes
  BY <1>2, <1>3, DeepestFacts DEF After
<1>4. CASE Append(m, c) \notin nodes
  <2>1. Ending(nodes, Append(m, c)) = Ending(nodes, Tail(Append(m, c)))
    <3> DEFINE w == Append(m, c)
    <3>1. w \in Seq(Symbol) /\ w # <<>> /\ w \notin nodes
      BY <1>2, <1>4
    <3> HIDE DEF w
    <3>2. Ending(nodes, w) = Ending(nodes, Tail(w)) \cup ({w} \cap nodes)
      BY <3>1, EndingTail
    <3> QED
      BY <3>1, <3>2 DEF w
  <2>2. CASE m = <<>>
    <3>1. Tail(Append(m, c)) = <<>>
      BY <1>1, <2>2, HeadTailAppend
    <3>2. Deepest(Ending(nodes, <<>>)) = <<>>
      BY <1>1, DeepestFacts DEF IsTrie
    <3> QED
      BY <1>4, <2>1, <2>2, <3>1, <3>2 DEF After
  <2>3. CASE m # <<>>
    BY <1>4, <2>1, <2>3, LinkAfter DEF After
  <2> QED
    BY <2>2, <2>3
<1> QED
  BY <1>3, <1>4

(* A search for a transition that follows the links, and where it ends. *)
Searches(nodes, D, c, g) ==
  /\ D \in SUBSET nodes
  /\ \A m \in D : m # <<>> => Link(nodes, m) \in D
  /\ \A m \in D : g[m] = IF Append(m, c) \in nodes THEN Append(m, c)
                          ELSE IF m = <<>> THEN <<>> ELSE g[Link(nodes, m)]

(* A search by links ends where the longest ending is. *)
LEMMA SearchEnds ==
  ASSUME NEW nodes, IsTrie(nodes), NEW c \in Symbol, NEW D, NEW g, Searches(nodes, D, c, g)
  PROVE  \A m \in D : g[m] = After(nodes, m, c)
<1> DEFINE Wrong == {m \in D : g[m] # After(nodes, m, c)}
           T == {Len(m) : m \in Wrong}
<1>1. SUFFICES ASSUME Wrong # {} PROVE FALSE
  BY DEF Wrong
<1>2. \A m \in D : m \in nodes /\ Len(m) \in Nat
  BY DEF IsTrie, Searches
<1>3. T \in SUBSET Nat /\ T # {}
  BY <1>1, <1>2
<1>4. PICK n \in T : \A k \in T : n <= k
  BY <1>3, LeastNatural
<1>5. PICK m \in Wrong : n = Len(m)
  BY <1>4
<1>6. m \in D /\ m \in nodes /\ g[m] # After(nodes, m, c)
  BY <1>2, <1>5
<1>7. Append(m, c) \notin nodes /\ m # <<>>
  BY <1>6, FallOnce DEF Searches
<1>8. g[m] = g[Link(nodes, m)] /\ After(nodes, m, c) = After(nodes, Link(nodes, m), c)
  BY <1>6, <1>7, FallOnce DEF Searches
<1>9. Link(nodes, m) \in D /\ Len(Link(nodes, m)) < Len(m)
  BY <1>6, <1>7, LinkFacts DEF Searches
<1>10. Link(nodes, m) \in Wrong
  BY <1>6, <1>8, <1>9
<1>11. n <= Len(Link(nodes, m))
  BY <1>4, <1>10
<1> QED
  BY <1>2, <1>5, <1>6, <1>9, <1>11

(* The links of the shorter nodes give a further node its link. *)
LEMMA LinkFromFacts ==
  ASSUME NEW nodes, IsTrie(nodes), NEW front \in nodes, front # <<>>, NEW c \in Symbol,
         NEW failure, \A m \in nodes : Len(m) <= Len(front) => failure[m] = Link(nodes, m)
  PROVE  LinkFrom(nodes, failure, front, c) = Link(nodes, Append(front, c))
<1> DEFINE D == {m \in nodes : Len(m) <= Len(front)}
           Value(f, m) == IF Append(m, c) \in nodes THEN Append(m, c)
                          ELSE IF m = <<>> THEN <<>>
                          ELSE f[failure[m]]
           Solves(f) == f = [m \in D |-> Value(f, m)]
           g == CHOOSE f : Solves(f)
           w == [m \in D |-> After(nodes, m, c)]
<1>1. \A m \in nodes : Len(m) \in Nat
  BY DEF IsTrie
<1>2. \A m \in D : m \in nodes /\ failure[m] = Link(nodes, m)
  OBVIOUS
<1>3. ASSUME NEW m \in D, m # <<>> PROVE Link(nodes, m) \in D
  <2>1. Link(nodes, m) \in nodes /\ Len(Link(nodes, m)) < Len(m)
    BY <1>2, <1>3, LinkFacts
  <2> QED
    BY <1>1, <2>1
<1>4. front \in D
  BY <1>1
<1> HIDE DEF D
<1>5. Solves(w)
  <2>1. ASSUME NEW m \in D PROVE After(nodes, m, c) = Value(w, m)
    <3>1. CASE m = <<>> \/ Append(m, c) \in nodes
      BY <1>2, <3>1, FallOnce
    <3>2. CASE m # <<>> /\ Append(m, c) \notin nodes
      <4>1. w[failure[m]] = After(nodes, Link(nodes, m), c)
        BY <1>2, <1>3, <3>2
      <4> QED
        BY <1>2, <3>2, <4>1, FallOnce
    <3> QED
      BY <3>1, <3>2
  <2> HIDE DEF Value
  <2> QED
    BY <2>1
<1>6. Solves(g)
  <2> HIDE DEF Solves, w
  <2> QED
    BY <1>5
<1>7. LinkFrom(nodes, failure, front, c) = g[failure[front]]
  BY DEF LinkFrom, D
<1> HIDE DEF g
<1>8. \A m \in D : g[m] = Value(g, m)
  <2> HIDE DEF Value
  <2> QED
    BY <1>6
<1>9. \A m \in D : g[m] = IF Append(m, c) \in nodes THEN Append(m, c)
                         ELSE IF m = <<>> THEN <<>> ELSE g[Link(nodes, m)]
  BY <1>2, <1>8
<1>10. D \in SUBSET nodes
  BY <1>2
<1> HIDE DEF Solves, Value, w
<1>11. \A m \in D : g[m] = After(nodes, m, c)
  <2>1. \A m \in D : m # <<>> => Link(nodes, m) \in D
    BY <1>3
  <2>2. Searches(nodes, D, c, g)
    BY <1>9, <1>10, <2>1 DEF Searches
  <2> QED
    BY <2>2, SearchEnds
<1>12. g[failure[front]] = After(nodes, Link(nodes, front), c)
  BY <1>2, <1>3, <1>4, <1>11
<1> QED
  BY <1>7, <1>12, LinkAfter

(* build_failure_links gives each node its link. *)
LEMMA FailuresAreLinks ==
  ASSUME NEW nodes, IsTrie(nodes)
  PROVE  \A m \in nodes : Failures(nodes)[m] = Link(nodes, m)
<1> DEFINE Value(f, m) == IF Len(m) <= 1 THEN <<>> ELSE LinkFrom(nodes, f, Front(m), Last(m))
           Solves(f) == f = [m \in nodes |-> Value(f, m)]
           w == [m \in nodes |-> Link(nodes, m)]
           g == CHOOSE f : Solves(f)
<1>1. \A m \in nodes : m \in Seq(Symbol) /\ Len(m) \in Nat
  BY DEF IsTrie
<1>2. ASSUME NEW m \in nodes, NEW f,
             \A k \in nodes : Len(k) < Len(m) => f[k] = Link(nodes, k)
      PROVE  Value(f, m) = Link(nodes, m)
  <2>1. CASE Len(m) <= 1
    BY <2>1, LinkFacts
  <2>2. CASE ~ (Len(m) <= 1)
    <3>1. m # <<>> /\ Len(m) \in Nat /\ Len(m) > 1
      BY <1>1, <2>2
    <3>2. /\ Front(m) \in Seq(Symbol) /\ Last(m) \in Symbol /\ m = Append(Front(m), Last(m))
          /\ Len(Front(m)) = Len(m) - 1
      BY <1>1, <3>1, FrontAndLast, FrontFacts
    <3>3. Front(m) \in nodes
      BY <3>2 DEF IsTrie
    <3>4. Front(m) # <<>>
      BY <3>1, <3>2
    <3>5. \A k \in nodes : Len(k) <= Len(Front(m)) => f[k] = Link(nodes, k)
      BY <1>1, <1>2, <3>1, <3>2
    <3>6. LinkFrom(nodes, f, Front(m), Last(m)) = Link(nodes, Append(Front(m), Last(m)))
      BY <3>2, <3>3, <3>4, <3>5, LinkFromFacts
    <3> QED
      BY <2>2, <3>2, <3>6
  <2> QED
    BY <2>1, <2>2
<1> HIDE DEF Value
<1>3. Solves(w)
  <2>1. \A m \in nodes : Value(w, m) = Link(nodes, m)
    BY <1>2
  <2> QED
    BY <2>1
<1>4. Solves(g)
  <2> HIDE DEF Solves, w
  <2> QED
    BY <1>3
<1>5. Failures(nodes) = g
  BY DEF Failures, Value
<1> HIDE DEF g
<1>6. \A m \in nodes : g[m] = Value(g, m)
  BY <1>4
<1> HIDE DEF Solves
<1> DEFINE Wrong == {m \in nodes : g[m] # Link(nodes, m)}
           T == {Len(m) : m \in Wrong}
<1>7. ASSUME Wrong # {} PROVE FALSE
  <2>1. T \in SUBSET Nat /\ T # {}
    BY <1>1, <1>7
  <2>2. PICK n \in T : \A k \in T : n <= k
    BY <2>1, LeastNatural
  <2>3. PICK m \in Wrong : n = Len(m)
    BY <2>2
  <2>4. ASSUME NEW k \in nodes, Len(k) < Len(m) PROVE g[k] = Link(nodes, k)
    <3>1. k \notin Wrong
      <4>1. ~ (n <= Len(k))
        BY <1>1, <2>3, <2>4
      <4> QED
        BY <2>2, <4>1
    <3> QED
      BY <3>1
  <2> QED
    BY <1>2, <1>6, <2>3, <2>4
<1> QED
  BY <1>5, <1>7

(* advance_symbol follows the links as the search does. *)
LEMMA FollowEnds ==
  ASSUME NEW nodes, IsTrie(nodes), NEW c \in Symbol,
         NEW failure, \A m \in nodes : failure[m] = Link(nodes, m)
  PROVE  \A m \in nodes : Follow(nodes, failure, c)[m] = After(nodes, m, c)
<1> DEFINE Value(f, m) == IF Append(m, c) \in nodes THEN Append(m, c)
                          ELSE IF m = <<>> THEN <<>>
                          ELSE f[failure[m]]
           Solves(f) == f = [m \in nodes |-> Value(f, m)]
           w == [m \in nodes |-> After(nodes, m, c)]
           g == CHOOSE f : Solves(f)
<1>1. \A m \in nodes : Link(nodes, m) \in nodes
  BY LinkFacts
<1>2. Solves(w)
  <2>1. ASSUME NEW m \in nodes PROVE After(nodes, m, c) = Value(w, m)
    <3>1. w[failure[m]] = After(nodes, Link(nodes, m), c)
      BY <1>1
    <3> HIDE DEF w
    <3> QED
      BY <3>1, FallOnce
  <2> HIDE DEF Value
  <2> QED
    BY <2>1
<1>3. Solves(g)
  <2> HIDE DEF Solves, w
  <2> QED
    BY <1>2
<1>4. Follow(nodes, failure, c) = g
  BY DEF Follow
<1> HIDE DEF g
<1>5. \A m \in nodes : g[m] = Value(g, m)
  <2> HIDE DEF Value
  <2> QED
    BY <1>3
<1> HIDE DEF Solves, w
<1>6. \A m \in nodes : g[m] = IF Append(m, c) \in nodes THEN Append(m, c)
                             ELSE IF m = <<>> THEN <<>> ELSE g[Link(nodes, m)]
  BY <1>5
<1> HIDE DEF Value
<1>7. Searches(nodes, nodes, c, g)
  BY <1>1, <1>6 DEF Searches
<1> QED
  BY <1>4, <1>7, SearchEnds

(* The profiles one of whose patterns a word ends with. *)
Heard(hints, nodes, w) == UNION {Outputs(hints, m) : m \in Ending(nodes, w)}

(* What is heard at a node: its own outputs, and what its link hears. *)
LEMMA HearOnce ==
  ASSUME NEW hints, NEW nodes, IsTrie(nodes), NEW m \in nodes
  PROVE  Heard(hints, nodes, m) =
           Outputs(hints, m) \cup (IF m = <<>> THEN {} ELSE Heard(hints, nodes, Link(nodes, m)))
<1>1. m \in Seq(Symbol)
  BY DEF IsTrie
<1>2. CASE m = <<>>
  <2>1. Ending(nodes, <<>>) = {<<>>}
    BY EndsWhole DEF Ending, IsTrie
  <2> QED
    BY <1>2, <2>1 DEF Heard
<1>3. CASE m # <<>>
  <2>1. Ending(nodes, m) = Ending(nodes, Tail(m)) \cup {m}
    BY <1>1, <1>3, EndingTail
  <2>2. Ending(nodes, Link(nodes, m)) = Ending(nodes, Tail(m))
    BY <1>3, LinkFacts
  <2>3. Ending(nodes, m) = Ending(nodes, Link(nodes, m)) \cup {m}
    BY <2>1, <2>2
  <2> QED
    BY <1>3, <2>3 DEF Heard
<1> QED
  BY <1>2, <1>3

(* A node and the nodes along its output links report all that is heard there. *)
LEMMA ReportsAreHeard ==
  ASSUME NEW hints, NEW nodes, IsTrie(nodes),
         NEW failure, \A m \in nodes : failure[m] = Link(nodes, m)
  PROVE  \A m \in nodes : Reports(hints, nodes, failure)[m] = Heard(hints, nodes, m)
<1> DEFINE Value(f, m) == Outputs(hints, m) \cup (IF m = <<>> THEN {} ELSE f[failure[m]])
           Solves(f) == f = [m \in nodes |-> Value(f, m)]
           w == [m \in nodes |-> Heard(hints, nodes, m)]
           g == CHOOSE f : Solves(f)
<1>1. \A m \in nodes : Len(m) \in Nat
  BY DEF IsTrie
<1>2. \A m \in nodes : Link(nodes, m) \in nodes
  BY LinkFacts
<1>3. Solves(w)
  <2>1. ASSUME NEW m \in nodes PROVE Heard(hints, nodes, m) = Value(w, m)
    <3>1. w[failure[m]] = Heard(hints, nodes, Link(nodes, m))
      BY <1>2
    <3> HIDE DEF w
    <3> QED
      BY <3>1, HearOnce
  <2> HIDE DEF Value
  <2> QED
    BY <2>1
<1>4. Solves(g)
  <2> HIDE DEF Solves, w
  <2> QED
    BY <1>3
<1>5. Reports(hints, nodes, failure) = g
  BY DEF Reports
<1> HIDE DEF g
<1>6. \A m \in nodes : g[m] = Value(g, m)
  <2> HIDE DEF Value
  <2> QED
    BY <1>4
<1> HIDE DEF Solves, w
<1> DEFINE Wrong == {m \in nodes : g[m] # Heard(hints, nodes, m)}
           T == {Len(m) : m \in Wrong}
<1>7. ASSUME Wrong # {} PROVE FALSE
  <2>1. T \in SUBSET Nat /\ T # {}
    BY <1>1, <1>7
  <2>2. PICK n \in T : \A k \in T : n <= k
    BY <2>1, LeastNatural
  <2>3. PICK m \in Wrong : n = Len(m)
    BY <2>2
  <2>4. m # <<>>
    <3>1. CASE m = <<>>
      BY <1>6, <2>3, <3>1, HearOnce
    <3> QED
      BY <3>1
  <2>5. Link(nodes, m) \in nodes /\ Len(Link(nodes, m)) < Len(m)
    BY <2>3, <2>4, LinkFacts
  <2>6. Link(nodes, m) \notin Wrong
    <3>1. ~ (n <= Len(Link(nodes, m)))
      BY <1>1, <2>3, <2>5
    <3> QED
      BY <2>2, <3>1
  <2>7. g[m] = Outputs(hints, m) \cup g[Link(nodes, m)]
    BY <1>6, <2>3, <2>4
  <2>8. g[Link(nodes, m)] = Heard(hints, nodes, Link(nodes, m))
    BY <2>5, <2>6
  <2>9. Heard(hints, nodes, m) = Outputs(hints, m) \cup Heard(hints, nodes, Link(nodes, m))
    BY <2>3, <2>4, HearOnce
  <2> QED
    BY <2>3, <2>7, <2>8, <2>9
<1> QED
  BY <1>5, <1>7

(* What starts with a value and is worked on by one step after another. *)
Works(V, b, T, f, n) ==
  f \in [0 .. n -> V] /\ f[0] = b /\ \A k \in 1 .. n : f[k] = T[k][f[k - 1]]

(* A function of the naturals up to N that is given step by step exists. *)
LEMMA StepByStep ==
  ASSUME NEW N \in Nat, NEW V, NEW b \in V, NEW T \in [1 .. N -> [V -> V]]
  PROVE  \E f : Works(V, b, T, f, N)
<1> DEFINE Solves(f, n) == /\ f \in [0 .. n -> V] /\ f[0] = b
                           /\ \A k \in 1 .. n : f[k] = T[k][f[k - 1]]
           S == {n \in 0 .. N : \E f : Solves(f, n)}
<1>1. 0 \in S
  <2>1. Solves([k \in 0 .. 0 |-> b], 0)
    OBVIOUS
  <2> HIDE DEF Solves
  <2> QED
    BY <2>1
<1>2. ASSUME NEW n \in 0 .. N, n < N, n \in S PROVE n + 1 \in S
  <2>1. PICK f : Solves(f, n)
    BY <1>2
  <2> DEFINE v == T[n + 1][f[n]]
             g == [k \in 0 .. (n + 1) |-> IF k = n + 1 THEN v ELSE f[k]]
  <2>2. n + 1 \in 1 .. N /\ n \in 0 .. n /\ n + 1 \in 0 .. N
    BY <1>2
  <2>3. v \in V
    BY <2>1, <2>2
  <2> HIDE DEF v
  <2>4. g \in [0 .. (n + 1) -> V]
    <3>1. \A k \in 0 .. (n + 1) : k # n + 1 => k \in 0 .. n
      OBVIOUS
    <3> QED
      BY <2>1, <2>3, <3>1
  <2>5. g[0] = b
    BY <2>1
  <2>6. ASSUME NEW k \in 1 .. (n + 1) PROVE g[k] = T[k][g[k - 1]]
    <3>1. k - 1 \in 0 .. (n + 1) /\ k - 1 # n + 1 /\ k \in 0 .. (n + 1)
      OBVIOUS
    <3>2. g[k - 1] = f[k - 1]
      BY <3>1
    <3>3. CASE k = n + 1
      <4>1. k - 1 = n /\ g[k] = v
        BY <3>3
      <4> HIDE DEF g
      <4> QED
        BY <3>2, <3>3, <4>1 DEF v
    <3>4. CASE k # n + 1
      <4>1. k \in 1 .. n /\ g[k] = f[k]
        BY <3>1, <3>4
      <4> HIDE DEF g
      <4> QED
        BY <2>1, <3>2, <4>1
    <3> QED
      BY <3>3, <3>4
  <2>7. Solves(g, n + 1)
    <3> HIDE DEF g
    <3> QED
      BY <2>4, <2>5, <2>6
  <2> HIDE DEF Solves, g
  <2> QED
    BY <2>2, <2>7
<1>3. N \in S
  <2> HIDE DEF S
  <2>1. 0 .. N \subseteq S
    BY <1>1, <1>2, CountingUp
  <2> QED
    BY <2>1
<1> QED
  BY <1>3 DEF Works

(* The scan has a value after every symbol. *)
LEMMA ScanningDefined ==
  ASSUME NEW V, NEW step, NEW report, NEW hinted, NEW symbols \in Seq(Symbol),
         [node |-> <<>>, found |-> {}] \in V,
         \A v \in V, c \in Symbol : Advance(step, report, hinted, v, c) \in V
  PROVE  LET scan == Scanning(step, report, hinted, symbols)
         IN /\ scan \in [0 .. Len(symbols) -> V]
            /\ scan[0] = [node |-> <<>>, found |-> {}]
            /\ \A n \in 1 .. Len(symbols) :
                 scan[n] = Advance(step, report, hinted, scan[n - 1], symbols[n])
<1> DEFINE N == Len(symbols)
           b == [node |-> <<>>, found |-> {}]
           Value(f, n) == IF n = 0 THEN b
                          ELSE Advance(step, report, hinted, f[n - 1], symbols[n])
           Solves(f) == f = [n \in 0 .. N |-> Value(f, n)]
           T == [n \in 1 .. N |-> [v \in V |-> Advance(step, report, hinted, v, symbols[n])]]
           g == CHOOSE f : Solves(f)
<1>1. N \in Nat /\ \A n \in 1 .. N : symbols[n] \in Symbol
  OBVIOUS
<1>2. T \in [1 .. N -> [V -> V]]
  BY <1>1
<1> HIDE DEF N
<1>3. \E f : Works(V, b, T, f, N)
  <2>1. b \in V
    OBVIOUS
  <2> HIDE DEF T, b
  <2> QED
    BY <1>1, <1>2, <2>1, StepByStep
<1>4. PICK f \in [0 .. N -> V] : f[0] = b /\ \A n \in 1 .. N : f[n] = T[n][f[n - 1]]
  BY <1>3 DEF Works
<1>5. Solves(f)
  <2>1. ASSUME NEW n \in 0 .. N PROVE f[n] = Value(f, n)
    <3>1. CASE n = 0
      BY <1>4, <3>1
    <3>2. CASE n # 0
      <4>1. n \in 1 .. N /\ n - 1 \in 0 .. N
        BY <1>1, <3>2
      <4>2. f[n - 1] \in V
        BY <4>1
      <4> QED
        BY <1>4, <3>2, <4>1, <4>2
    <3> QED
      BY <3>1, <3>2
  <2> HIDE DEF Value
  <2> QED
    BY <2>1
<1>6. Solves(g)
  <2> HIDE DEF Solves
  <2> QED
    BY <1>5
<1>7. Scanning(step, report, hinted, symbols) = g
  BY DEF Scanning, N
<1> HIDE DEF g
<1>8. DOMAIN g = 0 .. N /\ \A n \in 0 .. N : g[n] = Value(g, n)
  <2> HIDE DEF Value
  <2> QED
    BY <1>6
<1>9. g[0] = b /\ \A n \in 1 .. N : g[n] = Advance(step, report, hinted, g[n - 1], symbols[n])
  BY <1>1, <1>8
<1>10. \A n \in 0 .. N : g[n] \in V
  <2> DEFINE S == {n \in 0 .. N : g[n] \in V}
  <2>1. 0 \in S
    BY <1>1, <1>9
  <2>2. ASSUME NEW n \in 0 .. N, n < N, n \in S PROVE n + 1 \in S
    <3>1. n + 1 \in 1 .. N /\ n + 1 \in 0 .. N /\ (n + 1) - 1 = n
      BY <1>1, <2>2
    <3>2. g[n + 1] = Advance(step, report, hinted, g[n], symbols[n + 1])
      BY <1>9, <3>1
    <3> QED
      BY <1>1, <2>2, <3>1, <3>2
  <2>3. 0 .. N \subseteq S
    <3> HIDE DEF S
    <3> QED
      BY <1>1, <2>1, <2>2, CountingUp
  <2> QED
    BY <2>3
<1>11. g \in [0 .. N -> V]
  <2> HIDE DEF Solves, Value
  <2>1. g = [n \in 0 .. N |-> Value(g, n)]
    BY <1>6 DEF Solves
  <2>2. g = [n \in 0 .. N |-> g[n]]
    BY <1>8, <2>1
  <2> QED
    BY <1>10, <2>2
<1> QED
  BY <1>7, <1>9, <1>11 DEF N

(* A longer beginning. *)
LEMMA PrefixGrows ==
  ASSUME NEW S, NEW s \in Seq(S), NEW n \in Nat, n < Len(s)
  PROVE  /\ SubSeq(s, 1, n) \in Seq(S) /\ SubSeq(s, 1, n + 1) \in Seq(S)
         /\ SubSeq(s, 1, n + 1) = Append(SubSeq(s, 1, n), s[n + 1])
<1> DEFINE p == SubSeq(s, 1, n)
           q == SubSeq(s, 1, n + 1)
<1>1. Len(s) \in Nat /\ n + 1 \in Nat /\ n + 1 <= Len(s) /\ n <= Len(s) /\ n + 1 \in 1 .. Len(s)
  OBVIOUS
<1>2. s[n + 1] \in S
  BY <1>1
<1>3. p \in Seq(S) /\ Len(p) = n /\ \A i \in 1 .. n : p[i] = s[i]
  BY <1>1, PrefixFacts
<1>4. q \in Seq(S) /\ Len(q) = n + 1 /\ \A i \in 1 .. n + 1 : q[i] = s[i]
  BY <1>1, PrefixFacts
<1> HIDE DEF p, q
<1> DEFINE r == Append(p, s[n + 1])
<1>5. /\ r \in Seq(S) /\ Len(r) = n + 1
      /\ \A i \in 1 .. n : r[i] = p[i]
      /\ r[n + 1] = s[n + 1]
  BY <1>2, <1>3, AppendProperties
<1> HIDE DEF r
<1>6. \A i \in 1 .. n + 1 : q[i] = r[i]
  BY <1>3, <1>4, <1>5
<1>7. q = r
  BY <1>4, <1>5, <1>6, SeqEqual
<1> QED
  BY <1>3, <1>4, <1>7 DEF p, q, r

(* A trie, the next node and the reports of each node in it, as a scan needs. *)
Scans(hints, nodes, hinted, step, report) ==
  /\ IsTrie(nodes)
  /\ \A m \in nodes : Outputs(hints, m) \subseteq hinted
  /\ \A c \in Symbol, m \in nodes : step[c][m] = After(nodes, m, c)
  /\ \A m \in nodes : report[m] = Heard(hints, nodes, m)

(* What the scan has found after n symbols: all that was heard up to there.  *)
(* It stops early only when nothing is left to be found.                     *)
LEMMA ScanFinds ==
  ASSUME NEW hints, NEW nodes, NEW hinted, NEW step, NEW report,
         Scans(hints, nodes, hinted, step, report), NEW symbols \in Seq(Symbol)
  PROVE  ScanWith(step, report, hinted, symbols) =
           UNION {Heard(hints, nodes, SubSeq(symbols, 1, j)) : j \in 1 .. Len(symbols)}
<1> DEFINE N == Len(symbols)
           Begun(n) == SubSeq(symbols, 1, n)
           Told(n) == UNION {Heard(hints, nodes, Begun(j)) : j \in 1 .. n}
           V == [node : nodes, found : SUBSET hinted]
           scan == Scanning(step, report, hinted, symbols)
           At(n) == Deepest(Ending(nodes, Begun(n)))
           Right(n) == /\ scan[n].found = Told(n)
                       /\ scan[n].found # hinted => scan[n].node = At(n)
           S == {n \in 0 .. N : Right(n)}
<1>0. /\ IsTrie(nodes)
      /\ \A m \in nodes : Outputs(hints, m) \subseteq hinted
      /\ \A c \in Symbol, m \in nodes : step[c][m] = After(nodes, m, c)
      /\ \A m \in nodes : report[m] = Heard(hints, nodes, m)
  BY DEF Scans
<1> USE <1>0
<1>1. N \in Nat /\ \A n \in 1 .. N : symbols[n] \in Symbol
  OBVIOUS
<1>2. \A w : Heard(hints, nodes, w) \subseteq hinted
  BY DEF Heard, Ending
<1>3. ASSUME NEW m \in nodes, NEW c \in Symbol PROVE After(nodes, m, c) \in nodes
  <2>1. Append(m, c) \in Seq(Symbol)
    BY AppendProperties DEF IsTrie
  <2> QED
    BY <2>1, DeepestFacts DEF After
<1>4. \A v \in V, c \in Symbol : Advance(step, report, hinted, v, c) \in V
  BY <1>2, <1>3 DEF Advance
<1>5. [node |-> <<>>, found |-> {}] \in V
  BY DEF IsTrie
<1> HIDE DEF V, N
<1>6. /\ scan \in [0 .. N -> V]
      /\ scan[0] = [node |-> <<>>, found |-> {}]
      /\ \A n \in 1 .. N : scan[n] = Advance(step, report, hinted, scan[n - 1], symbols[n])
  BY <1>4, <1>5, ScanningDefined DEF N
<1> HIDE DEF scan
<1>7. 0 \in S
  <2>1. Begun(0) = <<>>
    BY SubSeqEmpty
  <2>2. Deepest(Ending(nodes, <<>>)) = <<>>
    BY DeepestFacts DEF IsTrie
  <2>3. Told(0) = {}
    OBVIOUS
  <2>4. scan[0].node = <<>> /\ scan[0].found = {}
    BY <1>6
  <2>5. At(0) = <<>>
    BY <2>1, <2>2
  <2> HIDE DEF Told, At
  <2>6. Right(0)
    BY <2>3, <2>4, <2>5
  <2>7. 0 \in 0 .. N
    BY <1>1
  <2> HIDE DEF Right
  <2> QED
    BY <2>6, <2>7
<1>8. ASSUME NEW n \in 0 .. N, n < N, n \in S PROVE n + 1 \in S
  <2>1. n + 1 \in 1 .. N /\ n + 1 \in 0 .. N /\ (n + 1) - 1 = n /\ n \in Nat /\ n < Len(symbols)
    BY <1>1, <1>8 DEF N
  <2> DEFINE c == symbols[n + 1]
             d == At(n)
  <2>2. scan[n + 1] = Advance(step, report, hinted, scan[n], c)
    BY <1>6, <2>1
  <2>3. Begun(n) \in Seq(Symbol) /\ Begun(n + 1) \in Seq(Symbol) /\ Begun(n + 1) = Append(Begun(n), c)
    BY <2>1, PrefixGrows
  <2>4. c \in Symbol
    BY <1>1, <2>1
  <2>5. Told(n + 1) = Told(n) \cup Heard(hints, nodes, Begun(n + 1))
    <3>1. 1 .. (n + 1) = (1 .. n) \cup {n + 1}
      BY <2>1
    <3> HIDE DEF Read
    <3> QED
      BY <3>1
  <2> HIDE DEF Read, Told, c
  <2>6. d \in nodes /\ Ending(nodes, d) = Ending(nodes, Begun(n))
    BY <2>3, DeepestFacts
  <2>7. d \in Seq(Symbol)
    BY <2>6 DEF IsTrie
  <2>8. Ending(nodes, Append(d, c)) = Ending(nodes, Append(Begun(n), c))
    BY <2>3, <2>4, <2>6, <2>7, EndingAppend
  <2>9. After(nodes, d, c) = At(n + 1)
    BY <2>3, <2>8 DEF After
  <2>10. At(n + 1) \in nodes /\ Ending(nodes, At(n + 1)) = Ending(nodes, Begun(n + 1))
    BY <2>3, DeepestFacts
  <2>11. Heard(hints, nodes, At(n + 1)) = Heard(hints, nodes, Begun(n + 1))
    BY <2>10 DEF Heard
  <2> HIDE DEF At
  <2>12. scan[n].found = Told(n) /\ (scan[n].found # hinted => scan[n].node = d)
    BY <1>8
  <2>13. CASE scan[n].found = hinted
    <3>1. scan[n + 1] = scan[n]
      BY <2>2, <2>13 DEF Advance
    <3>2. Told(n + 1) = Told(n) /\ Told(n) = hinted
      BY <1>2, <2>5, <2>12, <2>13
    <3> QED
      BY <2>1, <2>12, <2>13, <3>1, <3>2
  <2>14. CASE scan[n].found # hinted
    <3>1. scan[n].node = d
      BY <2>12, <2>14
    <3>2. step[c][scan[n].node] = At(n + 1)
      BY <2>4, <2>6, <2>9, <3>1
    <3>3. report[At(n + 1)] = Heard(hints, nodes, Begun(n + 1))
      BY <2>10, <2>11
    <3>4. scan[n + 1] = [node |-> At(n + 1), found |-> Told(n) \cup Heard(hints, nodes, Begun(n + 1))]
      BY <2>2, <2>12, <2>14, <3>2, <3>3 DEF Advance
    <3>5. scan[n + 1].node = At(n + 1) /\ scan[n + 1].found = Told(n + 1)
      BY <2>5, <3>4
    <3> QED
      BY <2>1, <3>5
  <2> QED
    BY <2>13, <2>14
<1>9. Right(N)
  <2> HIDE DEF Right
  <2>1. 0 .. N \subseteq S
    <3> HIDE DEF S
    <3> QED
      BY <1>1, <1>7, <1>8, CountingUp
  <2> QED
    BY <1>1, <2>1
<1> QED
  BY <1>9 DEF ScanWith, scan, N

-----------------------------------------------------------------------------
(* Words and their boundaries. *)

(* Two sequences, one behind the other. *)
LEMMA JoinFacts ==
  ASSUME NEW S, NEW s \in Seq(S), NEW t \in Seq(S)
  PROVE  /\ s \o t \in Seq(S) /\ Len(s \o t) = Len(s) + Len(t)
         /\ Len(s) \in Nat /\ Len(t) \in Nat /\ Len(s \o t) \in Nat
         /\ \A i \in 1 .. Len(s) : (s \o t)[i] = s[i]
         /\ \A i \in 1 .. Len(t) : (s \o t)[Len(s) + i] = t[i]
OBVIOUS

(* A byte is a symbol, but for the boundary. *)
LEMMA ByteFacts == ASSUME NEW c \in Bytes PROVE c \in Symbol /\ c # Boundary
BY HintAssumptions DEF Symbol

(* So is the boundary. *)
LEMMA BoundaryIsSymbol == Boundary \in Symbol /\ <<Boundary>> \in Seq(Symbol) /\ <<>> \in Seq(Symbol)
BY DEF Symbol

(* A further byte, with a boundary before it or without. *)
LEMMA GrowFacts ==
  ASSUME NEW x \in Seq(Symbol), NEW c \in Symbol, NEW b \in BOOLEAN, NEW y,
         y = x \o (IF b THEN <<Boundary>> ELSE <<>>) \o <<c>>
  PROVE  /\ y \in Seq(Symbol) /\ Len(x) \in Nat
         /\ (b /\ Len(y) = Len(x) + 2) \/ (~ b /\ Len(y) = Len(x) + 1)
         /\ \A i \in 1 .. Len(x) : y[i] = x[i]
         /\ y[Len(y)] = c
         /\ b => y[Len(y) - 1] = Boundary
<1> DEFINE e == IF b THEN <<Boundary>> ELSE <<>>
           t == <<c>>
           z == x \o e
<1>1. e \in Seq(Symbol) /\ Len(e) = (IF b THEN 1 ELSE 0) /\ (b => e[1] = Boundary)
  BY BoundaryIsSymbol
<1>2. t \in Seq(Symbol) /\ Len(t) = 1 /\ t[1] = c
  OBVIOUS
<1>3. y = z \o t
  BY Zenon
<1> HIDE DEF e, t
<1>4. /\ z \in Seq(Symbol) /\ Len(z) = Len(x) + Len(e) /\ Len(x) \in Nat /\ Len(e) \in Nat /\ Len(z) \in Nat
      /\ \A i \in 1 .. Len(x) : z[i] = x[i]
      /\ \A i \in 1 .. Len(e) : z[Len(x) + i] = e[i]
  BY <1>1, JoinFacts
<1> HIDE DEF z
<1>5. /\ y \in Seq(Symbol) /\ Len(y) = Len(z) + Len(t)
      /\ \A i \in 1 .. Len(z) : y[i] = z[i]
      /\ \A i \in 1 .. Len(t) : y[Len(z) + i] = t[i]
  <2>1. /\ z \o t \in Seq(Symbol) /\ Len(z \o t) = Len(z) + Len(t)
        /\ \A i \in 1 .. Len(z) : (z \o t)[i] = z[i]
        /\ \A i \in 1 .. Len(t) : (z \o t)[Len(z) + i] = t[i]
    <3>1. z \in Seq(Symbol) /\ t \in Seq(Symbol)
      BY <1>2, <1>4
    <3> QED
      BY <3>1, JoinFacts
  <2> QED
    BY <1>3, <2>1, Zenon
<1>6. y[Len(y)] = c
  BY <1>2, <1>4, <1>5
<1>7. \A i \in 1 .. Len(x) : y[i] = x[i]
  BY <1>1, <1>4, <1>5
<1>8. ASSUME b PROVE y[Len(y) - 1] = Boundary
  <2>1. Len(y) - 1 = Len(z) /\ Len(z) = Len(x) + 1 /\ Len(e) = 1 /\ Len(z) \in 1 .. Len(z)
    BY <1>1, <1>2, <1>4, <1>5, <1>8
  <2>2. z[Len(x) + 1] = e[1]
    BY <1>4, <2>1
  <2>3. y[Len(z)] = z[Len(z)] /\ z[Len(z)] = e[1]
    BY <1>5, <2>1, <2>2
  <2> QED
    BY <1>1, <1>8, <2>1, <2>3
<1>9. (b /\ Len(y) = Len(x) + 2) \/ (~ b /\ Len(y) = Len(x) + 1)
  BY <1>1, <1>2, <1>4, <1>5
<1> QED
  BY <1>4, <1>5, <1>6, <1>7, <1>8, <1>9

(* There is a boundary before a byte, or none. *)
LEMMA BoundaryIsBoolean ==
  ASSUME NEW text, NEW n PROVE BoundaryBefore(text, n) \in BOOLEAN
<1>1. CASE n = 1
  BY <1>1 DEF BoundaryBefore
<1>2. CASE n # 1
  BY <1>2, Zenon DEF BoundaryBefore
<1> QED
  BY <1>1, <1>2

(* The symbols up to a byte are what their definition says. *)
LEMMA SymbolsDefined ==
  ASSUME NEW text \in Seq(Bytes)
  PROVE  LET upTo == SymbolsUpTo(text)
         IN /\ upTo \in [0 .. Len(text) -> Seq(Symbol)]
            /\ upTo[0] = <<>>
            /\ \A n \in 1 .. Len(text) :
                 upTo[n] = upTo[n - 1] \o (IF BoundaryBefore(text, n) THEN <<Boundary>> ELSE <<>>)
                             \o <<text[n]>>
<1> DEFINE N == Len(text)
           Grown(v, n) == v \o (IF BoundaryBefore(text, n) THEN <<Boundary>> ELSE <<>>) \o <<text[n]>>
           Value(f, n) == IF n = 0 THEN <<>> ELSE Grown(f[n - 1], n)
           Solves(f) == f = [n \in 0 .. N |-> Value(f, n)]
           V == Seq(Symbol)
           T == [n \in 1 .. N |-> [v \in V |-> Grown(v, n)]]
           b == <<>>
           g == CHOOSE f : Solves(f)
<1>1. N \in Nat /\ \A n \in 1 .. N : text[n] \in Symbol
  BY ByteFacts
<1>2. \A v \in V, n \in 1 .. N : Grown(v, n) \in V
  BY <1>1, BoundaryIsBoolean, GrowFacts
<1>3. b \in V
  OBVIOUS
<1>4. SymbolsUpTo(text) = g
  BY DEF SymbolsUpTo
<1> HIDE DEF N, Grown, V, g
<1>5. T \in [1 .. N -> [V -> V]]
  BY <1>2
<1>6. \E f : Works(V, b, T, f, N)
  <2> HIDE DEF T, b
  <2> QED
    BY <1>1, <1>3, <1>5, StepByStep
<1>7. PICK f \in [0 .. N -> V] : f[0] = b /\ \A n \in 1 .. N : f[n] = T[n][f[n - 1]]
  BY <1>6 DEF Works
<1>8. Solves(f)
  <2>1. ASSUME NEW n \in 0 .. N PROVE f[n] = Value(f, n)
    <3>1. CASE n = 0
      BY <1>7, <3>1
    <3>2. CASE n # 0
      <4>1. n \in 1 .. N /\ n - 1 \in 0 .. N
        BY <1>1, <3>2
      <4>2. f[n - 1] \in V
        BY <4>1
      <4> QED
        BY <1>7, <3>2, <4>1, <4>2
    <3> QED
      BY <3>1, <3>2
  <2> HIDE DEF Value
  <2> QED
    BY <2>1
<1>9. Solves(g)
  <2> HIDE DEF Solves
  <2> QED
    BY <1>8 DEF g
<1>10. g = [n \in 0 .. N |-> g[n]] /\ \A n \in 0 .. N : g[n] = Value(g, n)
  <2> HIDE DEF Value
  <2> QED
    BY <1>9
<1>11. g[0] = b /\ \A n \in 1 .. N : g[n] = Grown(g[n - 1], n)
  BY <1>1, <1>10
<1>12. \A n \in 0 .. N : g[n] \in V
  <2> DEFINE S == {n \in 0 .. N : g[n] \in V}
  <2>1. 0 \in S
    BY <1>1, <1>3, <1>11
  <2>2. ASSUME NEW n \in 0 .. N, n < N, n \in S PROVE n + 1 \in S
    <3>1. n + 1 \in 1 .. N /\ n + 1 \in 0 .. N /\ (n + 1) - 1 = n
      BY <1>1, <2>2
    <3>2. g[n + 1] = Grown(g[n], n + 1)
      BY <1>11, <3>1
    <3> QED
      BY <1>2, <2>2, <3>1, <3>2
  <2>3. 0 .. N \subseteq S
    <3> HIDE DEF S
    <3> QED
      BY <1>1, <2>1, <2>2, CountingUp
  <2> QED
    BY <2>3
<1>13. g \in [0 .. N -> V]
  <2> HIDE DEF Solves, Value
  <2> QED
    BY <1>10, <1>12
<1> QED
  BY <1>4, <1>11, <1>13 DEF N, V, Grown

(* Where each byte of a text is among its symbols. *)
Laid(text, s, spot) ==
  /\ s \in Seq(Symbol)
  /\ spot \in [0 .. Len(text) -> Nat] /\ spot[0] = 0
  /\ \A n \in 1 .. Len(text) :
       /\ \/ BoundaryBefore(text, n) /\ spot[n] = spot[n - 1] + 2
          \/ ~ BoundaryBefore(text, n) /\ spot[n] = spot[n - 1] + 1
       /\ spot[n] <= Len(s) /\ s[spot[n]] = text[n]
       /\ BoundaryBefore(text, n) => s[spot[n] - 1] = Boundary
  /\ \A q \in 1 .. Len(s) :
       \/ \E n \in 1 .. Len(text) : q = spot[n] \/ (BoundaryBefore(text, n) /\ q = spot[n] - 1)
       \/ BoundaryAtEnd(text) /\ q = Len(s)
  /\ Len(s) = spot[Len(text)] + (IF BoundaryAtEnd(text) THEN 1 ELSE 0)
  /\ BoundaryAtEnd(text) => s[Len(s)] = Boundary

(* Every byte of a text has its spot in the text's symbols. *)
LEMMA SymbolsAreLaid ==
  ASSUME NEW text \in Seq(Bytes)
  PROVE  \E spot : Laid(text, Symbols(text), spot)
<1> DEFINE N == Len(text)
           u == SymbolsUpTo(text)
           B(n) == BoundaryBefore(text, n)
           spot == [n \in 0 .. N |-> Len(u[n])]
           Right(n) ==
             /\ \A k \in 1 .. n :
                  /\ spot[k] \in 1 .. Len(u[n]) /\ u[n][spot[k]] = text[k]
                  /\ B(k) => spot[k] - 1 \in 1 .. Len(u[n]) /\ u[n][spot[k] - 1] = Boundary
             /\ \A q \in 1 .. Len(u[n]) :
                  \E k \in 1 .. n : q = spot[k] \/ (B(k) /\ q = spot[k] - 1)
           S == {n \in 0 .. N : Right(n)}
<1>1. N \in Nat /\ \A n \in 1 .. N : text[n] \in Symbol
  BY ByteFacts
<1>2. /\ u \in [0 .. N -> Seq(Symbol)] /\ u[0] = <<>>
      /\ \A n \in 1 .. N :
           u[n] = u[n - 1] \o (IF B(n) THEN <<Boundary>> ELSE <<>>) \o <<text[n]>>
  BY SymbolsDefined
<1> HIDE DEF u, N
<1>3. \A n \in 0 .. N : u[n] \in Seq(Symbol) /\ Len(u[n]) \in Nat /\ spot[n] = Len(u[n])
  BY <1>2
<1>4. spot \in [0 .. N -> Nat]
  BY <1>3
<1> HIDE DEF spot, B
<1>5. ASSUME NEW n \in 1 .. N
      PROVE  /\ n - 1 \in 0 .. N /\ n \in 0 .. N
             /\ \/ B(n) /\ Len(u[n]) = Len(u[n - 1]) + 2
                \/ ~ B(n) /\ Len(u[n]) = Len(u[n - 1]) + 1
             /\ \A i \in 1 .. Len(u[n - 1]) : u[n][i] = u[n - 1][i]
             /\ u[n][Len(u[n])] = text[n]
             /\ B(n) => u[n][Len(u[n]) - 1] = Boundary
  <2>1. n - 1 \in 0 .. N /\ n \in 0 .. N /\ text[n] \in Symbol
    BY <1>1
  <2>2. u[n] = u[n - 1] \o (IF B(n) THEN <<Boundary>> ELSE <<>>) \o <<text[n]>>
    BY <1>2
  <2>3. B(n) \in BOOLEAN
    BY BoundaryIsBoolean DEF B
  <2>4. u[n - 1] \in Seq(Symbol)
    BY <1>3, <2>1
  <2> DEFINE x == u[n - 1]
             y == u[n]
             b == B(n)
             c == text[n]
  <2>5. y = x \o (IF b THEN <<Boundary>> ELSE <<>>) \o <<c>>
    BY <2>2
  <2>6. b \in BOOLEAN /\ x \in Seq(Symbol) /\ c \in Symbol
    BY <2>1, <2>3, <2>4
  <2> HIDE DEF x, y, b, c
  <2>7. /\ (b /\ Len(y) = Len(x) + 2) \/ (~ b /\ Len(y) = Len(x) + 1)
        /\ \A i \in 1 .. Len(x) : y[i] = x[i]
        /\ y[Len(y)] = c
        /\ b => y[Len(y) - 1] = Boundary
    BY <2>5, <2>6, GrowFacts
  <2> QED
    BY <2>1, <2>7 DEF x, y, b, c
<1>6. 0 \in S
  <2>1. Len(u[0]) = 0
    BY <1>2
  <2> QED
    BY <1>1, <2>1
<1>7. ASSUME NEW m \in 0 .. N, m < N, m \in S PROVE m + 1 \in S
  <2> DEFINE n == m + 1
  <2>1. n \in 1 .. N /\ n - 1 = m /\ n \in 0 .. N
    BY <1>1, <1>7
  <2> HIDE DEF n
  <2>2. /\ \/ B(n) /\ Len(u[n]) = Len(u[m]) + 2
           \/ ~ B(n) /\ Len(u[n]) = Len(u[m]) + 1
        /\ \A i \in 1 .. Len(u[m]) : u[n][i] = u[m][i]
        /\ u[n][Len(u[n])] = text[n]
        /\ B(n) => u[n][Len(u[n]) - 1] = Boundary
    BY <1>5, <2>1
  <2>3. Len(u[n]) \in Nat /\ Len(u[m]) \in Nat /\ spot[n] = Len(u[n])
    BY <1>3, <2>1
  <2>4. ASSUME NEW k \in 1 .. n
        PROVE  /\ spot[k] \in 1 .. Len(u[n]) /\ u[n][spot[k]] = text[k]
               /\ B(k) => spot[k] - 1 \in 1 .. Len(u[n]) /\ u[n][spot[k] - 1] = Boundary
    <3>1. CASE k = n
      <4>1. Len(u[n]) \in 1 .. Len(u[n]) /\ (B(n) => Len(u[n]) - 1 \in 1 .. Len(u[n]))
        BY <2>2, <2>3
      <4> QED
        BY <2>2, <2>3, <3>1, <4>1
    <3>2. CASE k # n
      <4>1. k \in 1 .. m
        BY <2>1, <3>2
      <4>2. /\ spot[k] \in 1 .. Len(u[m]) /\ u[m][spot[k]] = text[k]
            /\ B(k) => spot[k] - 1 \in 1 .. Len(u[m]) /\ u[m][spot[k] - 1] = Boundary
        BY <1>7, <4>1
      <4>3. \A i \in 1 .. Len(u[m]) : i \in 1 .. Len(u[n])
        BY <2>2, <2>3
      <4> QED
        BY <2>2, <4>2, <4>3
    <3> QED
      BY <3>1, <3>2
  <2>5. ASSUME NEW q \in 1 .. Len(u[n])
        PROVE  \E k \in 1 .. n : q = spot[k] \/ (B(k) /\ q = spot[k] - 1)
    <3>1. CASE q \in 1 .. Len(u[m])
      <4>1. PICK k \in 1 .. m : q = spot[k] \/ (B(k) /\ q = spot[k] - 1)
        BY <1>7, <3>1
      <4>2. k \in 1 .. n
        BY <2>1
      <4> QED
        BY <4>1, <4>2
    <3>2. CASE q \notin 1 .. Len(u[m])
      <4>1. q = Len(u[n]) \/ (B(n) /\ q = Len(u[n]) - 1)
        BY <2>2, <2>3, <3>2
      <4>2. n \in 1 .. n
        BY <2>1
      <4> QED
        BY <2>3, <4>1, <4>2
    <3> QED
      BY <3>1, <3>2
  <2> QED
    BY <2>1, <2>4, <2>5 DEF n
<1>8. Right(N)
  <2> HIDE DEF Right
  <2>1. 0 .. N \subseteq S
    <3> HIDE DEF S
    <3> QED
      BY <1>1, <1>6, <1>7, CountingUp
  <2> QED
    BY <1>1, <2>1
<1> DEFINE e == IF BoundaryAtEnd(text) THEN <<Boundary>> ELSE <<>>
           s == Symbols(text)
<1>9. e \in Seq(Symbol) /\ Len(e) = (IF BoundaryAtEnd(text) THEN 1 ELSE 0)
      /\ (BoundaryAtEnd(text) => e[1] = Boundary) /\ (\A i \in 1 .. Len(e) : e[i] = Boundary)
  BY BoundaryIsSymbol
<1>10. s = u[N] \o e
  BY DEF Symbols, N, u
<1>11. N \in 0 .. N /\ u[N] \in Seq(Symbol) /\ spot[N] = Len(u[N])
  BY <1>1, <1>3
<1> HIDE DEF e, s
<1>12. /\ s \in Seq(Symbol) /\ Len(s) = Len(u[N]) + Len(e)
       /\ Len(u[N]) \in Nat /\ Len(e) \in Nat /\ Len(s) \in Nat
       /\ \A i \in 1 .. Len(u[N]) : s[i] = u[N][i]
       /\ \A i \in 1 .. Len(e) : s[Len(u[N]) + i] = e[i]
  <2> DEFINE x == u[N]
  <2>1. x \in Seq(Symbol) /\ e \in Seq(Symbol)
    BY <1>9, <1>11
  <2> HIDE DEF x
  <2>2. /\ x \o e \in Seq(Symbol) /\ Len(x \o e) = Len(x) + Len(e)
        /\ Len(x) \in Nat /\ Len(e) \in Nat /\ Len(x \o e) \in Nat
        /\ \A i \in 1 .. Len(x) : (x \o e)[i] = x[i]
        /\ \A i \in 1 .. Len(e) : (x \o e)[Len(x) + i] = e[i]
    BY <2>1, JoinFacts
  <2> QED
    BY <1>10, <2>2, Zenon DEF x
<1>13. ASSUME NEW n \in 1 .. N
       PROVE  /\ (B(n) /\ spot[n] = spot[n - 1] + 2) \/ (~ B(n) /\ spot[n] = spot[n - 1] + 1)
              /\ spot[n] <= Len(s) /\ s[spot[n]] = text[n]
              /\ B(n) => s[spot[n] - 1] = Boundary
  <2>1. (B(n) /\ spot[n] = spot[n - 1] + 2) \/ (~ B(n) /\ spot[n] = spot[n - 1] + 1)
    BY <1>3, <1>5
  <2>2. /\ spot[n] \in 1 .. Len(u[N]) /\ u[N][spot[n]] = text[n]
        /\ B(n) => spot[n] - 1 \in 1 .. Len(u[N]) /\ u[N][spot[n] - 1] = Boundary
    BY <1>8
  <2> QED
    BY <1>12, <2>1, <2>2
<1>14. ASSUME NEW q \in 1 .. Len(s)
       PROVE  \/ \E n \in 1 .. N : q = spot[n] \/ (B(n) /\ q = spot[n] - 1)
              \/ BoundaryAtEnd(text) /\ q = Len(s)
  <2>1. CASE q \in 1 .. Len(u[N])
    BY <1>8, <2>1
  <2>2. CASE q \notin 1 .. Len(u[N])
    <3>1. Len(e) # 0 /\ Len(u[N]) < q
      BY <1>12, <2>2
    <3>2. BoundaryAtEnd(text) /\ Len(e) = 1
      BY <1>9, <3>1
    <3>3. q = Len(s)
      BY <1>12, <3>1, <3>2
    <3> QED
      BY <3>2, <3>3
  <2> QED
    BY <2>1, <2>2
<1>15. Len(s) = spot[N] + (IF BoundaryAtEnd(text) THEN 1 ELSE 0)
  BY <1>9, <1>11, <1>12
<1>16. ASSUME BoundaryAtEnd(text) PROVE s[Len(s)] = Boundary
  <2>1. Len(e) = 1 /\ 1 \in 1 .. Len(e) /\ e[1] = Boundary
    BY <1>9, <1>16
  <2>2. s[Len(u[N]) + 1] = Boundary
    BY <1>12, <2>1
  <2> QED
    BY <1>12, <2>1, <2>2
<1>17. spot[0] = 0
  BY <1>1, <1>2, <1>3
<1> HIDE DEF Right, S
<1>18. Laid(text, s, spot)
  BY <1>4, <1>12, <1>13, <1>14, <1>15, <1>16, <1>17 DEF Laid, N, B
<1> QED
  BY <1>18 DEF s

(* Spots follow each other as the bytes do. *)
LEMMA SpotsAscend ==
  ASSUME NEW text \in Seq(Bytes), NEW s, NEW spot, Laid(text, s, spot),
         NEW m \in 0 .. Len(text), NEW n \in m .. Len(text)
  PROVE  spot[m] + (n - m) <= spot[n]
<1> DEFINE N == Len(text)
           S == {k \in 0 .. (N - m) : spot[m] + k <= spot[m + k]}
<1>1. N \in Nat /\ m \in Nat /\ N - m \in Nat
  OBVIOUS
<1>2. \A k \in 0 .. N : spot[k] \in Nat
  BY DEF Laid
<1>3. 0 \in S
  BY <1>1, <1>2
<1>4. ASSUME NEW k \in 0 .. (N - m), k < N - m, k \in S PROVE k + 1 \in S
  <2>1. /\ m + (k + 1) \in 1 .. N /\ (m + (k + 1)) - 1 = m + k /\ m + k \in 0 .. N
        /\ k + 1 \in 0 .. (N - m) /\ m + (k + 1) \in 0 .. N
    BY <1>1, <1>4
  <2>2. spot[m + (k + 1)] = spot[m + k] + 2 \/ spot[m + (k + 1)] = spot[m + k] + 1
    BY <2>1 DEF Laid
  <2>3. spot[m + k] < spot[m + (k + 1)]
    BY <1>2, <2>1, <2>2
  <2>4. spot[m] + k <= spot[m + k]
    BY <1>4
  <2> QED
    BY <1>1, <1>2, <2>1, <2>3, <2>4
<1>5. 0 .. (N - m) \subseteq S
  <2> HIDE DEF S, N
  <2> QED
    BY <1>1, <1>3, <1>4, CountingUp
<1>6. n - m \in S
  BY <1>1, <1>5
<1>7. m + (n - m) = n
  BY <1>1
<1> QED
  BY <1>6, <1>7

(* A symbol that is no boundary is a byte of the text. *)
LEMMA SpotFacts ==
  ASSUME NEW text \in Seq(Bytes), NEW s, NEW spot, Laid(text, s, spot)
  PROVE  /\ Len(s) \in Nat /\ Len(text) \in Nat
         /\ \A n \in 0 .. Len(text) : spot[n] \in Nat
         /\ \A n \in 1 .. Len(text) :
              spot[n] \in 1 .. Len(s) /\ text[n] \in Bytes /\ s[spot[n]] # Boundary
         /\ \A q \in 1 .. Len(s) : s[q] # Boundary => \E n \in 1 .. Len(text) : q = spot[n]
<1>1. Len(s) \in Nat /\ Len(text) \in Nat /\ \A n \in 0 .. Len(text) : spot[n] \in Nat
  BY DEF Laid
<1>2. ASSUME NEW n \in 1 .. Len(text)
      PROVE  spot[n] \in 1 .. Len(s) /\ text[n] \in Bytes /\ s[spot[n]] # Boundary
  <2>1. n - 1 \in 0 .. Len(text) /\ n \in 0 .. Len(text) /\ text[n] \in Bytes
    BY <1>1
  <2>2. spot[n - 1] \in Nat /\ spot[n] \in Nat
    BY <1>1, <2>1
  <2>3. spot[n] = spot[n - 1] + 2 \/ spot[n] = spot[n - 1] + 1
    BY DEF Laid
  <2>4. spot[n] <= Len(s) /\ s[spot[n]] = text[n]
    BY DEF Laid
  <2> QED
    BY <1>1, <2>1, <2>2, <2>3, <2>4, ByteFacts
<1>3. ASSUME NEW q \in 1 .. Len(s), s[q] # Boundary PROVE \E n \in 1 .. Len(text) : q = spot[n]
  <2>1. CASE BoundaryAtEnd(text) /\ q = Len(s)
    BY <1>3, <2>1 DEF Laid
  <2>2. CASE \E n \in 1 .. Len(text) : q = spot[n] \/ (BoundaryBefore(text, n) /\ q = spot[n] - 1)
    <3>1. PICK n \in 1 .. Len(text) : q = spot[n] \/ (BoundaryBefore(text, n) /\ q = spot[n] - 1)
      BY <2>2
    <3>2. BoundaryBefore(text, n) => s[spot[n] - 1] = Boundary
      BY DEF Laid
    <3> QED
      BY <1>3, <3>1, <3>2
  <2> QED
    BY <2>1, <2>2 DEF Laid
<1> QED
  BY <1>1, <1>2, <1>3

(* A sequence carries another one after its first o entries. *)
Carries(s, m, o) == o + Len(m) <= Len(s) /\ \A r \in 1 .. Len(m) : s[o + r] = m[r]

(* A hint that stands in a text as a word of its own is carried by its symbols. *)
LEMMA StandingIsCarried ==
  ASSUME NEW text \in Seq(Bytes), NEW h \in Seq(Bytes), h # <<>>,
         NEW i \in 1 .. Len(text), StandsAt(h, text, i)
  PROVE  \E o \in Nat : Carries(Symbols(text), Symbols(h), o)
<1> DEFINE s == Symbols(text)
           g == Symbols(h)
           K == Len(h)
           N == Len(text)
<1>1. PICK st : Laid(text, s, st)
  BY SymbolsAreLaid
<1>2. PICK sh : Laid(h, g, sh)
  BY SymbolsAreLaid
<1> HIDE DEF s, g
<1> DEFINE o == st[i] - sh[1]
<1>3. /\ K \in Nat \ {0} /\ N \in Nat /\ i + K - 1 \in 1 .. N /\ i \in Nat
      /\ 1 \in 1 .. K /\ K \in 1 .. K
  BY EmptySeq DEF StandsAt
<1>4. \A n \in 1 .. K : i + n - 1 \in 1 .. N /\ text[i + n - 1] = h[n]
  <2>1. \A r \in i .. (i + K - 1) : text[r] \in Bytes
    BY <1>3
  <2> DEFINE a == i
             b == i + K - 1
             t == SubSeq(text, a, b)
  <2>2. a \in Int /\ b \in Int /\ b - a + 1 = K
    BY <1>3
  <2>3. \A r \in a .. b : text[r] \in Bytes
    BY <2>1
  <2> HIDE DEF a, b
  <2>4. \A r \in 1 .. b - a + 1 : t[r] = text[a + r - 1]
    BY <2>2, <2>3, SubSeqProperties
  <2>5. t = h
    BY DEF a, b, StandsAt
  <2>6. \A n \in 1 .. K : h[n] = text[i + n - 1]
    BY <2>2, <2>4, <2>5 DEF a
  <2> QED
    BY <1>3, <2>6
<1>5. text[i] = h[1]
  BY <1>3, <1>4
<1>6. BoundaryBefore(h, 1) => BoundaryBefore(text, i)
  <2>1. ASSUME h[1] \in WordBytes PROVE BoundaryBefore(text, i)
    <3>1. CASE i = 1
      BY <1>5, <2>1, <3>1 DEF BoundaryBefore
    <3>2. CASE i # 1
      <4>1. i > 1
        BY <1>3, <3>2
      <4>2. text[i - 1] \notin WordBytes
        BY <2>1, <4>1 DEF StandsAt
      <4> QED
        BY <1>5, <2>1, <3>2, <4>2 DEF BoundaryBefore
    <3> QED
      BY <3>1, <3>2
  <2> QED
    BY <2>1 DEF BoundaryBefore
<1>7. ASSUME NEW n \in 2 .. K PROVE BoundaryBefore(h, n) <=> BoundaryBefore(text, i + n - 1)
  <2>1. n - 1 \in 1 .. K /\ n \in 1 .. K /\ n # 1 /\ i + n - 1 # 1
        /\ i + (n - 1) - 1 = (i + n - 1) - 1
    BY <1>3
  <2>2. text[i + n - 1] = h[n] /\ text[(i + n - 1) - 1] = h[n - 1]
    BY <1>4, <2>1
  <2>3. BoundaryBefore(h, n) <=> (h[n - 1] \in WordBytes) # (h[n] \in WordBytes)
    BY <2>1, Zenon DEF BoundaryBefore
  <2>4. BoundaryBefore(text, i + n - 1) <=>
          (text[(i + n - 1) - 1] \in WordBytes) # (text[i + n - 1] \in WordBytes)
    BY <2>1, Zenon DEF BoundaryBefore
  <2> QED
    BY <2>2, <2>3, <2>4, Zenon
<1>8. /\ \A n \in 0 .. N : st[n] \in Nat
      /\ \A n \in 0 .. K : sh[n] \in Nat
      /\ Len(s) \in Nat /\ Len(g) \in Nat
  BY <1>1, <1>2, SpotFacts
<1>9. o \in Nat
  <2>1. sh[0] = 0
    BY <1>2 DEF Laid
  <2>2. \/ BoundaryBefore(h, 1) /\ sh[1] = sh[1 - 1] + 2
        \/ ~ BoundaryBefore(h, 1) /\ sh[1] = sh[1 - 1] + 1
    BY <1>2, <1>3 DEF Laid
  <2>3. \/ BoundaryBefore(text, i) /\ st[i] = st[i - 1] + 2
        \/ ~ BoundaryBefore(text, i) /\ st[i] = st[i - 1] + 1
    BY <1>1 DEF Laid
  <2>4. i - 1 \in 0 .. N /\ 1 - 1 = 0
    BY <1>3
  <2>5. st[i - 1] \in Nat
    BY <1>8, <2>4
  <2> QED
    BY <1>6, <2>1, <2>2, <2>3, <2>4, <2>5
<1>10. \A n \in 1 .. K : st[i + n - 1] = o + sh[n]
  <2> DEFINE S == {k \in 0 .. (K - 1) : st[i + k] = o + sh[k + 1]}
  <2>1. 0 \in S
    <3>1. st[i] \in Nat /\ sh[1] \in Nat
      BY <1>3, <1>8
    <3> QED
      BY <1>3, <3>1
  <2>2. ASSUME NEW k \in 0 .. (K - 1), k < K - 1, k \in S PROVE k + 1 \in S
    <3> DEFINE n == k + 2
    <3>1. /\ n \in 2 .. K /\ n \in 1 .. K /\ n - 1 = k + 1 /\ i + n - 1 = i + (k + 1)
          /\ (i + n - 1) - 1 = i + k /\ n = (k + 1) + 1 /\ k + 1 \in 0 .. (K - 1)
          /\ n - 1 \in 0 .. K /\ (i + n - 1) - 1 \in 0 .. N
      BY <1>3, <2>2
    <3> HIDE DEF n
    <3>2. \/ BoundaryBefore(h, n) /\ sh[n] = sh[n - 1] + 2
          \/ ~ BoundaryBefore(h, n) /\ sh[n] = sh[n - 1] + 1
      BY <1>2, <3>1 DEF Laid
    <3>3. i + n - 1 \in 1 .. N
      BY <1>4, <3>1
    <3>4. \/ BoundaryBefore(text, i + n - 1) /\ st[i + n - 1] = st[(i + n - 1) - 1] + 2
          \/ ~ BoundaryBefore(text, i + n - 1) /\ st[i + n - 1] = st[(i + n - 1) - 1] + 1
      BY <1>1, <3>3 DEF Laid
    <3>5. BoundaryBefore(h, n) <=> BoundaryBefore(text, i + n - 1)
      BY <1>7, <3>1
    <3>6. st[(i + n - 1) - 1] = o + sh[n - 1]
      BY <2>2, <3>1
    <3>7. sh[n - 1] \in Nat
      BY <1>8, <3>1
    <3> HIDE DEF o
    <3>8. st[i + n - 1] = o + sh[n]
      BY <1>9, <3>2, <3>4, <3>5, <3>6, <3>7
    <3> QED
      BY <3>1, <3>8
  <2>3. 0 .. (K - 1) \subseteq S
    <3>1. K - 1 \in Nat
      BY <1>3
    <3> HIDE DEF S
    <3> QED
      BY <2>1, <2>2, <3>1, CountingUp
  <2>4. ASSUME NEW n \in 1 .. K PROVE st[i + n - 1] = o + sh[n]
    <3>1. n - 1 \in 0 .. (K - 1) /\ i + (n - 1) = i + n - 1 /\ (n - 1) + 1 = n
      BY <1>3
    <3>2. st[i + (n - 1)] = o + sh[(n - 1) + 1]
      BY <2>3, <3>1
    <3> QED
      BY <3>1, <3>2
  <2> QED
    BY <2>4
<1> HIDE DEF o, K, N
<1>11. ASSUME BoundaryAtEnd(h)
       PROVE  /\ Len(g) = sh[K] + 1 /\ st[i + K - 1] + 1 <= Len(s)
              /\ s[st[i + K - 1] + 1] = Boundary
  <2>1. Last(h) \in WordBytes /\ Last(h) = h[K]
    BY <1>11 DEF BoundaryAtEnd, Last, K
  <2>2. Len(g) = sh[K] + 1
    BY <1>2, <1>11 DEF Laid, K
  <2>3. text[i + K - 1] = h[K] /\ i + K - 1 \in 1 .. N
    BY <1>3, <1>4
  <2>4. CASE i + K - 1 = N
    <3>1. BoundaryAtEnd(text)
      <4>1. text # <<>>
        BY <1>3, <2>3 DEF N
      <4> QED
        BY <2>1, <2>3, <2>4, <4>1 DEF BoundaryAtEnd, Last, N
    <3>2. Len(s) = st[N] + 1 /\ s[Len(s)] = Boundary
      BY <1>1, <3>1 DEF Laid, N
    <3> QED
      BY <1>8, <2>2, <2>4, <3>2
  <2>5. CASE i + K - 1 # N
    <3> DEFINE n == i + K
    <3>1. n \in 1 .. N /\ n # 1 /\ n - 1 = i + K - 1 /\ i + K <= N /\ n - 1 \in 0 .. N
      BY <1>3, <2>5
    <3>2. text[n] \notin WordBytes
      BY <2>1, <3>1 DEF StandsAt, K, N
    <3>3. text[n - 1] \in WordBytes
      BY <2>1, <2>3, <3>1
    <3> HIDE DEF n
    <3>4. BoundaryBefore(text, n)
      BY <3>1, <3>2, <3>3 DEF BoundaryBefore
    <3>5. st[n] = st[n - 1] + 2 /\ st[n] <= Len(s) /\ s[st[n] - 1] = Boundary
      BY <1>1, <3>1, <3>4 DEF Laid, N
    <3>6. st[n - 1] \in Nat
      BY <1>8, <3>1
    <3>7. st[n - 1] + 1 <= Len(s) /\ s[st[n - 1] + 1] = Boundary
      BY <1>8, <3>5, <3>6
    <3> QED
      BY <2>2, <3>1, <3>7
  <2> QED
    BY <2>4, <2>5
<1>12. st[i + K - 1] = o + sh[K] /\ i + K - 1 \in 1 .. N /\ sh[K] \in Nat
  BY <1>3, <1>8, <1>10
<1>13. o + Len(g) <= Len(s)
  <2>1. CASE BoundaryAtEnd(h)
    BY <1>9, <1>11, <1>12, <2>1
  <2>2. CASE ~ BoundaryAtEnd(h)
    <3>1. Len(g) = sh[K]
      BY <1>2, <1>8, <1>12, <2>2 DEF Laid, K
    <3>2. st[i + K - 1] <= Len(s)
      BY <1>1, <1>12 DEF Laid, N
    <3> QED
      BY <1>12, <3>1, <3>2
  <2> QED
    BY <2>1, <2>2
<1>14. ASSUME NEW r \in 1 .. Len(g) PROVE s[o + r] = g[r]
  <2>1. CASE \E n \in 1 .. K : r = sh[n] \/ (BoundaryBefore(h, n) /\ r = sh[n] - 1)
    <3>1. PICK n \in 1 .. K : r = sh[n] \/ (BoundaryBefore(h, n) /\ r = sh[n] - 1)
      BY <2>1
    <3>2. n \in 0 .. K /\ st[i + n - 1] = o + sh[n] /\ i + n - 1 \in 1 .. N
          /\ text[i + n - 1] = h[n]
      BY <1>3, <1>4, <1>10
    <3>3. sh[n] \in Nat
      BY <1>8, <3>2
    <3>4. g[sh[n]] = h[n] /\ (BoundaryBefore(h, n) => g[sh[n] - 1] = Boundary)
      BY <1>2 DEF Laid, K
    <3>5. /\ s[st[i + n - 1]] = text[i + n - 1]
          /\ BoundaryBefore(text, i + n - 1) => s[st[i + n - 1] - 1] = Boundary
      BY <1>1, <3>2 DEF Laid, N
    <3>6. BoundaryBefore(h, n) => BoundaryBefore(text, i + n - 1)
      <4>1. CASE n = 1
        <5>1. i + n - 1 = i
          BY <1>3, <4>1
        <5> QED
          BY <1>6, <4>1, <5>1
      <4>2. CASE n # 1
        <5>1. n \in 2 .. K
          BY <1>3, <4>2
        <5> QED
          BY <1>7, <5>1
      <4> QED
        BY <4>1, <4>2
    <3>7. CASE r = sh[n]
      BY <3>2, <3>4, <3>5, <3>7
    <3>8. CASE BoundaryBefore(h, n) /\ r = sh[n] - 1
      <4>1. o + r = st[i + n - 1] - 1
        BY <1>9, <3>2, <3>3, <3>8
      <4> QED
        BY <3>4, <3>5, <3>6, <3>8, <4>1
    <3> QED
      BY <3>1, <3>7, <3>8
  <2>2. CASE BoundaryAtEnd(h) /\ r = Len(g)
    <3>1. g[Len(g)] = Boundary
      BY <1>2, <2>2 DEF Laid
    <3>2. o + r = st[i + K - 1] + 1
      <4>1. r = sh[K] + 1
        BY <1>11, <2>2
      <4> QED
        BY <1>9, <1>12, <4>1
    <3> QED
      BY <1>11, <2>2, <3>1, <3>2
  <2> QED
    BY <1>2, <2>1, <2>2 DEF Laid, K
<1>15. Carries(s, g, o)
  BY <1>13, <1>14 DEF Carries
<1> QED
  BY <1>9, <1>15 DEF s, g

(* What a text's symbols carry of a hint stands in the text as a word of its own. *)
LEMMA CarriedStands ==
  ASSUME NEW text \in Seq(Bytes), NEW h \in Seq(Bytes), h # <<>>,
         NEW o \in Nat, Carries(Symbols(text), Symbols(h), o)
  PROVE  \E i \in 1 .. Len(text) : StandsAt(h, text, i)
<1> DEFINE s == Symbols(text)
           g == Symbols(h)
           K == Len(h)
           N == Len(text)
<1>1. PICK st : Laid(text, s, st)
  BY SymbolsAreLaid
<1>2. PICK sh : Laid(h, g, sh)
  BY SymbolsAreLaid
<1>3. o + Len(g) <= Len(s) /\ \A r \in 1 .. Len(g) : s[o + r] = g[r]
  BY DEF Carries
<1> HIDE DEF s, g
<1>4. /\ Len(s) \in Nat /\ N \in Nat
      /\ \A n \in 0 .. N : st[n] \in Nat
      /\ \A n \in 1 .. N : st[n] \in 1 .. Len(s) /\ text[n] \in Bytes /\ s[st[n]] # Boundary
      /\ \A q \in 1 .. Len(s) : s[q] # Boundary => \E n \in 1 .. N : q = st[n]
  BY <1>1, SpotFacts
<1>5. /\ Len(g) \in Nat
      /\ \A n \in 0 .. K : sh[n] \in Nat
      /\ \A n \in 1 .. K : sh[n] \in 1 .. Len(g) /\ h[n] \in Bytes /\ g[sh[n]] # Boundary
  BY <1>2, SpotFacts
<1>6. K \in Nat \ {0} /\ 1 \in 1 .. K /\ K \in 1 .. K
  BY EmptySeq
<1>7. ASSUME NEW n \in 1 .. K PROVE \E j \in 1 .. N : st[j] = o + sh[n]
  <2>1. sh[n] \in 1 .. Len(g) /\ g[sh[n]] # Boundary
    BY <1>5
  <2>2. o + sh[n] \in 1 .. Len(s) /\ s[o + sh[n]] # Boundary
    BY <1>3, <1>4, <1>5, <2>1
  <2> QED
    BY <1>4, <2>2
<1>8. PICK i \in 1 .. N : st[i] = o + sh[1]
  BY <1>6, <1>7
<1> HIDE DEF K, N
<1>9. ASSUME NEW n \in 1 .. K, NEW j \in 1 .. N, st[j] = o + sh[n] PROVE text[j] = h[n]
  <2>1. s[st[j]] = text[j] /\ g[sh[n]] = h[n]
    BY <1>1, <1>2 DEF Laid, K, N
  <2>2. s[o + sh[n]] = g[sh[n]]
    BY <1>3, <1>5
  <2> QED
    BY <1>9, <2>1, <2>2
<1>10. \A k \in 0 .. (K - 1) : i + k \in 1 .. N /\ st[i + k] = o + sh[k + 1]
  <2> DEFINE S == {k \in 0 .. (K - 1) : i + k \in 1 .. N /\ st[i + k] = o + sh[k + 1]}
  <2>1. 0 \in S
    BY <1>4, <1>6, <1>8
  <2>2. ASSUME NEW k \in 0 .. (K - 1), k < K - 1, k \in S PROVE k + 1 \in S
    <3> DEFINE n == k + 2
               a == i + k
    <3>1. /\ n \in 1 .. K /\ n # 1 /\ n - 1 = k + 1 /\ n = (k + 1) + 1 /\ k + 1 \in 0 .. (K - 1)
          /\ n - 1 \in 1 .. K /\ n - 1 \in 0 .. K /\ n \in 0 .. K /\ i + (k + 1) = a + 1
      BY <1>6, <2>2
    <3>2. a \in 1 .. N /\ a \in 0 .. N /\ st[a] = o + sh[n - 1]
      BY <1>4, <2>2, <3>1
    <3> HIDE DEF n, a
    <3>3. PICK j \in 1 .. N : st[j] = o + sh[n]
      BY <1>7, <3>1
    <3>4. /\ \/ BoundaryBefore(h, n) /\ sh[n] = sh[n - 1] + 2
             \/ ~ BoundaryBefore(h, n) /\ sh[n] = sh[n - 1] + 1
          /\ BoundaryBefore(h, n) => g[sh[n] - 1] = Boundary
      BY <1>2, <3>1 DEF Laid, K
    <3>5. st[a] \in Nat /\ st[j] \in Nat /\ sh[n] \in Nat /\ sh[n - 1] \in Nat /\ j \in 0 .. N
      BY <1>4, <1>5, <3>1, <3>2
    <3> DEFINE v == st[a]
               w == st[j]
               x == st[a + 1]
               p == sh[n - 1]
               q == sh[n]
    <3>6. v \in Nat /\ w \in Nat /\ p \in Nat /\ q \in Nat /\ v = o + p /\ w = o + q
      BY <3>2, <3>3, <3>5
    <3>7. (BoundaryBefore(h, n) /\ q = p + 2) \/ q = p + 1
      BY <3>4
    <3> HIDE DEF v, w, x, p, q
    <3>8. (w = v + 2 /\ q = p + 2) \/ w = v + 1
      BY <3>6, <3>7
    <3>9. a < j
      <4>1. CASE j <= a
        <5>1. j \in 0 .. Len(text) /\ a \in j .. Len(text) /\ j \in Nat /\ a \in Nat
          BY <1>4, <3>2, <3>5, <4>1 DEF N
        <5>2. w + (a - j) <= v
          BY <1>1, <5>1, SpotsAscend DEF v, w
        <5> QED
          BY <3>6, <3>8, <4>1, <5>1, <5>2
      <4> QED
        BY <1>4, <3>2, <4>1
    <3>10. a + 1 \in 1 .. N /\ a + 1 \in 0 .. N /\ (a + 1) - 1 = a /\ j - (a + 1) \in Nat
      BY <1>4, <3>2, <3>9
    <3>11. x + (j - (a + 1)) <= w
      <4>1. a + 1 \in 0 .. Len(text) /\ j \in (a + 1) .. Len(text)
        BY <1>4, <3>2, <3>9, <3>10 DEF N
      <4> QED
        BY <1>1, <4>1, SpotsAscend DEF x, w
    <3>12. x = v + 2 \/ x = v + 1
      BY <1>1, <3>10 DEF Laid, N, x, v
    <3>13. x <= w
      BY <3>6, <3>10, <3>11, <3>12
    <3>14. x = w
      <4>1. CASE x = v + 1 /\ w = v + 2
        <5>1. q = p + 2 /\ BoundaryBefore(h, n)
          BY <3>6, <3>7, <4>1
        <5>2. g[q - 1] = Boundary
          BY <3>4, <5>1 DEF q
        <5>3. q \in 1 .. Len(g)
          BY <1>5, <3>1 DEF q
        <5>4. q - 1 \in 1 .. Len(g) /\ o + (q - 1) = x
          BY <1>5, <3>6, <4>1, <5>1, <5>3
        <5>5. s[x] = Boundary
          BY <1>3, <5>2, <5>4
        <5> QED
          BY <1>4, <3>10, <5>5 DEF x
      <4>2. CASE ~ (x = v + 1 /\ w = v + 2)
        BY <3>6, <3>8, <3>12, <3>13, <4>2
      <4> QED
        BY <4>1, <4>2
    <3>15. st[a + 1] = o + sh[n]
      BY <3>6, <3>14 DEF x, q
    <3> QED
      BY <3>1, <3>10, <3>15
  <2>3. 0 .. (K - 1) \subseteq S
    <3>1. K - 1 \in Nat
      BY <1>6
    <3> HIDE DEF S
    <3> QED
      BY <2>1, <2>2, <3>1, CountingUp
  <2> QED
    BY <2>3
<1>11. \A n \in 1 .. K : /\ i + n - 1 \in 1 .. N /\ st[i + n - 1] = o + sh[n]
                         /\ text[i + n - 1] = h[n]
  <2>1. ASSUME NEW n \in 1 .. K
        PROVE  i + n - 1 \in 1 .. N /\ st[i + n - 1] = o + sh[n]
    <3>1. n - 1 \in 0 .. (K - 1) /\ i + (n - 1) = i + n - 1 /\ (n - 1) + 1 = n
      BY <1>4, <1>6
    <3>2. i + (n - 1) \in 1 .. N /\ st[i + (n - 1)] = o + sh[(n - 1) + 1]
      BY <1>10, <3>1
    <3> QED
      BY <3>1, <3>2
  <2> QED
    BY <1>9, <2>1
<1>12. i + K - 1 \in 1 .. N /\ st[i + K - 1] = o + sh[K] /\ text[i + K - 1] = h[K]
  BY <1>6, <1>11
<1>13. text[i] = h[1] /\ i \in Nat /\ i - 1 \in 0 .. N
  BY <1>4, <1>6, <1>8, <1>9
<1>14. SubSeq(text, i, i + K - 1) = h
  <2> DEFINE b == i + K - 1
             t == SubSeq(text, i, b)
  <2>1. i \in Int /\ b \in Int /\ i <= b /\ b - i + 1 = K
    BY <1>6, <1>12, <1>13
  <2>2. \A r \in i .. b : text[r] \in Bytes
    BY <1>4, <1>12, <1>13
  <2> HIDE DEF b
  <2>3. t \in Seq(Bytes) /\ Len(t) = K /\ \A r \in 1 .. K : t[r] = text[i + r - 1]
    BY <2>1, <2>2, SubSeqProperties
  <2> HIDE DEF t
  <2>4. \A r \in 1 .. K : t[r] = h[r]
    BY <1>11, <2>3
  <2>5. t = h
    BY <2>3, <2>4, SeqEqual DEF K
  <2> QED
    BY <2>5 DEF t, b
<1>15. ASSUME h[1] \in WordBytes, i > 1, text[i - 1] \in WordBytes PROVE FALSE
  <2>1. BoundaryBefore(h, 1)
    BY <1>15 DEF BoundaryBefore
  <2>2. sh[1] = sh[1 - 1] + 2 /\ sh[0] = 0 /\ g[sh[1] - 1] = Boundary
    BY <1>2, <1>6, <2>1 DEF Laid, K
  <2>3. sh[1] = 2
    BY <2>2
  <2>4. 1 \in 1 .. Len(g) /\ g[1] = Boundary
    BY <1>5, <1>6, <2>2, <2>3
  <2>5. s[o + 1] = Boundary /\ o + 1 = st[i] - 1
    BY <1>3, <1>8, <2>3, <2>4
  <2>6. ~ BoundaryBefore(text, i)
    <3>1. i # 1
      BY <1>13, <1>15
    <3> QED
      BY <1>13, <1>15, <3>1 DEF BoundaryBefore
  <2>7. st[i] = st[i - 1] + 1
    BY <1>1, <2>6 DEF Laid, N
  <2>8. i - 1 \in 1 .. N /\ st[i - 1] \in Nat
    BY <1>4, <1>13, <1>15
  <2>9. st[i - 1] = o + 1
    BY <1>4, <2>5, <2>7, <2>8
  <2> QED
    BY <1>4, <2>5, <2>8, <2>9
<1>16. ASSUME Last(h) \in WordBytes, i + K <= N, text[i + K] \in WordBytes PROVE FALSE
  <2> DEFINE n == i + K
  <2>1. n \in 1 .. N /\ n # 1 /\ n - 1 = i + K - 1 /\ n - 1 \in 0 .. N
    BY <1>4, <1>6, <1>12, <1>13, <1>16
  <2>2. Last(h) = h[K] /\ BoundaryAtEnd(h)
    BY <1>16 DEF Last, K, BoundaryAtEnd
  <2>3. Len(g) = sh[K] + 1 /\ g[Len(g)] = Boundary
    BY <1>2, <2>2 DEF Laid, K
  <2>4. text[n] \in WordBytes /\ text[n - 1] \in WordBytes
    BY <1>12, <1>16, <2>1, <2>2
  <2> HIDE DEF n
  <2>5. ~ BoundaryBefore(text, n)
    BY <2>1, <2>4 DEF BoundaryBefore
  <2>6. st[n] = st[n - 1] + 1
    BY <1>1, <2>1, <2>5 DEF Laid, N
  <2>7. sh[K] \in Nat
    BY <1>5, <1>6
  <2>8. st[n] = o + Len(g) /\ Len(g) \in 1 .. Len(g)
    <3>1. st[n] = (o + sh[K]) + 1
      BY <1>12, <2>1, <2>6
    <3> QED
      BY <1>5, <2>3, <2>7, <3>1
  <2>9. s[st[n]] = Boundary
    BY <1>3, <2>3, <2>8
  <2> QED
    BY <1>4, <2>1, <2>9
<1>17. StandsAt(h, text, i)
  <2>1. i + K - 1 <= N
    BY <1>4, <1>12
  <2> QED
    BY <1>14, <1>15, <1>16, <2>1 DEF StandsAt, K, N
<1> QED
  BY <1>17 DEF N

(* What is at the end of some beginning is carried. *)
LEMMA EndsAreCarried ==
  ASSUME NEW S, NEW s \in Seq(S), NEW m \in Seq(S), m # <<>>
  PROVE  (\E j \in 1 .. Len(s) : Ends(m, SubSeq(s, 1, j))) <=> (\E o \in Nat : Carries(s, m, o))
<1>1. Len(s) \in Nat /\ Len(m) \in Nat \ {0}
  BY EmptySeq
<1>2. ASSUME NEW j \in 1 .. Len(s), Ends(m, SubSeq(s, 1, j))
      PROVE  \E o \in Nat : Carries(s, m, o)
  <2> DEFINE p == SubSeq(s, 1, j)
             o == j - Len(m)
  <2>1. Len(p) = j /\ \A i \in 1 .. j : p[i] = s[i]
    BY PrefixFacts
  <2> HIDE DEF p
  <2>2. Len(m) <= j /\ \A r \in 1 .. Len(m) : m[r] = p[j - Len(m) + r]
    BY <1>2, <2>1 DEF Ends, p
  <2>3. o \in Nat /\ o + Len(m) <= Len(s)
    BY <1>1, <2>2
  <2>4. ASSUME NEW r \in 1 .. Len(m) PROVE s[o + r] = m[r]
    <3>1. o + r \in 1 .. j
      BY <1>1, <2>2
    <3> QED
      BY <2>1, <2>2, <3>1
  <2> HIDE DEF o
  <2> QED
    BY <2>3, <2>4 DEF Carries
<1>3. ASSUME NEW o \in Nat, Carries(s, m, o)
      PROVE  \E j \in 1 .. Len(s) : Ends(m, SubSeq(s, 1, j))
  <2> DEFINE j == o + Len(m)
             p == SubSeq(s, 1, j)
  <2>1. j \in 1 .. Len(s) /\ j \in Nat /\ j - Len(m) = o /\ Len(m) <= j
    BY <1>1, <1>3 DEF Carries
  <2> HIDE DEF j
  <2>2. Len(p) = j /\ \A i \in 1 .. j : p[i] = s[i]
    BY <1>1, <2>1, PrefixFacts
  <2> HIDE DEF p
  <2>3. ASSUME NEW r \in 1 .. Len(m) PROVE m[r] = p[Len(p) - Len(m) + r]
    <3>1. o + r \in 1 .. j /\ Len(p) - Len(m) + r = o + r
      BY <1>1, <2>1, <2>2
    <3>2. s[o + r] = m[r]
      BY <1>3 DEF Carries
    <3> QED
      BY <2>2, <3>1, <3>2
  <2>4. Ends(m, p)
    BY <2>1, <2>2, <2>3 DEF Ends
  <2> QED
    BY <2>1, <2>4 DEF p
<1> QED
  BY <1>2, <1>3

(* A text has symbols, one that is not empty at least one. *)
LEMMA SymbolsFacts ==
  ASSUME NEW text \in Seq(Bytes)
  PROVE  Symbols(text) \in Seq(Symbol) /\ (text # <<>> => Symbols(text) # <<>>)
<1> DEFINE s == Symbols(text)
<1>1. PICK spot : Laid(text, s, spot)
  BY SymbolsAreLaid
<1> HIDE DEF s
<1>2. s \in Seq(Symbol)
  BY <1>1 DEF Laid
<1>3. ASSUME text # <<>> PROVE s # <<>>
  <2>1. 1 \in 1 .. Len(text)
    BY <1>3, EmptySeq
  <2>2. spot[1] \in 1 .. Len(s) /\ Len(s) \in Nat
    BY <1>1, <2>1, SpotFacts
  <2>3. Len(s) # 0
    BY <2>2
  <2> QED
    BY <2>3, EmptySeq
<1> QED
  BY <1>2, <1>3 DEF s

(* Texts that hints may be. *)
AreHints(hints) == \A p \in DOMAIN hints : hints[p] \subseteq Seq(Bytes)

(* The nodes of hints are a trie, and every hint leads to one of them. *)
LEMMA NodesAreTrie ==
  ASSUME NEW hints, AreHints(hints)
  PROVE  /\ IsTrie(Nodes(hints))
         /\ \A p \in DOMAIN hints : \A h \in hints[p] : Symbols(h) \in Nodes(hints)
<1> DEFINE All == UNION {hints[p] : p \in DOMAIN hints}
<1>1. \A h \in All : Symbols(h) \in Seq(Symbol)
  BY SymbolsFacts DEF AreHints
<1> HIDE DEF All
<1>2. ASSUME NEW m
      PROVE  m \in Nodes(hints) <=>
               m = <<>> \/ \E h \in All : \E l \in 0 .. Len(Symbols(h)) : m = SubSeq(Symbols(h), 1, l)
  BY DEF Nodes, Prefixes, All
<1>3. Nodes(hints) \in SUBSET Seq(Symbol)
  <2>1. ASSUME NEW m \in Nodes(hints) PROVE m \in Seq(Symbol)
    <3>1. CASE m = <<>>
      BY <3>1, BoundaryIsSymbol
    <3>2. CASE m # <<>>
      <4>1. PICK h \in All : \E l \in 0 .. Len(Symbols(h)) : m = SubSeq(Symbols(h), 1, l)
        BY <1>2, <3>2
      <4>2. PICK l \in 0 .. Len(Symbols(h)) : m = SubSeq(Symbols(h), 1, l)
        BY <4>1
      <4> DEFINE s == Symbols(h)
      <4>3. s \in Seq(Symbol) /\ l \in Nat /\ l <= Len(s)
        BY <1>1
      <4> HIDE DEF s
      <4>4. SubSeq(s, 1, l) \in Seq(Symbol)
        BY <4>3, PrefixFacts
      <4> QED
        BY <4>2, <4>4 DEF s
    <3> QED
      BY <3>1, <3>2
  <2> QED
    BY <2>1
<1>4. ASSUME NEW m \in Seq(Symbol), NEW c \in Symbol, Append(m, c) \in Nodes(hints)
      PROVE  m \in Nodes(hints)
  <2>1. /\ Append(m, c) # <<>> /\ Len(Append(m, c)) = Len(m) + 1 /\ Len(m) \in Nat
        /\ \A i \in 1 .. Len(m) : Append(m, c)[i] = m[i]
    BY AppendProperties
  <2>2. PICK h \in All : \E l \in 0 .. Len(Symbols(h)) : Append(m, c) = SubSeq(Symbols(h), 1, l)
    BY <1>2, <1>4, <2>1
  <2>3. PICK l \in 0 .. Len(Symbols(h)) : Append(m, c) = SubSeq(Symbols(h), 1, l)
    BY <2>2
  <2> DEFINE s == Symbols(h)
             k == Len(m)
             a == Append(m, c)
  <2>4. s \in Seq(Symbol) /\ l \in Nat /\ l <= Len(s)
    BY <1>1
  <2>5. a = SubSeq(s, 1, l)
    BY <2>3
  <2> HIDE DEF s, a
  <2>6. Len(SubSeq(s, 1, l)) = l /\ \A i \in 1 .. l : SubSeq(s, 1, l)[i] = s[i]
    BY <2>4, PrefixFacts
  <2>7. l = k + 1 /\ k \in Nat /\ k <= Len(s) /\ k \in 0 .. Len(s)
    BY <2>1, <2>4, <2>5, <2>6 DEF a
  <2>8. \A i \in 1 .. k : m[i] = s[i]
    BY <2>1, <2>5, <2>6, <2>7 DEF a
  <2> HIDE DEF k
  <2>9. /\ SubSeq(s, 1, k) \in Seq(Symbol) /\ Len(SubSeq(s, 1, k)) = k
        /\ \A i \in 1 .. k : SubSeq(s, 1, k)[i] = s[i]
    BY <2>4, <2>7, PrefixFacts
  <2>10. m = SubSeq(s, 1, k)
    <3> DEFINE t == SubSeq(s, 1, k)
    <3>1. t \in Seq(Symbol) /\ Len(t) = Len(m) /\ \A i \in 1 .. Len(m) : m[i] = t[i]
      BY <2>8, <2>9 DEF k
    <3> HIDE DEF t
    <3>2. m = t
      BY <3>1, SeqEqual
    <3> QED
      BY <3>2 DEF t
  <2> QED
    BY <1>2, <2>7, <2>10 DEF s
<1>5. <<>> \in Nodes(hints)
  BY <1>2
<1>6. ASSUME NEW p \in DOMAIN hints, NEW h \in hints[p] PROVE Symbols(h) \in Nodes(hints)
  <2>1. h \in All
    BY DEF All
  <2> DEFINE s == Symbols(h)
  <2>2. s \in Seq(Symbol)
    BY <1>1, <2>1
  <2> HIDE DEF s
  <2>3. Len(s) \in 0 .. Len(s) /\ s = SubSeq(s, 1, Len(s))
    BY <2>2, SubSeqFull
  <2> QED
    BY <1>2, <2>1, <2>3 DEF s
<1> QED
  BY <1>3, <1>4, <1>5, <1>6 DEF IsTrie

(* The automaton finds every hint that stands in a text as words of its own, *)
(* and nothing else, whatever the hints and the text (profiles.rs:481-702).   *)
THEOREM MatcherIsRight ==
  ASSUME NEW hints, AreHints(hints), NEW text \in Seq(Bytes)
  PROVE  FindsWholeWords(hints, text)
<1> DEFINE nodes == Nodes(hints)
           failure == Failures(nodes)
           step == [symbol \in Symbol |-> Follow(nodes, failure, symbol)]
           report == Reports(hints, nodes, failure)
           hinted == WithHints(hints)
           s == Symbols(text)
<1>1. IsTrie(nodes) /\ \A p \in DOMAIN hints : \A h \in hints[p] : Symbols(h) \in nodes
  BY NodesAreTrie
<1>2. s \in Seq(Symbol)
  BY SymbolsFacts
<1> HIDE DEF nodes, s
<1>3. \A m \in nodes : failure[m] = Link(nodes, m)
  BY <1>1, FailuresAreLinks
<1> HIDE DEF failure
<1>4. \A c \in Symbol, m \in nodes : step[c][m] = After(nodes, m, c)
  BY <1>1, <1>3, FollowEnds
<1>5. \A m \in nodes : report[m] = Heard(hints, nodes, m)
  BY <1>1, <1>3, ReportsAreHeard
<1>6. \A m \in nodes : Outputs(hints, m) \subseteq hinted
  BY DEF Outputs, WithHints
<1>7. MatchingProfiles(hints, text) = ScanWith(step, report, hinted, s)
  BY DEF MatchingProfiles, Automaton, nodes, failure, s
<1> HIDE DEF step, report, hinted
<1>20. Scans(hints, nodes, hinted, step, report)
  BY <1>1, <1>4, <1>5, <1>6 DEF Scans
<1>8. MatchingProfiles(hints, text) =
        UNION {Heard(hints, nodes, SubSeq(s, 1, j)) : j \in 1 .. Len(s)}
  BY <1>2, <1>7, <1>20, ScanFinds
<1>9. ASSUME NEW p
      PROVE  p \in MatchingProfiles(hints, text) <=>
               /\ p \in DOMAIN hints
               /\ \E h \in hints[p] \ {<<>>} :
                    \E j \in 1 .. Len(s) : Ends(Symbols(h), SubSeq(s, 1, j))
  BY <1>1, <1>8 DEF Heard, Ending, Outputs
<1>10. ASSUME NEW p \in DOMAIN hints, NEW h \in hints[p] \ {<<>>}
       PROVE  (\E j \in 1 .. Len(s) : Ends(Symbols(h), SubSeq(s, 1, j))) <=>
                \E i \in DOMAIN text : StandsAt(h, text, i)
  <2>1. h \in Seq(Bytes) /\ h # <<>>
    BY DEF AreHints
  <2> DEFINE g == Symbols(h)
  <2>2. g \in Seq(Symbol) /\ g # <<>>
    BY <2>1, SymbolsFacts
  <2> HIDE DEF g
  <2>3. (\E j \in 1 .. Len(s) : Ends(g, SubSeq(s, 1, j))) <=> (\E o \in Nat : Carries(s, g, o))
    BY <1>2, <2>2, EndsAreCarried
  <2>4. (\E o \in Nat : Carries(s, g, o)) <=> \E i \in 1 .. Len(text) : StandsAt(h, text, i)
    <3>1. ASSUME NEW i \in 1 .. Len(text), StandsAt(h, text, i)
          PROVE  \E o \in Nat : Carries(s, g, o)
      BY <2>1, <3>1, StandingIsCarried DEF s, g
    <3>2. ASSUME NEW o \in Nat, Carries(s, g, o)
          PROVE  \E i \in 1 .. Len(text) : StandsAt(h, text, i)
      BY <2>1, <3>2, CarriedStands DEF s, g
    <3> QED
      BY <3>1, <3>2
  <2>5. DOMAIN text = 1 .. Len(text)
    BY LenProperties
  <2> QED
    BY <2>3, <2>4, <2>5 DEF g
<1>11. ASSUME NEW p
       PROVE  p \in MatchingProfiles(hints, text) <=>
                /\ p \in DOMAIN hints
                /\ \E h \in hints[p] \ {<<>>} : \E i \in DOMAIN text : StandsAt(h, text, i)
  BY <1>9, <1>10
<1>12. MatchingProfiles(hints, text) \subseteq DOMAIN hints
  BY <1>11
<1> QED
  BY <1>11, <1>12, Zenon DEF FindsWholeWords

-----------------------------------------------------------------------------
(* Detection on the first output. *)

(* Normalization makes up no text. *)
LEMMA NormalizedTexts ==
  ASSUME NEW budget, NEW list, IsMetadata(list), NEW T, \A i \in DOMAIN list : list[i].text \in T
  PROVE  Normalize(budget, list).texts \in Seq(T)
<1> DEFINE kept == Normalizing(budget, list)
           S == {n \in 0 .. Len(list) : /\ kept[n].texts \in Seq(T)
                                        /\ "texts" \in DOMAIN kept[n]}
<1>0. list \in Seq(ToSet(list)) /\ Len(list) \in Nat /\ DOMAIN list = 1 .. Len(list)
  BY DEF IsMetadata
<1>1. 0 \in S
  <2> DEFINE start == [fits |-> TRUE, texts |-> <<>>, bytes |-> 0]
  <2>1. 0 \in 0 .. Len(list)
    BY <1>0
  <2>2. kept[0] = start
    BY <1>0, <2>1, NormalizingDefined
  <2>3. start.texts \in Seq(T) /\ "texts" \in DOMAIN start
    OBVIOUS
  <2> HIDE DEF kept, start
  <2> QED
    BY <2>1, <2>2, <2>3
<1>2. ASSUME NEW n \in 0 .. Len(list), n < Len(list), n \in S PROVE n + 1 \in S
  <2>1. n + 1 \in 0 .. Len(list) /\ n + 1 # 0 /\ (n + 1) - 1 = n /\ n + 1 \in DOMAIN list
    BY <1>0, <1>2
  <2>2. kept[n + 1] = NormalizeEntry(budget, kept[n], list[n + 1])
    <3>1. kept[n + 1] = IF n + 1 = 0 THEN [fits |-> TRUE, texts |-> <<>>, bytes |-> 0]
                        ELSE NormalizeEntry(budget, kept[(n + 1) - 1], list[n + 1])
      BY <1>0, <2>1, NormalizingDefined
    <3> QED
      BY <2>1, <3>1
  <2>3. list[n + 1].text \in T
    BY <2>1
  <2> HIDE DEF kept
  <2>4. kept[n].texts \in Seq(T) /\ "texts" \in DOMAIN kept[n]
    BY <1>2
  <2> DEFINE entry == list[n + 1]
             next == NormalizeEntry(budget, kept[n], entry)
             grown == [fits |-> /\ Len(kept[n].texts) < budget.entries
                                /\ kept[n].bytes + Len(entry.text) <= budget.bytes,
                       texts |-> Append(kept[n].texts, entry.text),
                       bytes |-> kept[n].bytes + Len(entry.text)]
  <2>5. grown.texts \in Seq(T) /\ "texts" \in DOMAIN grown
    BY <2>3, <2>4, AppendProperties
  <2>6. next \in {kept[n], [kept[n] EXCEPT !.fits = FALSE], grown}
    BY DEF NormalizeEntry
  <2> HIDE DEF grown, next
  <2>7. next.texts \in Seq(T) /\ "texts" \in DOMAIN next
    BY <2>4, <2>5, <2>6
  <2> QED
    BY <2>1, <2>2, <2>7 DEF next
<1>3. 0 .. Len(list) \subseteq S
  <2> HIDE DEF S
  <2> QED
    BY <1>0, <1>1, <1>2, CountingUp
<1>4. Len(list) \in 0 .. Len(list)
  BY <1>0
<1> QED
  BY <1>3, <1>4 DEF Normalize

(* The hints of a store are text, whoever wrote them. *)
LEMMA StoreHoldsHints == ASSUME LoadInv PROVE AreHints(Hints)
<1>1. ASSUME NEW n \in DOMAIN store PROVE store[n].detection \in Seq(Seq(Bytes))
  <2>1. NoneMadeUp /\ shown \in [Paths -> SUBSET (Contents \cup {Missing})]
    BY DEF LoadInv, LoadsInOrder, LoadingTypeOK
  <2>2. CASE n \in DOMAIN Bundled /\ store[n] = Bundled[n]
    BY <2>2, TextAssumption
  <2>3. CASE \E i \in DOMAIN ProfileFiles : \E c \in shown[ProfileFiles[i]] \ {Missing} :
               Accepted(c.document) /\ c.document.name = n /\ store[n] = ProfileOf(c.document)
    <3>1. PICK i \in DOMAIN ProfileFiles : \E c \in shown[ProfileFiles[i]] \ {Missing} :
            Accepted(c.document) /\ store[n] = ProfileOf(c.document)
      BY <2>3
    <3>2. PICK c \in shown[ProfileFiles[i]] \ {Missing} :
            Accepted(c.document) /\ store[n] = ProfileOf(c.document)
      BY <3>1
    <3>3. c \in Contents /\ c.document # None
      BY <2>1, <3>2, FileFacts DEF Accepted
    <3> DEFINE list == c.document.detection
    <3>4. IsMetadata(list) /\ \A j \in DOMAIN list : list[j].text \in Seq(Bytes)
      BY <3>3, TextAssumption, LoadingAssumptions DEF Fields
    <3> HIDE DEF list
    <3>5. Normalize(ProfileBudget.detection, list).texts \in Seq(Seq(Bytes))
      BY <3>4, NormalizedTexts
    <3> QED
      BY <3>2, <3>5 DEF ProfileOf, list
  <2> QED
    BY <2>1, <2>2, <2>3 DEF NoneMadeUp
<1>2. ASSUME NEW s \in Seq(Seq(Bytes)) PROVE ToSet(s) \subseteq Seq(Bytes)
  BY DEF ToSet
<1> QED
  BY <1>1, <1>2 DEF AreHints, Hints

(***************************************************************************)
(* Whatever the files of the user hold and however they are edited while   *)
(* they are read, the profiles a session detects on its first output are   *)
(* those with a hint that stands in it as whole words, and no others       *)
(* (profiles.rs:481-702).                                                  *)
(***************************************************************************)
THEOREM HintsAreWhole == StoreSpec => []HintsAreFound
<1> DEFINE Seen == sample \in Samples \cup {None}
<1>1. StoreInit => LoadInv /\ Seen
  BY LoadingInitInv DEF StoreInit, SelectInit
<1>2. LoadInv /\ Seen /\ [StoreStep]_storeVars => (LoadInv /\ Seen)'
  <2> SUFFICES ASSUME LoadInv, Seen, [StoreStep]_storeVars PROVE LoadInv' /\ Seen'
    OBVIOUS
  <2>1. LoadInv'
    BY StoreStepLoads
  <2>2. Seen'
    BY DEF StoreStep, storeVars, selectionVars, ChooseProfiles, BeginResolution
  <2> QED
    BY <2>1, <2>2
<1>3. LoadInv /\ Seen => HintsAreFound
  <2> SUFFICES ASSUME LoadInv, Seen, sample # None PROVE FindsWholeWords(Hints, sample.text)
    BY DEF HintsAreFound
  <2>1. sample.text \in Seq(Bytes)
    BY TextAssumption
  <2> QED
    BY <2>1, StoreHoldsHints, MatcherIsRight
<1> QED
  BY <1>1, <1>2, <1>3, PTL DEF StoreSpec
=============================================================================
