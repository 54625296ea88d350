------------------------ MODULE ProfileSessionProofs ------------------------
(***************************************************************************)
(* The profile runtime, for every store, every shape of output and every    *)
(* limit: type correctness, its way back to the baseline, and what opens     *)
(* and closes the frames of nested connections.  Then the highlight session *)
(* around it, for every cache limit: it is the runtime step by step, what it *)
(* may go back to can be built, and nothing built before a reload is used    *)
(* after it.                                                                *)
(***************************************************************************)
EXTENDS ProfileSession, WellFoundedInduction, FiniteSetTheorems, TLAPS

-----------------------------------------------------------------------------
(* Choices of a least element. *)

(* A nonempty set of naturals has a least member. *)
LEMMA LeastNatural ==
  ASSUME NEW T \in SUBSET Nat, T # {}
  PROVE  \E n \in T : \A m \in T : n <= m
<1> DEFINE Less == {ss \in Nat \X Nat : ss[1] < ss[2]}
<1>1. IsWellFoundedOn(Less, Nat)
  BY NatLessThanWellFounded, Zenon DEF OpToRel
<1>4. ASSUME NEW a \in Nat, NEW b \in Nat, <<a, b>> \notin Less PROVE b <= a
  BY <1>4
<1> HIDE DEF Less
<1>2. PICK n \in T : \A m \in T : <<m, n>> \notin Less
  BY <1>1, WFMin
<1>3. \A m \in T : n <= m
  BY <1>2, <1>4
<1> QED
  BY <1>3

(* The first profile by priority of a nonempty set is one of the set. *)
LEMMA ByPriorityMember ==
  ASSUME NEW S \in SUBSET Profiles, S # {}
  PROVE  ByPriority(S) \in S
<1> DEFINE T == {Priority[p] : p \in S}
<1>1. T \in SUBSET Nat /\ T # {}
  BY RuntimeAssumptions DEF ProfilesAssumption
<1>2. PICK n \in T : \A m \in T : n <= m
  BY <1>1, LeastNatural
<1>3. \E p \in S : \A q \in S : Priority[p] <= Priority[q]
  BY <1>2
<1> QED
  BY <1>3 DEF ByPriority

-----------------------------------------------------------------------------
(* The stack operators. *)

(* A slice of a sequence. *)
LEMMA SliceFacts ==
  ASSUME NEW S, NEW s \in Seq(S), NEW m \in Nat, NEW n \in Nat,
         m > 0, n <= Len(s), m <= n + 1
  PROVE  /\ SubSeq(s, m, n) \in Seq(S)
         /\ Len(SubSeq(s, m, n)) = n - m + 1
         /\ \A i \in 1 .. n - m + 1 : SubSeq(s, m, n)[i] = s[m + i - 1]
<1>1. SubSeq(s, m, n) \in Seq(S)
  OBVIOUS
<1>2. Len(SubSeq(s, m, n)) = n - m + 1
  OBVIOUS
<1>3. \A i \in 1 .. n - m + 1 : SubSeq(s, m, n)[i] = s[m + i - 1]
  OBVIOUS
<1> QED
  BY <1>1, <1>2, <1>3

(* The first n frames. *)
LEMMA PrefixFacts ==
  ASSUME NEW S, NEW s \in Seq(S), NEW n \in Nat, n <= Len(s)
  PROVE  /\ SubSeq(s, 1, n) \in Seq(S)
         /\ Len(SubSeq(s, 1, n)) = n
         /\ \A i \in 1 .. n : SubSeq(s, 1, n)[i] = s[i]
<1>1. 1 \in Nat /\ 1 > 0 /\ 1 <= n + 1 /\ n - 1 + 1 = n
  OBVIOUS
<1>2. /\ SubSeq(s, 1, n) \in Seq(S)
      /\ Len(SubSeq(s, 1, n)) = n - 1 + 1
      /\ \A i \in 1 .. n - 1 + 1 : SubSeq(s, 1, n)[i] = s[1 + i - 1]
  BY <1>1, SliceFacts
<1> QED
  BY <1>1, <1>2

(* All frames but the last, and the last. *)
LEMMA FrontFacts ==
  ASSUME NEW S, NEW s \in Seq(S), s # <<>>
  PROVE  /\ Front(s) \in Seq(S) /\ Last(s) \in S
         /\ Len(s) \in Nat \ {0} /\ Len(Front(s)) = Len(s) - 1
         /\ \A i \in 1 .. Len(s) - 1 : Front(s)[i] = s[i]
<1> DEFINE n == Len(s) - 1
<1>1. n \in Nat /\ n <= Len(s) /\ Len(s) \in Nat \ {0} /\ s[Len(s)] \in S
  OBVIOUS
<1>2. Front(s) = SubSeq(s, 1, n) /\ Last(s) = s[Len(s)]
  BY DEF Front, Last
<1> HIDE DEF n
<1>3. /\ SubSeq(s, 1, n) \in Seq(S) /\ Len(SubSeq(s, 1, n)) = n
      /\ \A i \in 1 .. n : SubSeq(s, 1, n)[i] = s[i]
  BY <1>1, PrefixFacts
<1> QED
  BY <1>1, <1>2, <1>3 DEF n

(* Two sequences in a row. *)
LEMMA ConcatFacts ==
  ASSUME NEW S, NEW s \in Seq(S), NEW t \in Seq(S)
  PROVE  /\ s \o t \in Seq(S) /\ Len(s \o t) = Len(s) + Len(t)
         /\ \A i \in 1 .. Len(s) : (s \o t)[i] = s[i]
         /\ \A i \in 1 .. Len(t) : (s \o t)[Len(s) + i] = t[i]
<1>1. s \o t \in Seq(S) /\ Len(s \o t) = Len(s) + Len(t)
  OBVIOUS
<1>2. \A i \in 1 .. Len(s) : (s \o t)[i] = s[i]
  OBVIOUS
<1>3. \A i \in 1 .. Len(t) : (s \o t)[Len(s) + i] = t[i]
  OBVIOUS
<1> QED
  BY <1>1, <1>2, <1>3

(* One more element. *)
LEMMA AppendFacts ==
  ASSUME NEW S, NEW s \in Seq(S), NEW e \in S
  PROVE  /\ Append(s, e) \in Seq(S)
         /\ Len(Append(s, e)) = Len(s) + 1
         /\ Append(s, e) # <<>>
         /\ Append(s, e)[Len(s) + 1] = e
         /\ \A i \in 1 .. Len(s) : Append(s, e)[i] = s[i]
OBVIOUS

(* Removing the second of at least two frames keeps the others. *)
LEMMA RemoveSecondFacts ==
  ASSUME NEW S, NEW s \in Seq(S), Len(s) >= 2
  PROVE  /\ RemoveAt(s, 2) \in Seq(S)
         /\ Len(RemoveAt(s, 2)) = Len(s) - 1
         /\ \A i \in 1 .. Len(s) - 1 :
              RemoveAt(s, 2)[i] = IF i = 1 THEN s[1] ELSE s[i + 1]
<1> DEFINE n == Len(s)
           a == SubSeq(s, 1, 1)
           b == SubSeq(s, 3, n)
<1>1. /\ n \in Nat /\ n >= 2 /\ n = Len(s)
      /\ 1 \in Nat /\ 1 <= n /\ 3 \in Nat /\ 3 > 0 /\ 3 <= n + 1
  OBVIOUS
<1>2. RemoveAt(s, 2) = a \o b
  BY DEF RemoveAt
<1> HIDE DEF n
<1>3. a \in Seq(S) /\ Len(a) = 1 /\ a[1] = s[1]
  BY <1>1, PrefixFacts
<1>4. b \in Seq(S) /\ Len(b) = n - 2
  BY <1>1, SliceFacts
<1>5. \A i \in 1 .. n - 3 + 1 : b[i] = s[3 + i - 1]
  BY <1>1, SliceFacts
<1> HIDE DEF a, b
<1>6. /\ a \o b \in Seq(S) /\ Len(a \o b) = Len(a) + Len(b)
      /\ \A i \in 1 .. Len(a) : (a \o b)[i] = a[i]
      /\ \A i \in 1 .. Len(b) : (a \o b)[Len(a) + i] = b[i]
  <2>1. a \in Seq(S) /\ b \in Seq(S)
    BY <1>3, <1>4
  <2> QED
    BY <2>1, ConcatFacts
<1>7. Len(a \o b) = n - 1
  BY <1>1, <1>3, <1>4, <1>6
<1>8. ASSUME NEW i \in 1 .. n - 1
      PROVE  (a \o b)[i] = IF i = 1 THEN s[1] ELSE s[i + 1]
  <2>1. CASE i = 1
    BY <1>3, <1>6, <2>1
  <2>2. CASE i # 1
    <3> DEFINE j == i - 1
    <3>1. j \in 1 .. n - 2 /\ i = 1 + j /\ i + 1 = 3 + j - 1
      BY <1>1, <2>2
    <3> HIDE DEF j
    <3>2. (a \o b)[1 + j] = b[j]
      BY <1>3, <1>4, <1>6, <3>1
    <3>3. b[j] = s[3 + j - 1]
      BY <1>1, <1>5, <3>1
    <3> QED
      BY <2>2, <3>1, <3>2, <3>3
  <2> QED
    BY <2>1, <2>2
<1> QED
  BY <1>1, <1>2, <1>6, <1>7, <1>8

(* Every frame of frames was in old, or goes back to profiles. *)
Inherits(frames, old, profiles) ==
  \A i \in 1 .. Len(frames) :
    \/ frames[i].profiles = profiles
    \/ \E j \in 1 .. Len(old) : frames[i].profiles = old[j].profiles

(* PushFrame keeps to the limit, keeps the first frame, and opens a frame  *)
(* that goes back to the given profiles.                                   *)
LEMMA PushFrameFacts ==
  ASSUME NEW frames \in Seq(ProfileFrame), Len(frames) <= StackLimit,
         NEW profiles \in SUBSET Profiles, NEW attempt \in RemoteAttempt,
         NEW unresolved \in BOOLEAN
  PROVE  LET pushed == PushFrame(frames, profiles, attempt, unresolved)
         IN /\ pushed \in Seq(ProfileFrame) /\ Len(pushed) <= StackLimit
            /\ pushed # <<>>
            /\ pushed[1].profiles = IF frames = <<>> THEN profiles ELSE frames[1].profiles
            /\ Inherits(pushed, frames, profiles)
<1> DEFINE new == NewFrame(profiles, attempt, unresolved)
           kept == IF Len(frames) >= StackLimit THEN RemoveAt(frames, 2) ELSE frames
           pushed == Append(kept, new)
<1>1. StackLimit \in Nat /\ StackLimit >= 2
  BY RuntimeAssumptions DEF LimitsAssumption
<1>2. new \in ProfileFrame /\ new.profiles = profiles
  BY DEF NewFrame, ProfileFrame, RemoteAttempt
<1>3. /\ kept \in Seq(ProfileFrame) /\ Len(kept) <= StackLimit - 1
      /\ Len(kept) <= Len(frames) /\ Len(kept) \in Nat
      /\ frames # <<>> => kept # <<>> /\ kept[1] = frames[1]
      /\ frames = <<>> => kept = <<>>
      /\ \A i \in 1 .. Len(kept) : \E j \in 1 .. Len(frames) : kept[i] = frames[j]
  <2>1. Len(frames) \in Nat
    OBVIOUS
  <2>2. CASE Len(frames) >= StackLimit
    <3>1. kept = RemoveAt(frames, 2) /\ Len(frames) = StackLimit
      BY <1>1, <2>1, <2>2
    <3>2. /\ kept \in Seq(ProfileFrame) /\ Len(kept) = Len(frames) - 1
          /\ \A i \in 1 .. Len(frames) - 1 :
               kept[i] = IF i = 1 THEN frames[1] ELSE frames[i + 1]
      BY <1>1, <2>1, <3>1, RemoveSecondFacts
    <3>3. \A i \in 1 .. Len(kept) : \E j \in 1 .. Len(frames) : kept[i] = frames[j]
      BY <1>1, <2>1, <3>1, <3>2
    <3> QED
      BY <1>1, <2>1, <3>1, <3>2, <3>3
  <2>3. CASE Len(frames) < StackLimit
    BY <1>1, <2>1, <2>3
  <2> QED
    BY <1>1, <2>1, <2>2, <2>3
<1> HIDE DEF kept, new
<1>4. /\ pushed \in Seq(ProfileFrame) /\ Len(pushed) = Len(kept) + 1 /\ pushed # <<>>
      /\ \A i \in 1 .. Len(kept) : pushed[i] = kept[i]
      /\ pushed[Len(kept) + 1] = new
  <2>1. kept \in Seq(ProfileFrame) /\ new \in ProfileFrame
    BY <1>2, <1>3
  <2> QED
    BY <2>1, AppendFacts
<1>5. pushed[1].profiles = IF frames = <<>> THEN profiles ELSE frames[1].profiles
  <2>1. CASE frames = <<>>
    BY <1>2, <1>3, <1>4, <2>1
  <2>2. CASE frames # <<>>
    BY <1>3, <1>4, <2>2
  <2> QED
    BY <2>1, <2>2
<1>6. Inherits(pushed, frames, profiles)
  <2>1. ASSUME NEW i \in 1 .. Len(kept)
        PROVE  \E j \in 1 .. Len(frames) : pushed[i].profiles = frames[j].profiles
    BY <1>3, <1>4, <2>1
  <2>2. \A i \in 1 .. Len(pushed) : i \in 1 .. Len(kept) \/ i = Len(kept) + 1
    BY <1>3, <1>4
  <2> HIDE DEF pushed
  <2> QED
    BY <1>2, <1>4, <2>1, <2>2 DEF Inherits
<1>7. PushFrame(frames, profiles, attempt, unresolved) = pushed
  BY DEF PushFrame, kept, new
<1> QED
  BY <1>1, <1>3, <1>4, <1>5, <1>6, <1>7

(* A stack with a new frame on top: below the limit the old ones stay, at it *)
(* the second goes and those above it move down.                             *)
Pushed(pushed, frames, profiles, unresolved) ==
  /\ Len(pushed) = IF Len(frames) < StackLimit THEN Len(frames) + 1 ELSE StackLimit
  /\ pushed[Len(pushed)].profiles = profiles
  /\ pushed[Len(pushed)].unresolved = unresolved
  /\ Len(frames) < StackLimit => \A i \in 1 .. Len(frames) : pushed[i] = frames[i]
  /\ Len(frames) = StackLimit => \A i \in 2 .. StackLimit - 1 : pushed[i] = frames[i + 1]

(* PushFrame frame by frame. *)
LEMMA PushFrameShape ==
  ASSUME NEW frames \in Seq(ProfileFrame), Len(frames) <= StackLimit,
         NEW profiles \in SUBSET Profiles, NEW attempt \in RemoteAttempt,
         NEW unresolved \in BOOLEAN
  PROVE  Pushed(PushFrame(frames, profiles, attempt, unresolved), frames, profiles, unresolved)
<1> DEFINE new == NewFrame(profiles, attempt, unresolved)
           kept == IF Len(frames) >= StackLimit THEN RemoveAt(frames, 2) ELSE frames
           pushed == Append(kept, new)
<1>1. StackLimit \in Nat /\ StackLimit >= 2 /\ Len(frames) \in Nat
  BY RuntimeAssumptions DEF LimitsAssumption
<1>2. new \in ProfileFrame /\ new.profiles = profiles /\ new.unresolved = unresolved
  BY DEF NewFrame, ProfileFrame, RemoteAttempt
<1>3. PushFrame(frames, profiles, attempt, unresolved) = pushed
  BY DEF PushFrame
<1>4. CASE Len(frames) < StackLimit
  <2>1. kept = frames
    BY <1>1, <1>4
  <2> HIDE DEF kept, new
  <2>2. /\ Len(pushed) = Len(frames) + 1 /\ pushed[Len(frames) + 1] = new
        /\ \A i \in 1 .. Len(frames) : pushed[i] = frames[i]
    BY <1>2, <2>1, AppendFacts
  <2> HIDE DEF pushed
  <2> QED
    BY <1>1, <1>2, <1>3, <1>4, <2>2 DEF Pushed
<1>5. CASE Len(frames) = StackLimit
  <2>1. kept = RemoveAt(frames, 2)
    BY <1>1, <1>5
  <2> HIDE DEF kept, new
  <2>2. /\ kept \in Seq(ProfileFrame) /\ Len(kept) = StackLimit - 1
        /\ \A i \in 1 .. StackLimit - 1 :
             kept[i] = IF i = 1 THEN frames[1] ELSE frames[i + 1]
    BY <1>1, <1>5, <2>1, RemoveSecondFacts
  <2>3. kept \in Seq(ProfileFrame) /\ new \in ProfileFrame
    BY <1>2, <2>2
  <2>4. /\ Len(pushed) = Len(kept) + 1 /\ pushed[Len(kept) + 1] = new
        /\ \A i \in 1 .. Len(kept) : pushed[i] = kept[i]
    BY <2>3, AppendFacts
  <2> HIDE DEF pushed
  <2>5. Len(pushed) = StackLimit /\ pushed[Len(pushed)] = new
    BY <1>1, <2>2, <2>4
  <2>6. \A i \in 2 .. StackLimit - 1 : pushed[i] = frames[i + 1]
    BY <1>1, <2>2, <2>4
  <2> QED
    BY <1>1, <1>2, <1>3, <1>5, <2>5, <2>6 DEF Pushed
<1> QED
  BY <1>1, <1>4, <1>5

(* Resolving or marking the top frame changes no profile set. *)
LEMMA ResolveTopFacts ==
  ASSUME stack \in Seq(ProfileFrame)
  PROVE  /\ ResolveTop \in Seq(ProfileFrame) /\ Len(ResolveTop) = Len(stack)
         /\ \A i \in 1 .. Len(stack) : ResolveTop[i].profiles = stack[i].profiles
<1>1. CASE stack = <<>>
  BY <1>1 DEF ResolveTop
<1>2. CASE stack # <<>>
  <2> DEFINE n == Len(stack)
             top == [stack[n] EXCEPT !.unresolved = FALSE]
  <2>1. n \in 1 .. Len(stack) /\ stack[n] \in ProfileFrame
    BY <1>2
  <2>2. top \in ProfileFrame /\ top.profiles = stack[n].profiles
    BY <2>1 DEF ProfileFrame
  <2>3. ResolveTop = [stack EXCEPT ![n] = top]
    BY <1>2 DEF ResolveTop
  <2> HIDE DEF n, top
  <2> QED
    BY <2>1, <2>2, <2>3
<1> QED
  BY <1>1, <1>2

(* The first frame naming a set is one, and none before it does. *)
LEMMA FirstNamingFacts ==
  ASSUME stack \in Seq(ProfileFrame), NEW profiles, FramesNaming(profiles) # {}
  PROVE  /\ FirstNaming(profiles) \in 1 .. Len(stack)
         /\ stack[FirstNaming(profiles)].profiles = profiles
<1>1. FramesNaming(profiles) \in SUBSET Nat
  BY DEF FramesNaming
<1>2. PICK n \in FramesNaming(profiles) : \A m \in FramesNaming(profiles) : n <= m
  BY <1>1, LeastNatural
<1>3. FirstNaming(profiles) \in FramesNaming(profiles)
  BY <1>2 DEF FirstNaming
<1> QED
  BY <1>3 DEF FramesNaming

(* The frames under the one gone back to: none, or the same first frame. *)
LEMMA FramesUnderFacts ==
  ASSUME stack \in Seq(ProfileFrame), NEW profiles, FramesNaming(profiles) # {}
  PROVE  /\ FramesUnder(profiles) \in Seq(ProfileFrame)
         /\ Len(FramesUnder(profiles)) < Len(stack)
         /\ \A i \in 1 .. Len(FramesUnder(profiles)) : FramesUnder(profiles)[i] = stack[i]
         /\ FramesUnder(profiles) = <<>> => stack[1].profiles = profiles
         /\ FramesUnder(profiles) = SubSeq(stack, 1, Len(FramesUnder(profiles)))
         /\ stack[Len(FramesUnder(profiles)) + 1].profiles = profiles
<1> DEFINE first == FirstNaming(profiles)
           n == first - 1
<1>1. first \in 1 .. Len(stack) /\ stack[first].profiles = profiles
  BY FirstNamingFacts
<1>2. n \in Nat /\ n <= Len(stack) /\ n < Len(stack) /\ (n = 0 => first = 1) /\ n + 1 = first
  BY <1>1
<1>3. FramesUnder(profiles) = SubSeq(stack, 1, n)
  BY DEF FramesUnder
<1> HIDE DEF n, first
<1>4. /\ SubSeq(stack, 1, n) \in Seq(ProfileFrame) /\ Len(SubSeq(stack, 1, n)) = n
      /\ \A i \in 1 .. n : SubSeq(stack, 1, n)[i] = stack[i]
  BY <1>2, PrefixFacts
<1> QED
  BY <1>1, <1>2, <1>3, <1>4

(* What a stack must be for a switch to it to be sound. *)
SoundStack(frames, active) ==
  /\ frames \in Seq(ProfileFrame) /\ Len(frames) <= StackLimit
  /\ ReturnsToBaseline(active, baselineProfiles, frames)
  /\ Inherits(frames, stack, activeProfiles)

(* A switch keeps the stack within its limit and its way back to the       *)
(* baseline: a local baseline left without a command gets a frame.         *)
LEMMA StackAfterSwitchFacts ==
  ASSUME stack \in Seq(ProfileFrame), Len(stack) <= StackLimit,
         activeProfiles \in SUBSET Profiles, BottomFrameIsBaseline,
         NEW profiles \in SUBSET Profiles, NEW attempt \in RemoteAttempt \cup {None},
         NEW open \in BOOLEAN,
         AtLocalBaseline => open \/ attempt # None \/ profiles = activeProfiles
  PROVE  SoundStack(StackAfterSwitch(profiles, attempt, open), profiles)
<1> DEFINE frames == StackAfterSwitch(profiles, attempt, open)
<1> SUFFICES SoundStack(frames, profiles)
  OBVIOUS
<1> HIDE DEF frames
<1>0. /\ ResolveTop \in Seq(ProfileFrame) /\ Len(ResolveTop) = Len(stack)
      /\ \A i \in 1 .. Len(stack) : ResolveTop[i].profiles = stack[i].profiles
      /\ stack = <<>> <=> ResolveTop = <<>>
      /\ stack # <<>> => ResolveTop[1].profiles = stack[1].profiles
      /\ Inherits(ResolveTop, stack, activeProfiles)
  <2>1. /\ ResolveTop \in Seq(ProfileFrame) /\ Len(ResolveTop) = Len(stack)
        /\ \A i \in 1 .. Len(stack) : ResolveTop[i].profiles = stack[i].profiles
    BY ResolveTopFacts
  <2>2. stack = <<>> <=> ResolveTop = <<>>
    BY <2>1
  <2>3. stack # <<>> => ResolveTop[1].profiles = stack[1].profiles
    BY <2>1
  <2>4. Inherits(ResolveTop, stack, activeProfiles)
    BY <2>1 DEF Inherits
  <2> QED
    BY <2>1, <2>2, <2>3, <2>4
<1>1. CASE attempt # None
  <2>1. frames = PushFrame(stack, activeProfiles, attempt, FALSE)
    BY <1>1 DEF frames, StackAfterSwitch
  <2>2. attempt \in RemoteAttempt /\ FALSE \in BOOLEAN
    BY <1>1
  <2>3. /\ frames \in Seq(ProfileFrame) /\ Len(frames) <= StackLimit /\ frames # <<>>
        /\ frames[1].profiles = IF stack = <<>> THEN activeProfiles ELSE stack[1].profiles
        /\ Inherits(frames, stack, activeProfiles)
    BY <2>1, <2>2, PushFrameFacts
  <2>4. ReturnsToBaseline(profiles, baselineProfiles, frames)
    BY <2>3 DEF ReturnsToBaseline, BottomFrameIsBaseline
  <2> QED
    BY <2>3, <2>4 DEF SoundStack
<1>2. CASE attempt = None /\ profiles = activeProfiles
  <2>1. frames = ResolveTop
    BY <1>2 DEF frames, StackAfterSwitch
  <2>2. ReturnsToBaseline(profiles, baselineProfiles, frames)
    BY <1>0, <1>2, <2>1 DEF ReturnsToBaseline, BottomFrameIsBaseline
  <2> QED
    BY <1>0, <2>1, <2>2 DEF SoundStack
<1>3. CASE attempt = None /\ profiles # activeProfiles /\ FramesNaming(profiles) # {}
  <2>1. frames = FramesUnder(profiles)
    BY <1>3 DEF frames, StackAfterSwitch
  <2>2. /\ frames \in Seq(ProfileFrame) /\ Len(frames) < Len(stack)
        /\ \A i \in 1 .. Len(frames) : frames[i] = stack[i]
        /\ frames = <<>> => stack[1].profiles = profiles
    BY <1>3, <2>1, FramesUnderFacts
  <2>3. Len(frames) <= StackLimit /\ stack # <<>>
    BY <2>2, RuntimeAssumptions DEF LimitsAssumption
  <2>4. ReturnsToBaseline(profiles, baselineProfiles, frames)
    BY <2>2, <2>3 DEF ReturnsToBaseline, BottomFrameIsBaseline
  <2>5. Inherits(frames, stack, activeProfiles)
    BY <2>2 DEF Inherits
  <2> QED
    BY <2>2, <2>3, <2>4, <2>5 DEF SoundStack
<1>4. CASE /\ attempt = None /\ profiles # activeProfiles /\ FramesNaming(profiles) = {}
           /\ profiles = baselineProfiles
  <2>1. frames = <<>>
    BY <1>4 DEF frames, StackAfterSwitch
  <2>2. Inherits(frames, stack, activeProfiles)
    BY <2>1 DEF Inherits
  <2> QED
    BY <1>4, <2>1, <2>2, RuntimeAssumptions DEF SoundStack, ReturnsToBaseline, LimitsAssumption
<1>5. CASE /\ attempt = None /\ profiles # activeProfiles /\ FramesNaming(profiles) = {}
           /\ profiles # baselineProfiles
  <2>1. CASE open
    <3> DEFINE generic == [policy |-> "Generic", target |-> None]
    <3>1. frames = PushFrame(ResolveTop, activeProfiles, generic, FALSE)
      BY <1>5, <2>1 DEF frames, StackAfterSwitch
    <3>2. generic \in RemoteAttempt /\ FALSE \in BOOLEAN
      BY DEF RemoteAttempt, Policies
    <3> HIDE DEF generic
    <3>3. ResolveTop \in Seq(ProfileFrame) /\ Len(ResolveTop) <= StackLimit
      BY <1>0
    <3>4. /\ frames \in Seq(ProfileFrame) /\ Len(frames) <= StackLimit /\ frames # <<>>
          /\ frames[1].profiles = IF ResolveTop = <<>> THEN activeProfiles
                                  ELSE ResolveTop[1].profiles
          /\ Inherits(frames, ResolveTop, activeProfiles)
      BY <3>1, <3>2, <3>3, PushFrameFacts
    <3>5. ReturnsToBaseline(profiles, baselineProfiles, frames)
      BY <1>0, <3>4 DEF ReturnsToBaseline, BottomFrameIsBaseline
    <3>6. Inherits(frames, stack, activeProfiles)
      BY <1>0, <3>4 DEF Inherits
    <3> QED
      BY <3>4, <3>5, <3>6 DEF SoundStack
  <2>2. CASE ~ open
    <3>1. frames = ResolveTop
      BY <1>5, <2>2 DEF frames, StackAfterSwitch
    <3>2. ReturnsToBaseline(profiles, baselineProfiles, frames)
      <4>1. CASE stack = <<>>
        BY <1>5, <2>2, <4>1 DEF AtLocalBaseline, ReturnsToBaseline, BottomFrameIsBaseline
      <4>2. CASE stack # <<>>
        BY <1>0, <3>1, <4>2 DEF ReturnsToBaseline, BottomFrameIsBaseline
      <4> QED
        BY <4>1, <4>2
    <3> QED
      BY <1>0, <3>1, <3>2 DEF SoundStack
  <2> QED
    BY <2>1, <2>2
<1> QED
  BY <1>1, <1>2, <1>3, <1>4, <1>5

-----------------------------------------------------------------------------
(* Windows and candidates. *)

(* A read is added to the window, and the window keeps its type. *)
LEMMA WindowWithFacts ==
  ASSUME window \in Windows, NEW r \in Reads
  PROVE  WindowWith(r) \in Windows
<1>1. r \in Read
  BY RuntimeAssumptions DEF InputsAssumption
<1>2. r.lines \in SUBSET Line /\ r.tail \in Line \cup {None}
  BY <1>1 DEF Read
<1>3. window.lines \in SUBSET Line /\ window.tail \in Line \cup {None}
  BY DEF Windows
<1>4. Lengthened(window.tail, r.tail) \in Line \cup {None}
  <2> DEFINE old == window.tail
             new == r.tail
  <2>1. old \in Line \cup {None} /\ new \in Line \cup {None}
    BY <1>2, <1>3
  <2> HIDE DEF old, new
  <2>2. CASE old # None /\ new # None
    <3>1. old \in Line /\ new \in Line
      BY <2>1, <2>2
    <3>2. [new EXCEPT !.strong = @ \cup old.strong, !.startup = @ \cup old.strong] \in Line
      BY <3>1 DEF Line
    <3> QED
      BY <2>2, <3>2 DEF Lengthened, old, new
  <2>3. CASE old = None \/ new = None
    BY <2>1, <2>3 DEF Lengthened, old, new
  <2> QED
    BY <2>2, <2>3
<1>5. CASE r.lines = {}
  BY <1>3, <1>4, <1>5 DEF WindowWith, Windows
<1>6. CASE r.lines # {}
  <2>1. window.lines \cup r.lines \cup ({window.tail} \ {None}) \in SUBSET Line
    BY <1>2, <1>3
  <2> QED
    BY <1>2, <1>6, <2>1 DEF WindowWith, Windows
<1> QED
  BY <1>5, <1>6

(* The profile a detection switches to is one of the store's. *)
LEMMA CandidateFacts ==
  ASSUME NEW w \in Windows
  PROVE  /\ Detected(w) \in SUBSET Profiles
         /\ StrongCandidates(w) \in SUBSET Profiles
         /\ PromptCandidates(w) \in SUBSET Profiles
<1>1. AllLines(w) \in SUBSET Line
  BY DEF AllLines, Windows
<1>2. \A l \in Line : l.startup \in SUBSET Profiles
  BY DEF Line
<1>3. Detected(w) \in SUBSET Profiles
  BY <1>1, <1>2 DEF Detected
<1> QED
  BY <1>3 DEF StrongCandidates, PromptCandidates, Showing

-----------------------------------------------------------------------------
(* What every examination of output leaves behind. *)
OutputEffect ==
  /\ activeProfiles' \in SUBSET Profiles /\ activeEvidence' \in Evidence
  /\ baselineProfiles' \in SUBSET Profiles /\ baselineLocked' \in BOOLEAN
  /\ baselineLocked => baselineLocked'
  /\ stack' \in Seq(ProfileFrame) /\ Len(stack') <= StackLimit
  /\ ReturnsToBaseline(activeProfiles', baselineProfiles', stack')
  /\ pendingRemote' \in {pendingRemote, None}
  /\ promptProfile' \in Profiles \cup {None} /\ promptHits' \in Nat
  /\ window' \in Windows
  /\ rollback' \in {None, TransitionState}

(* The cleared window is a window. *)
LEMMA EmptyWindowType == EmptyWindow \in Windows
BY DEF EmptyWindow, Windows

(* The connection of the top frame ends, or the baseline is gone back to. *)
LEMMA PopProfileEffect ==
  ASSUME RuntimeInv, PopProfile
  PROVE  /\ activeProfiles' \in SUBSET Profiles /\ activeEvidence' \in Evidence
         /\ baselineProfiles' \in SUBSET Profiles /\ baselineLocked' \in BOOLEAN
         /\ baselineLocked => baselineLocked'
         /\ stack' \in Seq(ProfileFrame) /\ Len(stack') <= StackLimit
         /\ ReturnsToBaseline(activeProfiles', baselineProfiles', stack')
         /\ rollback' \in {None, TransitionState}
<1>1. /\ activeEvidence' \in Evidence /\ rollback' \in {None, TransitionState}
      /\ baselineProfiles' = baselineProfiles /\ baselineLocked' = baselineLocked
      /\ baselineProfiles \in SUBSET Profiles /\ baselineLocked \in BOOLEAN
      /\ stack \in Seq(ProfileFrame) /\ Len(stack) <= StackLimit
      /\ ReturnsToBaseline(activeProfiles, baselineProfiles, stack)
  BY DEF RuntimeInv, RuntimeTypeOK, BottomFrameIsBaseline, PopProfile, Propose, Evidence
<1>2. CASE stack = <<>>
  BY <1>1, <1>2 DEF PopProfile, ReturnsToBaseline
<1>3. CASE stack # <<>>
  <2>1. stack' = Front(stack) /\ activeProfiles' = Last(stack).profiles
    BY <1>3 DEF PopProfile
  <2>2. /\ Front(stack) \in Seq(ProfileFrame) /\ Last(stack) \in ProfileFrame
        /\ Len(stack) \in Nat \ {0} /\ Len(Front(stack)) = Len(stack) - 1
        /\ \A i \in 1 .. Len(stack) - 1 : Front(stack)[i] = stack[i]
    BY <1>1, <1>3, FrontFacts
  <2>3. Last(stack).profiles \in SUBSET Profiles
    BY <2>2 DEF ProfileFrame
  <2>4. Len(stack') <= StackLimit
    BY <1>1, <2>1, <2>2, RuntimeAssumptions DEF LimitsAssumption
  <2>5. ReturnsToBaseline(Last(stack).profiles, baselineProfiles, Front(stack))
    <3>1. CASE Len(stack) = 1
      BY <1>1, <1>3, <2>2, <3>1 DEF ReturnsToBaseline, Last
    <3>2. CASE Len(stack) # 1
      <4>1. Front(stack) # <<>> /\ Front(stack)[1] = stack[1]
        BY <2>2, <3>2
      <4> QED
        BY <1>1, <1>3, <4>1 DEF ReturnsToBaseline
    <3> QED
      BY <3>1, <3>2
  <2> QED
    BY <1>1, <2>1, <2>2, <2>3, <2>4, <2>5
<1> QED
  BY <1>2, <1>3

(* A switch that opens a frame whenever the local baseline is left. *)
LEMMA SwitchEffect ==
  ASSUME RuntimeInv, NEW profiles \in SUBSET Profiles,
         NEW open \in BOOLEAN, NEW evidence \in Evidence,
         AtLocalBaseline => open \/ pendingRemote # None \/ profiles = activeProfiles,
         SwitchTo(profiles, pendingRemote, open, evidence)
  PROVE  /\ activeProfiles' \in SUBSET Profiles /\ activeEvidence' \in Evidence
         /\ baselineProfiles' \in SUBSET Profiles /\ baselineLocked' \in BOOLEAN
         /\ baselineLocked => baselineLocked'
         /\ stack' \in Seq(ProfileFrame) /\ Len(stack') <= StackLimit
         /\ ReturnsToBaseline(activeProfiles', baselineProfiles', stack')
         /\ rollback' \in {None, TransitionState}
<1>1. /\ activeProfiles' = profiles /\ activeEvidence' = evidence
      /\ baselineProfiles' = baselineProfiles /\ baselineLocked' = baselineLocked
      /\ stack' = StackAfterSwitch(profiles, pendingRemote, open)
      /\ rollback' \in {None, TransitionState}
  BY DEF SwitchTo, Propose
<1>2. /\ stack \in Seq(ProfileFrame) /\ Len(stack) <= StackLimit
      /\ activeProfiles \in SUBSET Profiles /\ BottomFrameIsBaseline
      /\ pendingRemote \in RemoteAttempt \cup {None}
      /\ baselineProfiles \in SUBSET Profiles /\ baselineLocked \in BOOLEAN
  BY DEF RuntimeInv, RuntimeTypeOK
<1>3. SoundStack(StackAfterSwitch(profiles, pendingRemote, open), profiles)
  BY <1>2, StackAfterSwitchFacts
<1> QED
  BY <1>1, <1>2, <1>3 DEF SoundStack

(* An examination that switches nothing leaves what the effect asks for. *)
LEMMA NothingSwitchedEffect ==
  ASSUME RuntimeInv, NothingSwitched
  PROVE  /\ activeProfiles' \in SUBSET Profiles
         /\ baselineProfiles' \in SUBSET Profiles /\ baselineLocked' \in BOOLEAN
         /\ baselineLocked => baselineLocked'
         /\ stack' \in Seq(ProfileFrame) /\ Len(stack') <= StackLimit
         /\ ReturnsToBaseline(activeProfiles', baselineProfiles', stack')
         /\ rollback' \in {None, TransitionState}
BY DEF RuntimeInv, RuntimeTypeOK, BottomFrameIsBaseline, NothingSwitched, Propose

(* Showing the prompt keeps the evidence one of its three values. *)
LEMMA EvidenceType ==
  ASSUME RuntimeInv, NEW w
  PROVE  EvidenceAfter(w) \in Evidence
BY DEF RuntimeInv, RuntimeTypeOK, EvidenceAfter, Evidence

(* Clearing the window and the awaited prompt keeps their types. *)
LEMMA ClearedTypes ==
  /\ ClearOutputWindow => window' \in Windows
  /\ ClearPendingPrompt => promptProfile' \in Profiles \cup {None} /\ promptHits' \in Nat
  /\ \A w \in Windows : RetainUnterminatedTail(w) => window' \in Windows
<1>1. ASSUME NEW w \in Windows PROVE [w EXCEPT !.lines = {}] \in Windows
  BY DEF Windows
<1> QED
  BY <1>1, EmptyWindowType DEF ClearOutputWindow, ClearPendingPrompt, RetainUnterminatedTail

(* Teardown lines, an attempt's end and a read too small to look at. *)
LEMMA CloseEffect ==
  ASSUME RuntimeInv, NEW w \in Windows, NEW r \in Reads,
         PopOnClose(w) \/ EndAttempt(w) \/ WaitForMore(w, r)
  PROVE  OutputEffect
<1>0. /\ activeEvidence \in Evidence /\ pendingRemote \in {pendingRemote, None}
      /\ promptProfile \in Profiles \cup {None} /\ promptHits \in Nat
  BY DEF RuntimeInv, RuntimeTypeOK
<1>1. CASE PopOnClose(w)
  <2>1. PopProfile /\ pendingRemote' = None /\ ClearOutputWindow /\ ClearPendingPrompt
    BY <1>1 DEF PopOnClose
  <2> QED
    BY <2>1, PopProfileEffect, ClearedTypes DEF OutputEffect
<1>2. CASE EndAttempt(w)
  <2>1. /\ NothingSwitched /\ pendingRemote' = None /\ activeEvidence' = activeEvidence
        /\ ClearOutputWindow /\ ClearPendingPrompt
    BY <1>2 DEF EndAttempt
  <2> QED
    BY <1>0, <2>1, NothingSwitchedEffect, ClearedTypes DEF OutputEffect
<1>3. CASE WaitForMore(w, r)
  <2>1. /\ NothingSwitched /\ pendingRemote' = pendingRemote
        /\ activeEvidence' = activeEvidence /\ window' = w
        /\ promptProfile' = promptProfile /\ promptHits' = promptHits
    BY <1>3 DEF WaitForMore, promptVars
  <2> QED
    BY <1>0, <2>1, NothingSwitchedEffect DEF OutputEffect
<1> QED
  BY <1>1, <1>2, <1>3

(* The outcomes of a detection pass. *)
LEMMA DetectEffect ==
  ASSUME RuntimeInv, NEW w \in Windows, Detect(w)
  PROVE  OutputEffect
<1>0. /\ EvidenceAfter(w) \in Evidence /\ "Weak" \in Evidence
      /\ "Banner" \in Evidence /\ "BannerAndPrompt" \in Evidence
      /\ activeProfiles \in SUBSET Profiles /\ stack \in Seq(ProfileFrame)
      /\ Len(stack) <= StackLimit
  BY EvidenceType DEF RuntimeInv, RuntimeTypeOK, Evidence
<1>1. CASE DetectNothing(w)
  <2>1. /\ NothingSwitched /\ pendingRemote' = pendingRemote
        /\ activeEvidence' = EvidenceAfter(w)
        /\ RetainUnterminatedTail(w) /\ ClearPendingPrompt
    BY <1>1 DEF DetectNothing
  <2> QED
    BY <1>0, <2>1, NothingSwitchedEffect, ClearedTypes DEF OutputEffect
<1>2. CASE DetectActive(w)
  <2>1. CASE pendingRemote # None
    <3>1. /\ SwitchTo(activeProfiles, pendingRemote, FALSE, "Weak")
          /\ pendingRemote' = None /\ ClearOutputWindow /\ ClearPendingPrompt
      BY <1>2, <2>1 DEF DetectActive, TakePending
    <3> QED
      BY <1>0, <3>1, SwitchEffect, ClearedTypes DEF OutputEffect
  <2>2. CASE pendingRemote = None
    <3>1. /\ NothingSwitched /\ pendingRemote' = pendingRemote
          /\ activeEvidence' = EvidenceAfter(w)
          /\ RetainUnterminatedTail(w) /\ ClearPendingPrompt
      BY <1>2, <2>2 DEF DetectActive
    <3> QED
      BY <1>0, <3>1, NothingSwitchedEffect, ClearedTypes DEF OutputEffect
  <2> QED
    BY <2>1, <2>2
<1>3. CASE LearnBaseline(w)
  <2>1. /\ baselineProfiles' = Detected(w) /\ activeProfiles' = Detected(w)
        /\ activeEvidence' = "Weak" /\ baselineLocked' = TRUE
        /\ stack' = stack /\ stack = <<>> /\ pendingRemote' = pendingRemote
        /\ rollback' = TransitionState
        /\ ClearOutputWindow /\ ClearPendingPrompt
    BY <1>3 DEF LearnBaseline, ShouldLearnBaseline, Propose
  <2>2. Detected(w) \in SUBSET Profiles
    BY CandidateFacts
  <2>3. ReturnsToBaseline(activeProfiles', baselineProfiles', stack')
    BY <2>1 DEF ReturnsToBaseline
  <2> QED
    BY <1>0, <2>1, <2>2, <2>3, ClearedTypes DEF OutputEffect
<1>4. CASE SwitchOnStrongSignal(w)
  <2> DEFINE p == ByPriority(StrongCandidates(w))
             evidence == IF WaitingAtPrompt(w, p) THEN "BannerAndPrompt" ELSE "Banner"
  <2>1. /\ SwitchTo({p}, pendingRemote, AtLocalBaseline, evidence)
        /\ pendingRemote' = None /\ ClearOutputWindow /\ ClearPendingPrompt
        /\ StrongCandidates(w) # {}
    BY <1>4 DEF SwitchOnStrongSignal, TakePending, TakesStrong
  <2>2. {p} \in SUBSET Profiles
    BY <2>1, CandidateFacts, ByPriorityMember
  <2>3. evidence \in Evidence /\ AtLocalBaseline \in BOOLEAN
    BY <1>0 DEF AtLocalBaseline
  <2> HIDE DEF p, evidence
  <2> QED
    BY <2>1, <2>2, <2>3, SwitchEffect, ClearedTypes DEF OutputEffect
<1>5. CASE SwitchOnPrompt(w)
  <2> DEFINE p == ByPriority(PromptCandidates(w))
  <2>1. /\ SwitchTo({p}, pendingRemote, AtLocalBaseline, "Weak")
        /\ pendingRemote' = None /\ ClearOutputWindow /\ ClearPendingPrompt
        /\ PromptCandidates(w) # {}
    BY <1>5 DEF SwitchOnPrompt, TakePending, TakesPrompt
  <2>2. {p} \in SUBSET Profiles
    BY <2>1, CandidateFacts, ByPriorityMember
  <2>3. AtLocalBaseline \in BOOLEAN
    BY DEF AtLocalBaseline
  <2> HIDE DEF p
  <2> QED
    BY <1>0, <2>1, <2>2, <2>3, SwitchEffect, ClearedTypes DEF OutputEffect
<1>6. CASE NotePrompt(w)
  <2> DEFINE p == ByPriority(PromptCandidates(w))
  <2>1. /\ NothingSwitched /\ pendingRemote' = pendingRemote
        /\ activeEvidence' = EvidenceAfter(w) /\ RetainUnterminatedTail(w)
        /\ promptProfile' = p /\ promptHits' = 1 /\ PromptCandidates(w) # {}
    BY <1>6 DEF NotePrompt, TakesPrompt
  <2>2. p \in Profiles
    BY <2>1, CandidateFacts, ByPriorityMember
  <2> HIDE DEF p
  <2> QED
    BY <1>0, <2>1, <2>2, NothingSwitchedEffect, ClearedTypes DEF OutputEffect
<1>7. CASE DismissDetection(w)
  <2>1. /\ NothingSwitched /\ pendingRemote' = pendingRemote
        /\ activeEvidence' = EvidenceAfter(w) /\ ClearPendingPrompt
        /\ ClearOutputWindow \/ RetainUnterminatedTail(w)
    BY <1>7 DEF DismissDetection
  <2> QED
    BY <1>0, <2>1, NothingSwitchedEffect, ClearedTypes DEF OutputEffect
<1> QED
  BY <1>1, <1>2, <1>3, <1>4, <1>5, <1>6, <1>7 DEF Detect

-----------------------------------------------------------------------------
(* The snapshot a proposal keeps obeys the invariant it was taken under. *)
LEMMA TransitionStateFacts ==
  ASSUME RuntimeInv
  PROVE  /\ TransitionState \in TransitionStates
         /\ Len(TransitionState.stack) <= StackLimit
         /\ ReturnsToBaseline(TransitionState.active, TransitionState.baseline,
                              TransitionState.stack)
BY DEF RuntimeInv, RuntimeTypeOK, BottomFrameIsBaseline, TransitionState, TransitionStates

(* What an examination does to the stack: nothing, close the top connection, *)
(* open one for the attempt or around the local shell, unwind to a frame or  *)
(* to the baseline, or resolve the top frame.                                *)
Generic == [policy |-> "Generic", target |-> None]

StackEffect ==
  \/ stack' = stack /\ (activeProfiles' = activeProfiles \/ stack = <<>>)
  \/ stack # <<>> /\ stack' = Front(stack) /\ activeProfiles' = Last(stack).profiles
  \/ /\ pendingRemote # None /\ pendingRemote' = None
     /\ stack' = PushFrame(stack, activeProfiles, pendingRemote, FALSE)
  \/ /\ stack = <<>> /\ pendingRemote' = None
     /\ stack' = PushFrame(<<>>, activeProfiles, Generic, FALSE)
  \/ FramesNaming(activeProfiles') # {} /\ stack' = FramesUnder(activeProfiles')
  \/ stack' = <<>> /\ activeProfiles' = baselineProfiles
  \/ stack' = ResolveTop

LEMMA SwitchStackEffect ==
  ASSUME NEW profiles, NEW evidence, NEW open \in BOOLEAN, open => AtLocalBaseline,
         SwitchTo(profiles, pendingRemote, open, evidence), pendingRemote' = None
  PROVE  StackEffect
<1>1. /\ stack' = StackAfterSwitch(profiles, pendingRemote, open)
      /\ activeProfiles' = profiles
  BY DEF SwitchTo
<1>2. ASSUME stack = <<>> PROVE ResolveTop = <<>>
  BY <1>2 DEF ResolveTop
<1>3. open => stack = <<>>
  BY DEF AtLocalBaseline
<1>4. CASE pendingRemote # None
  BY <1>1, <1>4 DEF StackAfterSwitch, StackEffect
<1>5. CASE pendingRemote = None
  BY <1>1, <1>2, <1>3, <1>5, Zenon DEF StackAfterSwitch, StackEffect, Generic
<1> QED
  BY <1>4, <1>5

(* Each outcome of a read has one of these effects on the stack. *)
LEMMA OutputStackEffect ==
  ASSUME NEW r \in Reads, ObserveOutput(r)
  PROVE  StackEffect
<1> DEFINE w == WindowWith(r)
<1>1. PopOnClose(w) \/ EndAttempt(w) \/ WaitForMore(w, r) \/ Detect(w)
  BY DEF ObserveOutput
<1> HIDE DEF w
<1>2. CASE PopOnClose(w)
  <2>1. PopProfile
    BY <1>2 DEF PopOnClose
  <2>2. CASE stack = <<>>
    BY <2>1, <2>2 DEF PopProfile, StackEffect
  <2>3. CASE stack # <<>>
    BY <2>1, <2>3 DEF PopProfile, StackEffect
  <2> QED
    BY <2>2, <2>3
<1>3. CASE EndAttempt(w) \/ WaitForMore(w, r)
  BY <1>3 DEF EndAttempt, WaitForMore, NothingSwitched, StackEffect
<1>4. CASE DetectNothing(w) \/ NotePrompt(w) \/ DismissDetection(w)
  BY <1>4 DEF DetectNothing, NotePrompt, DismissDetection, NothingSwitched, StackEffect
<1>5. CASE DetectActive(w)
  <2>1. CASE pendingRemote = None
    BY <1>5, <2>1 DEF DetectActive, NothingSwitched, StackEffect
  <2>2. CASE pendingRemote # None
    <3>1. SwitchTo(activeProfiles, pendingRemote, FALSE, "Weak") /\ pendingRemote' = None
      BY <1>5, <2>2 DEF DetectActive, TakePending
    <3> QED
      BY <3>1, SwitchStackEffect
  <2> QED
    BY <2>1, <2>2
<1>6. CASE LearnBaseline(w)
  BY <1>6 DEF LearnBaseline, ShouldLearnBaseline, StackEffect
<1>7. CASE SwitchOnStrongSignal(w)
  <2> DEFINE p == ByPriority(StrongCandidates(w))
             evidence == IF WaitingAtPrompt(w, p) THEN "BannerAndPrompt" ELSE "Banner"
  <2>1. SwitchTo({p}, pendingRemote, AtLocalBaseline, evidence) /\ pendingRemote' = None
    BY <1>7 DEF SwitchOnStrongSignal, TakePending
  <2>2. AtLocalBaseline \in BOOLEAN
    BY DEF AtLocalBaseline
  <2> HIDE DEF p, evidence
  <2> QED
    BY <2>1, <2>2, SwitchStackEffect
<1>8. CASE SwitchOnPrompt(w)
  <2> DEFINE p == ByPriority(PromptCandidates(w))
  <2>1. SwitchTo({p}, pendingRemote, AtLocalBaseline, "Weak") /\ pendingRemote' = None
    BY <1>8 DEF SwitchOnPrompt, TakePending
  <2>2. AtLocalBaseline \in BOOLEAN
    BY DEF AtLocalBaseline
  <2> HIDE DEF p
  <2> QED
    BY <2>1, <2>2, SwitchStackEffect
<1> QED
  BY <1>1, <1>2, <1>3, <1>4, <1>5, <1>6, <1>7, <1>8 DEF Detect

(* A proposal can be taken back to the state it was made in. *)
LEMMA RollbackTaken ==
  ASSUME RuntimeInv, NEW r \in Reads, ObserveOutput(r)
  PROVE  rollback' \in {None, TransitionState}
<1> DEFINE w == WindowWith(r)
<1>1. w \in Windows
  BY WindowWithFacts DEF RuntimeInv, RuntimeTypeOK
<1>2. PopOnClose(w) \/ EndAttempt(w) \/ WaitForMore(w, r) \/ Detect(w)
  BY DEF ObserveOutput
<1> HIDE DEF w
<1> QED
  BY <1>1, <1>2, CloseEffect, DetectEffect DEF OutputEffect

(* How far one read can lengthen the stack. *)
Grows ==
  \/ Len(stack') <= Len(stack)
  \/ pendingRemote # None /\ Len(stack') = Len(stack) + 1
  \/ stack = <<>> /\ Len(stack') = 1 /\ stack'[1].profiles = activeProfiles

LEMMA StackGrowth ==
  ASSUME RuntimeInv, StackEffect
  PROVE  Grows
<1>0. /\ stack \in Seq(ProfileFrame) /\ Len(stack) <= StackLimit /\ Len(stack) \in Nat
      /\ activeProfiles \in SUBSET Profiles /\ StackLimit \in Nat /\ StackLimit >= 2
      /\ pendingRemote # None => pendingRemote \in RemoteAttempt
  BY RuntimeAssumptions DEF RuntimeInv, RuntimeTypeOK, LimitsAssumption
<1>1. CASE stack' = stack
  BY <1>0, <1>1 DEF Grows
<1>2. CASE stack # <<>> /\ stack' = Front(stack)
  BY <1>0, <1>2, FrontFacts DEF Grows
<1>3. CASE pendingRemote # None /\ stack' = PushFrame(stack, activeProfiles, pendingRemote, FALSE)
  <2>0. pendingRemote \in RemoteAttempt /\ FALSE \in BOOLEAN
    BY <1>0, <1>3
  <2>1. Pushed(stack', stack, activeProfiles, FALSE)
    BY <1>0, <1>3, <2>0, PushFrameShape
  <2>2. Len(stack') = IF Len(stack) < StackLimit THEN Len(stack) + 1 ELSE StackLimit
    BY <2>1 DEF Pushed
  <2>3. CASE Len(stack) < StackLimit
    BY <1>0, <1>3, <2>2, <2>3 DEF Grows
  <2>4. CASE ~(Len(stack) < StackLimit)
    BY <1>0, <2>2, <2>4 DEF Grows
  <2> QED
    BY <2>3, <2>4
<1>4. CASE stack = <<>> /\ stack' = PushFrame(<<>>, activeProfiles, Generic, FALSE)
  <2>1. Generic \in RemoteAttempt /\ FALSE \in BOOLEAN
    BY DEF Generic, RemoteAttempt, Policies
  <2>2. Pushed(stack', stack, activeProfiles, FALSE)
    BY <1>0, <1>4, <2>1, PushFrameShape
  <2>3. Len(stack) = 0
    BY <1>4
  <2>5. /\ Len(stack') = IF Len(stack) < StackLimit THEN Len(stack) + 1 ELSE StackLimit
        /\ stack'[Len(stack')].profiles = activeProfiles
    BY <2>2 DEF Pushed
  <2>4. Len(stack') = 1
    BY <1>0, <2>3, <2>5
  <2> QED
    BY <1>4, <2>4, <2>5 DEF Grows
<1>5. CASE FramesNaming(activeProfiles') # {} /\ stack' = FramesUnder(activeProfiles')
  <2>1. stack' \in Seq(ProfileFrame) /\ Len(stack') < Len(stack)
    BY <1>0, <1>5, FramesUnderFacts
  <2> QED
    BY <1>0, <2>1 DEF Grows
<1>6. CASE stack' = <<>>
  BY <1>0, <1>6 DEF Grows
<1>7. CASE stack' = ResolveTop
  BY <1>0, <1>7, ResolveTopFacts DEF Grows
<1> QED
  BY <1>1, <1>2, <1>3, <1>4, <1>5, <1>6, <1>7 DEF StackEffect

(* No read of output disturbs the invariant: each outcome has the effect above. *)
LEMMA OutputPreservesInv ==
  ASSUME RuntimeInv, NEW r \in Reads, ObserveOutput(r)
  PROVE  RuntimeInv'
<1> DEFINE w == WindowWith(r)
<1>1. w \in Windows
  BY WindowWithFacts DEF RuntimeInv, RuntimeTypeOK
<1>2. PopOnClose(w) \/ EndAttempt(w) \/ WaitForMore(w, r) \/ Detect(w)
  BY DEF ObserveOutput
<1>3. OutputEffect
  <2> HIDE DEF w
  <2> QED
    BY <1>1, <1>2, CloseEffect, DetectEffect
<1>4. /\ pendingLines' = pendingLines /\ linesTyped' = linesTyped /\ typedLine' = typedLine
      /\ lineReliable' = lineReliable /\ unreliableAttempt' = unreliableAttempt
  BY DEF ObserveOutput, inputVars
<1> HIDE DEF w
<1>5. RuntimeTypeOK'
  BY <1>3, <1>4, TransitionStateFacts DEF OutputEffect, RuntimeInv, RuntimeTypeOK
<1>6. AttemptExpires'
  BY <1>3, <1>4 DEF OutputEffect, RuntimeInv, AttemptExpires
<1>a. CommandLocksBaseline'
  BY <1>3 DEF OutputEffect, RuntimeInv, CommandLocksBaseline
<1>7. BottomFrameIsBaseline'
  BY <1>3 DEF OutputEffect, BottomFrameIsBaseline
<1>8. RollbackObeys'
  BY <1>3, TransitionStateFacts DEF OutputEffect, RollbackObeys
<1>9. RejectionClosesOwnFrame'
  <2>1. Grows
    BY OutputStackEffect, StackGrowth
  <2>2. rollback' # None => rollback' = TransitionState
    BY <1>3 DEF OutputEffect
  <2> QED
    BY <2>1, <2>2 DEF Grows, RejectionClosesOwnFrame, TransitionState
<1> QED
  BY <1>5, <1>6, <1>7, <1>8, <1>9, <1>a DEF RuntimeInv

(* A rejection restores the snapshot, under one more frame when a command *)
(* had been typed.                                                        *)
LEMMA RejectPreservesInv ==
  ASSUME RuntimeInv, RejectTransition
  PROVE  RuntimeInv'
<1>1. /\ rollback \in TransitionStates /\ Len(rollback.stack) <= StackLimit
      /\ ReturnsToBaseline(rollback.active, rollback.baseline, rollback.stack)
  BY DEF RuntimeInv, RuntimeTypeOK, RollbackObeys, RejectTransition
<1>2. /\ rollback.active \in SUBSET Profiles /\ rollback.evidence \in Evidence
      /\ rollback.baseline \in SUBSET Profiles /\ rollback.locked \in BOOLEAN
      /\ rollback.stack \in Seq(ProfileFrame)
      /\ rollback.pending \in RemoteAttempt \cup {None}
  BY <1>1 DEF TransitionStates
<1>3. /\ stack' \in Seq(ProfileFrame) /\ Len(stack') <= StackLimit
      /\ ReturnsToBaseline(rollback.active, rollback.baseline, stack')
  <2>1. CASE rollback.pending = None
    BY <1>1, <1>2, <2>1 DEF RejectTransition
  <2>2. CASE rollback.pending # None
    <3> DEFINE old == rollback.stack
               active == rollback.active
               attempt == rollback.pending
    <3>1. stack' = PushFrame(old, active, attempt, TRUE)
      BY <2>2 DEF RejectTransition
    <3>2. /\ old \in Seq(ProfileFrame) /\ Len(old) <= StackLimit
          /\ active \in SUBSET Profiles /\ attempt \in RemoteAttempt /\ TRUE \in BOOLEAN
          /\ ReturnsToBaseline(active, rollback.baseline, old)
      BY <1>1, <1>2, <2>2
    <3> HIDE DEF old, active, attempt
    <3>3. /\ stack' \in Seq(ProfileFrame) /\ Len(stack') <= StackLimit /\ stack' # <<>>
          /\ stack'[1].profiles = IF old = <<>> THEN active ELSE old[1].profiles
      BY <3>1, <3>2, PushFrameFacts
    <3>4. ReturnsToBaseline(active, rollback.baseline, stack')
      BY <3>2, <3>3 DEF ReturnsToBaseline
    <3> QED
      BY <3>3, <3>4 DEF active
  <2> QED
    BY <2>1, <2>2
<1>4. /\ activeProfiles' = rollback.active /\ activeEvidence' = rollback.evidence
      /\ baselineProfiles' = rollback.baseline /\ baselineLocked' = rollback.locked
      /\ pendingRemote' = None /\ rollback' = None /\ pendingLines' = pendingLines
      /\ typedLine' = typedLine /\ lineReliable' = lineReliable
      /\ unreliableAttempt' = unreliableAttempt
      /\ ClearOutputWindow /\ ClearPendingPrompt
  BY DEF RejectTransition, inputVars
<1>5. RuntimeTypeOK'
  BY <1>2, <1>3, <1>4, ClearedTypes DEF RuntimeInv, RuntimeTypeOK
<1> QED
  BY <1>3, <1>4, <1>5
  DEF RuntimeInv, AttemptExpires, CommandLocksBaseline, BottomFrameIsBaseline, RollbackObeys,
      RejectionClosesOwnFrame

(* What the typed line may arm. *)
LEMMA AttemptTypes ==
  ASSUME RuntimeInv
  PROVE  /\ TypedRemoteAttempt \in RemoteAttempt \cup {None}
         /\ SubmittedAttempt \in RemoteAttempt \cup {None}
         /\ TypedRemoteAttempt # None =>
              [TypedRemoteAttempt EXCEPT !.target = None] \in RemoteAttempt
<1>1. TypedRemoteAttempt \in RemoteAttempt \cup {None}
  <2>1. CASE TypedRemoteAttempt = None
    BY <2>1
  <2>2. CASE TypedRemoteAttempt # None
    <3>1. typedLine \in Command
      BY <2>2, RuntimeAssumptions
      DEF RuntimeInv, RuntimeTypeOK, TypedRemoteAttempt, InputsAssumption
    <3>2. [policy |-> typedLine.policy, target |-> typedLine.target] \in RemoteAttempt
      BY <3>1 DEF Command, RemoteAttempt
    <3> QED
      BY <2>2, <3>2 DEF TypedRemoteAttempt
  <2> QED
    BY <2>1, <2>2
<1>2. SubmittedAttempt \in RemoteAttempt \cup {None}
  BY <1>1 DEF SubmittedAttempt, RuntimeInv, RuntimeTypeOK
<1>3. \A a \in RemoteAttempt : [a EXCEPT !.target = None] \in RemoteAttempt
  BY DEF RemoteAttempt
<1> QED
  BY <1>1, <1>2, <1>3

(* Marking the top frame as having seen a command. *)
LEMMA MarkTopFacts ==
  ASSUME stack \in Seq(ProfileFrame)
  PROVE  /\ MarkTop \in Seq(ProfileFrame) /\ Len(MarkTop) = Len(stack)
         /\ \A i \in 1 .. Len(stack) : MarkTop[i].profiles = stack[i].profiles
<1>1. CASE stack = <<>>
  BY <1>1 DEF MarkTop
<1>2. CASE stack # <<>>
  <2> DEFINE n == Len(stack)
             top == [stack[n] EXCEPT !.nestedSeen = TRUE]
  <2>1. n \in 1 .. Len(stack) /\ stack[n] \in ProfileFrame
    BY <1>2
  <2>2. top \in ProfileFrame /\ top.profiles = stack[n].profiles
    BY <2>1 DEF ProfileFrame
  <2>3. MarkTop = [stack EXCEPT ![n] = top]
    BY <1>2 DEF MarkTop
  <2> HIDE DEF n, top
  <2> QED
    BY <2>1, <2>2, <2>3
<1> QED
  BY <1>1, <1>2

(* No key the user types disturbs the invariant. *)
LEMMA InputPreservesInv ==
  ASSUME RuntimeInv, ObserveInput
  PROVE  RuntimeInv'
<1> USE DEF RuntimeInv, AttemptExpires, CommandLocksBaseline, BottomFrameIsBaseline,
            RollbackObeys, RejectionClosesOwnFrame
<1>1. ASSUME NEW c \in Commands \cup {None}, TypeLine(c) PROVE RuntimeInv'
  BY <1>1 DEF RuntimeTypeOK, TypeLine, connectionVars, promptVars
<1>2. CASE InvalidateInputLine
  <2>1. unreliableAttempt' \in RemoteAttempt \cup {None}
    BY <1>2, AttemptTypes DEF InvalidateInputLine
  <2> QED
    BY <1>2, <2>1 DEF RuntimeTypeOK, InvalidateInputLine, connectionVars, promptVars
<1>3. CASE PressCtrlC
  BY <1>3 DEF RuntimeTypeOK, PressCtrlC, ResetInputLine, connectionVars, promptVars
<1>4. CASE PressCtrlU
  BY <1>4 DEF RuntimeTypeOK, PressCtrlU, ResetInputLine, connectionVars, promptVars
<1>5. CASE ArmRemoteAttempt
  <2>1. pendingRemote' \in RemoteAttempt /\ pendingLines' = 0 /\ linesTyped' = 0
    BY <1>5, AttemptTypes DEF ArmRemoteAttempt
  <2>2. 0 \in 0 .. LineGrace + 1 /\ 0 <= LineGrace
    BY RuntimeAssumptions DEF LimitsAssumption
  <2>3. /\ stack' \in Seq(ProfileFrame) /\ Len(stack') = Len(stack)
        /\ stack' = <<>> <=> stack = <<>>
        /\ stack # <<>> => stack'[1].profiles = stack[1].profiles
    <3>1. stack \in Seq(ProfileFrame) /\ stack' = MarkTop
      BY <1>5 DEF ArmRemoteAttempt, RuntimeTypeOK
    <3>2. /\ stack' \in Seq(ProfileFrame) /\ Len(stack') = Len(stack)
          /\ \A i \in 1 .. Len(stack) : stack'[i].profiles = stack[i].profiles
      BY <3>1, MarkTopFacts
    <3> QED
      BY <3>1, <3>2
  <2>4. /\ activeProfiles' = activeProfiles /\ activeEvidence' = activeEvidence
        /\ baselineProfiles' = baselineProfiles /\ rollback' = rollback /\ rollback = None
        /\ baselineLocked' = TRUE
        /\ typedLine' = None /\ lineReliable' = TRUE /\ unreliableAttempt' = None
        /\ ClearOutputWindow /\ ClearPendingPrompt
    BY <1>5 DEF ArmRemoteAttempt, ResetInputLine
  <2>5. RuntimeTypeOK'
    BY <2>1, <2>2, <2>3, <2>4, ClearedTypes DEF RuntimeTypeOK
  <2>6. ReturnsToBaseline(activeProfiles', baselineProfiles', stack')
    BY <2>3, <2>4 DEF ReturnsToBaseline
  <2> QED
    BY <2>1, <2>2, <2>4, <2>5, <2>6
<1>6. CASE AgePendingRemote
  <2>1. LineGrace \in Nat /\ pendingLines \in 0 .. LineGrace + 1
    BY RuntimeAssumptions DEF LimitsAssumption, RuntimeTypeOK
  <2>2. /\ pendingRemote' \in {pendingRemote, None}
        /\ pendingLines' \in 0 .. LineGrace + 1
        /\ pendingRemote' # None => pendingLines' = linesTyped' /\ linesTyped' <= LineGrace
    <3>1. CASE pendingRemote = None
      BY <1>6, <2>1, <3>1 DEF AgePendingRemote
    <3>2. CASE pendingRemote # None
      BY <1>6, <2>1, <3>2 DEF AgePendingRemote, Expired
    <3> QED
      BY <3>1, <3>2
  <2> QED
    BY <1>6, <2>2
    DEF RuntimeTypeOK, AgePendingRemote, ResetInputLine, connectionVars, promptVars
<1> QED
  BY <1>1, <1>2, <1>3, <1>4, <1>5, <1>6 DEF ObserveInput

-----------------------------------------------------------------------------
(* A session starts with no connection and its baseline active. *)
LEMMA InitImpliesInv == RuntimeInit => RuntimeInv
<1> SUFFICES ASSUME RuntimeInit PROVE RuntimeInv
  OBVIOUS
<1>1. /\ activeProfiles \in SUBSET Profiles /\ baselineProfiles = activeProfiles
      /\ StackLimit \in Nat /\ LineGrace \in Nat
  BY RuntimeAssumptions DEF RuntimeInit, ProfilesAssumption, LimitsAssumption
<1>2. RuntimeTypeOK
  BY <1>1, EmptyWindowType DEF RuntimeInit, RuntimeTypeOK, Evidence
<1> QED
  BY <1>1, <1>2
  DEF RuntimeInit, RuntimeInv, AttemptExpires, CommandLocksBaseline, BottomFrameIsBaseline,
      ReturnsToBaseline, RollbackObeys, RejectionClosesOwnFrame

(* Every step of the runtime preserves the invariant. *)
LEMMA NextPreservesInv == RuntimeInv /\ [RuntimeNext]_runtimeVars => RuntimeInv'
<1> SUFFICES ASSUME RuntimeInv, [RuntimeNext]_runtimeVars PROVE RuntimeInv'
  OBVIOUS
<1>1. CASE ObserveInput
  BY <1>1, InputPreservesInv
<1>2. ASSUME NEW r \in Reads, ObserveOutput(r) PROVE RuntimeInv'
  BY <1>2, OutputPreservesInv
<1>3. CASE AcceptTransition
  BY <1>3
  DEF AcceptTransition, connectionVars, promptVars, inputVars, RuntimeInv, RuntimeTypeOK,
      AttemptExpires, CommandLocksBaseline, BottomFrameIsBaseline, RollbackObeys,
      RejectionClosesOwnFrame
<1>4. CASE RejectTransition
  BY <1>4, RejectPreservesInv
<1>5. CASE AcceptReloadGeneration
  BY <1>5, ClearedTypes
  DEF AcceptReloadGeneration, connectionVars, inputVars, RuntimeInv, RuntimeTypeOK,
      AttemptExpires, CommandLocksBaseline, BottomFrameIsBaseline, RollbackObeys,
      RejectionClosesOwnFrame
<1>6. CASE UNCHANGED runtimeVars
  BY <1>6
  DEF runtimeVars, connectionVars, promptVars, inputVars, RuntimeInv, RuntimeTypeOK,
      AttemptExpires, CommandLocksBaseline, BottomFrameIsBaseline, RollbackObeys,
      RejectionClosesOwnFrame
<1> QED
  BY <1>1, <1>2, <1>3, <1>4, <1>5, <1>6 DEF RuntimeNext

(* The runtime keeps its inductive invariant. *)
THEOREM InvariantHolds == RuntimeSpec => []RuntimeInv
<1>1. RuntimeInit => RuntimeInv
  BY InitImpliesInv
<1>2. RuntimeInv /\ [RuntimeNext]_runtimeVars => RuntimeInv'
  BY NextPreservesInv
<1> QED
  BY <1>1, <1>2, PTL DEF RuntimeSpec

(* The stack stays within PROFILE_STACK_LIMIT and every field keeps its type. *)
THEOREM TypeCorrect == RuntimeSpec => []RuntimeTypeOK
<1>1. RuntimeInv => RuntimeTypeOK
  BY DEF RuntimeInv
<1> QED
  BY <1>1, InvariantHolds, PTL

(* The first frame always leads back to the local baseline. *)
THEOREM WayBackToBaseline == RuntimeSpec => []BottomFrameIsBaseline
<1>1. RuntimeInv => BottomFrameIsBaseline
  BY DEF RuntimeInv
<1> QED
  BY <1>1, InvariantHolds, PTL

(* A typed command's attempt outlives at most LineGrace typed lines. *)
THEOREM AttemptsExpire == RuntimeSpec => []AttemptExpires
<1>1. RuntimeInv => AttemptExpires
  BY DEF RuntimeInv
<1> QED
  BY <1>1, InvariantHolds, PTL
-----------------------------------------------------------------------------
(* Settled frames. *)

(* A new frame settles the stack it is put on, if it is a detection's or the *)
(* profile stays the one it goes back to.                                    *)
LEMMA PushSettles ==
  ASSUME NEW frames \in Seq(ProfileFrame), Len(frames) <= StackLimit,
         NEW profiles, NEW active, NEW unresolved, unresolved => active = profiles,
         NEW pushed, Pushed(pushed, frames, profiles, unresolved),
         FramesSettled(profiles, frames)
  PROVE  FramesSettled(active, pushed)
<1>1. StackLimit \in Nat /\ StackLimit >= 2 /\ Len(frames) \in Nat
  BY RuntimeAssumptions DEF LimitsAssumption
<1> SUFFICES ASSUME NEW i \in 2 .. Len(pushed), pushed[i].unresolved
             PROVE  Inside(active, pushed, i) = pushed[i].profiles
  BY DEF FramesSettled
<1>2. CASE i = Len(pushed)
  BY <1>2 DEF Pushed, Inside
<1>3. CASE i # Len(pushed) /\ Len(frames) < StackLimit
  <2>1. /\ Len(pushed) = Len(frames) + 1 /\ pushed[Len(frames) + 1].profiles = profiles
        /\ \A j \in 1 .. Len(frames) : pushed[j] = frames[j]
    BY <1>3 DEF Pushed
  <2>2. i \in 2 .. Len(frames) /\ i \in 1 .. Len(frames) /\ pushed[i] = frames[i]
    BY <1>1, <1>3, <2>1
  <2>3. Inside(profiles, frames, i) = frames[i].profiles
    BY <2>2 DEF FramesSettled
  <2>4. Inside(active, pushed, i) = pushed[i + 1].profiles
    BY <1>3 DEF Inside
  <2>5. CASE i = Len(frames)
    BY <2>1, <2>2, <2>3, <2>4, <2>5 DEF Inside
  <2>6. CASE i # Len(frames)
    <3>1. i + 1 \in 1 .. Len(frames)
      BY <1>1, <2>2, <2>6
    <3> QED
      BY <2>1, <2>2, <2>3, <2>4, <2>6, <3>1 DEF Inside
  <2> QED
    BY <2>5, <2>6
<1>4. CASE i # Len(pushed) /\ Len(frames) = StackLimit
  <2>1. /\ Len(pushed) = StackLimit /\ pushed[StackLimit].profiles = profiles
        /\ \A j \in 2 .. StackLimit - 1 : pushed[j] = frames[j + 1]
    BY <1>1, <1>4 DEF Pushed
  <2>2. /\ i \in 2 .. StackLimit - 1 /\ i + 1 \in 2 .. Len(frames)
        /\ pushed[i] = frames[i + 1]
    BY <1>1, <1>4, <2>1
  <2>3. Inside(profiles, frames, i + 1) = frames[i + 1].profiles
    BY <2>2 DEF FramesSettled
  <2>4. Inside(active, pushed, i) = pushed[i + 1].profiles
    BY <1>4 DEF Inside
  <2>5. CASE i + 1 = StackLimit
    BY <1>4, <2>1, <2>2, <2>3, <2>4, <2>5 DEF Inside
  <2>6. CASE i + 1 # StackLimit
    <3>1. i + 1 \in 2 .. StackLimit - 1 /\ i + 1 # Len(frames)
      BY <1>1, <1>4, <2>2, <2>6
    <3>2. pushed[i + 1] = frames[(i + 1) + 1]
      BY <2>1, <3>1
    <3> QED
      BY <2>2, <2>3, <2>4, <3>1, <3>2 DEF Inside
  <2> QED
    BY <2>5, <2>6
<1> QED
  BY <1>1, <1>2, <1>3, <1>4

(* The frames under one are as they were, and around its profiles. *)
LEMMA PrefixSettles ==
  ASSUME stack \in Seq(ProfileFrame), NEW frames, NEW n \in Nat, n < Len(stack),
         Len(frames) = n, \A i \in 1 .. n : frames[i] = stack[i],
         FramesSettled(activeProfiles, stack)
  PROVE  FramesSettled(stack[n + 1].profiles, frames)
<1>0. Len(stack) \in Nat
  OBVIOUS
<1> SUFFICES ASSUME NEW i \in 2 .. n, frames[i].unresolved
             PROVE  Inside(stack[n + 1].profiles, frames, i) = frames[i].profiles
  BY DEF FramesSettled
<1>1. i \in 2 .. Len(stack) /\ i \in 1 .. n /\ i # Len(stack) /\ frames[i] = stack[i]
  BY <1>0
<1>2. stack[i + 1].profiles = stack[i].profiles
  BY <1>1 DEF FramesSettled, Inside
<1>3. CASE i = n
  BY <1>1, <1>2, <1>3 DEF Inside
<1>4. CASE i # n
  <2>1. i + 1 \in 1 .. n
    BY <1>1, <1>4
  <2> QED
    BY <1>1, <1>2, <1>4, <2>1 DEF Inside
<1> QED
  BY <1>3, <1>4

(* Marks on the top frame that leave the frames' profiles and resolve at     *)
(* most the top one; the profile stays, or the top frame is resolved.        *)
LEMMA MarkSettles ==
  ASSUME stack \in Seq(ProfileFrame), NEW frames, NEW active, Len(frames) = Len(stack),
         \A i \in 1 .. Len(stack) : /\ frames[i].profiles = stack[i].profiles
                                    /\ frames[i].unresolved => stack[i].unresolved,
         active = activeProfiles \/ stack = <<>> \/ ~ frames[Len(stack)].unresolved,
         FramesSettled(activeProfiles, stack)
  PROVE  FramesSettled(active, frames)
<1>0. Len(stack) \in Nat
  OBVIOUS
<1> SUFFICES ASSUME NEW i \in 2 .. Len(stack), frames[i].unresolved
             PROVE  Inside(active, frames, i) = frames[i].profiles
  BY DEF FramesSettled
<1>1. /\ i \in 1 .. Len(stack) /\ frames[i].profiles = stack[i].profiles
      /\ stack[i].unresolved /\ stack # <<>>
  BY <1>0
<1>2. Inside(activeProfiles, stack, i) = stack[i].profiles
  BY <1>1 DEF FramesSettled
<1>3. CASE i = Len(stack)
  BY <1>1, <1>2, <1>3 DEF Inside
<1>4. CASE i # Len(stack)
  <2>1. i + 1 \in 1 .. Len(stack)
    BY <1>0, <1>4
  <2> QED
    BY <1>1, <1>2, <1>4, <2>1 DEF Inside
<1> QED
  BY <1>3, <1>4

(* The marks of ResolveTop and MarkTop. *)
LEMMA TopMarks ==
  ASSUME stack \in Seq(ProfileFrame)
  PROVE  /\ \A i \in 1 .. Len(stack) : ResolveTop[i].unresolved => stack[i].unresolved
         /\ stack # <<>> => ~ ResolveTop[Len(stack)].unresolved
         /\ \A i \in 1 .. Len(stack) : MarkTop[i].unresolved => stack[i].unresolved
<1>1. CASE stack = <<>>
  BY <1>1 DEF ResolveTop, MarkTop
<1>2. CASE stack # <<>>
  <2> DEFINE n == Len(stack)
             resolved == [stack[n] EXCEPT !.unresolved = FALSE]
             marked == [stack[n] EXCEPT !.nestedSeen = TRUE]
  <2>1. n \in 1 .. Len(stack) /\ stack[n] \in ProfileFrame
    BY <1>2
  <2>2. resolved.unresolved = FALSE /\ marked.unresolved = stack[n].unresolved
    BY <2>1 DEF ProfileFrame
  <2>3. ResolveTop = [stack EXCEPT ![n] = resolved] /\ MarkTop = [stack EXCEPT ![n] = marked]
    BY <1>2 DEF ResolveTop, MarkTop
  <2>4. Len(stack) = n
    OBVIOUS
  <2> HIDE DEF n, resolved, marked
  <2>5. ResolveTop[n] = resolved /\ MarkTop[n] = marked
    BY <2>1, <2>3
  <2>6. \A i \in 1 .. Len(stack) : i # n => ResolveTop[i] = stack[i] /\ MarkTop[i] = stack[i]
    BY <2>3
  <2> QED
    BY <2>1, <2>2, <2>4, <2>5, <2>6
<1> QED
  BY <1>1, <1>2

(* Whatever a read does to the stack leaves it settled. *)
LEMMA OutputSettles ==
  ASSUME RuntimeInv, UnresolvedFrameIsNoOp, StackEffect
  PROVE  UnresolvedFrameIsNoOp'
<1>0. /\ stack \in Seq(ProfileFrame) /\ Len(stack) <= StackLimit /\ Len(stack) \in Nat
      /\ activeProfiles \in SUBSET Profiles
      /\ (pendingRemote # None => pendingRemote \in RemoteAttempt)
      /\ FramesSettled(activeProfiles, stack)
  BY DEF RuntimeInv, RuntimeTypeOK, UnresolvedFrameIsNoOp
<1> SUFFICES FramesSettled(activeProfiles', stack')
  BY DEF UnresolvedFrameIsNoOp
<1>a. ASSUME NEW active PROVE FramesSettled(active, <<>>)
  BY DEF FramesSettled
<1>1. CASE stack' = stack /\ (activeProfiles' = activeProfiles \/ stack = <<>>)
  BY <1>0, <1>a, <1>1
<1>2. CASE stack # <<>> /\ stack' = Front(stack) /\ activeProfiles' = Last(stack).profiles
  <2> DEFINE n == Len(stack) - 1
  <2>1. /\ Len(stack) \in Nat \ {0} /\ Len(Front(stack)) = Len(stack) - 1
        /\ \A i \in 1 .. Len(stack) - 1 : Front(stack)[i] = stack[i]
    BY <1>0, <1>2, FrontFacts
  <2>2. n \in Nat /\ n < Len(stack) /\ Len(stack') = n /\ Last(stack) = stack[n + 1]
    BY <1>2, <2>1 DEF Last
  <2>3. \A i \in 1 .. n : stack'[i] = stack[i]
    BY <1>2, <2>1
  <2> HIDE DEF n
  <2>4. FramesSettled(stack[n + 1].profiles, stack')
    BY <1>0, <2>2, <2>3, PrefixSettles
  <2> QED
    BY <1>2, <2>2, <2>4
<1>3. CASE pendingRemote # None /\ stack' = PushFrame(stack, activeProfiles, pendingRemote, FALSE)
  <2>0. pendingRemote \in RemoteAttempt /\ FALSE \in BOOLEAN
    BY <1>0, <1>3
  <2>1. Pushed(stack', stack, activeProfiles, FALSE)
    BY <1>0, <1>3, <2>0, PushFrameShape
  <2> QED
    BY <1>0, <2>1, PushSettles
<1>4. CASE stack = <<>> /\ stack' = PushFrame(<<>>, activeProfiles, Generic, FALSE)
  <2>1. Generic \in RemoteAttempt /\ FALSE \in BOOLEAN
    BY DEF Generic, RemoteAttempt, Policies
  <2>2. Pushed(stack', stack, activeProfiles, FALSE)
    BY <1>0, <1>4, <2>1, PushFrameShape
  <2> QED
    BY <1>0, <2>2, PushSettles
<1>5. CASE FramesNaming(activeProfiles') # {} /\ stack' = FramesUnder(activeProfiles')
  <2> DEFINE n == Len(FramesUnder(activeProfiles'))
  <2>1. /\ FramesUnder(activeProfiles') \in Seq(ProfileFrame) /\ n < Len(stack)
        /\ \A i \in 1 .. n : FramesUnder(activeProfiles')[i] = stack[i]
        /\ stack[n + 1].profiles = activeProfiles'
    BY <1>0, <1>5, FramesUnderFacts
  <2>2. n \in Nat /\ Len(stack') = n
    BY <1>5, <2>1
  <2> HIDE DEF n
  <2>3. FramesSettled(stack[n + 1].profiles, stack')
    BY <1>0, <1>5, <2>1, <2>2, PrefixSettles
  <2> QED
    BY <2>1, <2>3
<1>6. CASE stack' = <<>>
  BY <1>6, <1>a
<1>7. CASE stack' = ResolveTop
  <2>1. /\ Len(stack') = Len(stack) /\ (stack # <<>> => ~ stack'[Len(stack)].unresolved)
        /\ \A i \in 1 .. Len(stack) : /\ stack'[i].profiles = stack[i].profiles
                                      /\ stack'[i].unresolved => stack[i].unresolved
    BY <1>0, <1>7, ResolveTopFacts, TopMarks
  <2> QED
    BY <1>0, <2>1, MarkSettles
<1> QED
  BY <1>1, <1>2, <1>3, <1>4, <1>5, <1>6, <1>7 DEF StackEffect

(* A pass empties the window of complete lines; without one, none arrived. *)
LEMMA OutputExamines ==
  ASSUME RuntimeInv, NoLineExaminedTwice, NEW r \in Reads, ObserveOutput(r)
  PROVE  NoLineExaminedTwice'
<1> DEFINE w == WindowWith(r)
<1>1. /\ w \in Windows
      /\ r.lines = {} => w.lines = {}
  <2>1. w \in Windows
    BY WindowWithFacts DEF RuntimeInv, RuntimeTypeOK
  <2>2. window \in Windows
    BY DEF RuntimeInv, RuntimeTypeOK
  <2>3. ASSUME r.lines = {} PROVE w.lines = {}
    BY <2>2, <2>3 DEF WindowWith, Windows, NoLineExaminedTwice
  <2> QED
    BY <2>1, <2>3
<1>2. PopOnClose(w) \/ EndAttempt(w) \/ WaitForMore(w, r) \/ Detect(w)
  BY DEF ObserveOutput
<1> HIDE DEF w
<1>3. ClearOutputWindow \/ RetainUnterminatedTail(w) => window'.lines = {}
  <2>1. ASSUME ClearOutputWindow PROVE window'.lines = {}
    BY <2>1 DEF ClearOutputWindow, EmptyWindow
  <2>2. ASSUME RetainUnterminatedTail(w) PROVE window'.lines = {}
    BY <1>1, <2>2 DEF RetainUnterminatedTail, Windows
  <2> QED
    BY <2>1, <2>2
<1>4. CASE WaitForMore(w, r)
  BY <1>1, <1>4 DEF WaitForMore, ShouldDetectProfiles, NoLineExaminedTwice
<1>5. CASE PopOnClose(w) \/ EndAttempt(w) \/ Detect(w)
  <2>1. ClearOutputWindow \/ RetainUnterminatedTail(w)
    BY <1>5
    DEF PopOnClose, EndAttempt, Detect, DetectNothing, DetectActive, LearnBaseline,
        SwitchOnStrongSignal, SwitchOnPrompt, NotePrompt, DismissDetection
  <2> QED
    BY <1>3, <2>1 DEF NoLineExaminedTwice
<1> QED
  BY <1>2, <1>4, <1>5

(* Every step leaves frames and lines settled. *)
LEMMA NextSettles ==
  ASSUME RuntimeInv, FramesAndLinesSettled, [RuntimeNext]_runtimeVars
  PROVE  FramesAndLinesSettled'
<1> USE DEF FramesAndLinesSettled, UnresolvedFrameIsNoOp, RollbackSettled, NoLineExaminedTwice
<1>0. stack \in Seq(ProfileFrame) /\ Len(stack) <= StackLimit
  BY DEF RuntimeInv, RuntimeTypeOK
<1>1. CASE ObserveInput
  <2>1. CASE ArmRemoteAttempt
    <3>1. /\ stack' = MarkTop /\ activeProfiles' = activeProfiles
          /\ rollback' = None /\ window' = EmptyWindow
      BY <2>1 DEF ArmRemoteAttempt, ClearOutputWindow
    <3>2. /\ Len(stack') = Len(stack)
          /\ \A i \in 1 .. Len(stack) : /\ stack'[i].profiles = stack[i].profiles
                                        /\ stack'[i].unresolved => stack[i].unresolved
      BY <1>0, <3>1, MarkTopFacts, TopMarks
    <3>3. FramesSettled(activeProfiles', stack')
      BY <1>0, <3>1, <3>2, MarkSettles
    <3> QED
      BY <3>1, <3>3 DEF EmptyWindow
  <2>2. CASE ~ ArmRemoteAttempt
    <3>1. /\ stack' = stack /\ activeProfiles' = activeProfiles
          /\ rollback' = rollback /\ window' = window
      BY <1>1, <2>2
      DEF ObserveInput, TypeLine, InvalidateInputLine, PressCtrlC, PressCtrlU, AgePendingRemote,
          connectionVars
    <3> QED
      BY <3>1
  <2> QED
    BY <2>1, <2>2
<1>2. ASSUME NEW r \in Reads, ObserveOutput(r) PROVE FramesAndLinesSettled'
  <2>1. StackEffect
    BY <1>2, OutputStackEffect
  <2>2. UnresolvedFrameIsNoOp'
    BY <2>1, OutputSettles
  <2>3. NoLineExaminedTwice'
    BY <1>2, OutputExamines
  <2>4. rollback' = None \/ rollback' = TransitionState
    BY <1>2, RollbackTaken
  <2>5. RollbackSettled'
    BY <2>4 DEF TransitionState
  <2> QED
    BY <2>2, <2>3, <2>5
<1>3. CASE AcceptTransition
  BY <1>3 DEF AcceptTransition, connectionVars
<1>4. CASE RejectTransition
  <2>1. /\ rollback # None /\ activeProfiles' = rollback.active /\ rollback' = None
        /\ window' = EmptyWindow
    BY <1>4 DEF RejectTransition, ClearOutputWindow
  <2>2. FramesSettled(rollback.active, rollback.stack)
    BY <2>1
  <2>3. FramesSettled(rollback.active, stack')
    <3>1. CASE rollback.pending = None
      BY <1>4, <2>2, <3>1 DEF RejectTransition
    <3>2. CASE rollback.pending # None
      <4> DEFINE old == rollback.stack
                 active == rollback.active
                 attempt == rollback.pending
      <4>1. stack' = PushFrame(old, active, attempt, TRUE)
        BY <1>4, <3>2 DEF RejectTransition
      <4>2. rollback \in TransitionStates /\ Len(old) <= StackLimit
        BY <2>1 DEF RuntimeInv, RuntimeTypeOK, RollbackObeys
      <4>3. /\ old \in Seq(ProfileFrame) /\ active \in SUBSET Profiles
            /\ attempt \in RemoteAttempt /\ TRUE \in BOOLEAN
        BY <3>2, <4>2 DEF TransitionStates
      <4> HIDE DEF old, active, attempt
      <4>4. Pushed(stack', old, active, TRUE)
        BY <4>1, <4>2, <4>3, PushFrameShape
      <4>5. FramesSettled(active, old)
        BY <2>2 DEF active, old
      <4>6. FramesSettled(active, stack')
        BY <4>2, <4>3, <4>4, <4>5, PushSettles
      <4> QED
        BY <4>6 DEF active
    <3> QED
      BY <3>1, <3>2
  <2> QED
    BY <2>1, <2>3 DEF EmptyWindow
<1>5. CASE AcceptReloadGeneration
  BY <1>5 DEF AcceptReloadGeneration, ClearOutputWindow, EmptyWindow, connectionVars
<1>6. CASE UNCHANGED runtimeVars
  BY <1>6 DEF runtimeVars, connectionVars
<1> QED
  BY <1>1, <1>2, <1>3, <1>4, <1>5, <1>6 DEF RuntimeNext

(* No frame changes a profile it never took, and no line is examined twice. *)
THEOREM FramesStaySettled == RuntimeSpec => []FramesAndLinesSettled
<1>1. RuntimeInit => FramesAndLinesSettled
  BY DEF RuntimeInit, FramesAndLinesSettled, UnresolvedFrameIsNoOp, FramesSettled,
         RollbackSettled, NoLineExaminedTwice, EmptyWindow
<1>2. RuntimeInv /\ FramesAndLinesSettled /\ [RuntimeNext]_runtimeVars => FramesAndLinesSettled'
  BY NextSettles
<1> QED
  BY <1>1, <1>2, InvariantHolds, PTL DEF RuntimeSpec
-----------------------------------------------------------------------------
(* What a step may never do. *)

(* One frame per command: a read opens a frame for an attempt it takes, or   *)
(* around the local shell when none is left, and a rejection drops it.       *)
LEMMA OpensOnce ==
  ASSUME RuntimeInv, [RuntimeNext]_runtimeVars, Len(stack') > Len(stack)
  PROVE  pendingRemote' = None
<1>0. /\ stack \in Seq(ProfileFrame) /\ Len(stack) \in Nat
      /\ Len(ResolveTop) = Len(stack) /\ Len(MarkTop) = Len(stack)
  BY ResolveTopFacts, MarkTopFacts DEF RuntimeInv, RuntimeTypeOK
<1>1. CASE ObserveInput
  <2>1. stack' \in {stack, MarkTop}
    BY <1>1
    DEF ObserveInput, TypeLine, InvalidateInputLine, PressCtrlC, PressCtrlU, ArmRemoteAttempt,
        AgePendingRemote, connectionVars
  <2> QED
    BY <1>0, <2>1
<1>2. ASSUME NEW r \in Reads, ObserveOutput(r) PROVE pendingRemote' = None
  <2>1. StackEffect
    BY <1>2, OutputStackEffect
  <2>2. ASSUME stack # <<>> PROVE Len(Front(stack)) < Len(stack)
    BY <1>0, <2>2, FrontFacts
  <2>3. ASSUME FramesNaming(activeProfiles') # {}
        PROVE  Len(FramesUnder(activeProfiles')) < Len(stack)
    BY <1>0, <2>3, FramesUnderFacts
  <2>4. stack' # <<>>
    BY <1>0
  <2>5. /\ stack' # stack /\ stack' # ResolveTop
        /\ (stack # <<>> => stack' # Front(stack))
        /\ (FramesNaming(activeProfiles') # {} => stack' # FramesUnder(activeProfiles'))
    <3>1. ASSUME stack # <<>>, stack' = Front(stack) PROVE FALSE
      BY <1>0, <2>2, <3>1
    <3>2. ASSUME FramesNaming(activeProfiles') # {}, stack' = FramesUnder(activeProfiles')
          PROVE  FALSE
      <4>1. FramesUnder(activeProfiles') \in Seq(ProfileFrame)
        BY <1>0, <3>2, FramesUnderFacts
      <4> QED
        BY <1>0, <2>3, <3>2, <4>1
    <3> QED
      BY <1>0, <3>1, <3>2
  <2> QED
    BY <2>1, <2>4, <2>5, Zenon DEF StackEffect
<1>3. CASE RejectTransition
  BY <1>3 DEF RejectTransition
<1>4. CASE AcceptTransition \/ AcceptReloadGeneration \/ UNCHANGED runtimeVars
  <2>1. stack' = stack
    BY <1>4 DEF AcceptTransition, AcceptReloadGeneration, runtimeVars, connectionVars
  <2> QED
    BY <1>0, <2>1
<1> QED
  BY <1>1, <1>2, <1>3, <1>4 DEF RuntimeNext

(* The frame put on top of a stack is the attempt's own. *)
LEMMA PushOpensFor ==
  ASSUME NEW frames \in Seq(ProfileFrame), Len(frames) <= StackLimit,
         NEW profiles \in SUBSET Profiles, NEW attempt \in RemoteAttempt,
         NEW unresolved \in BOOLEAN
  PROVE  OpensFor(attempt, frames, PushFrame(frames, profiles, attempt, unresolved))
<1> DEFINE new == NewFrame(profiles, attempt, unresolved)
           kept == IF Len(frames) >= StackLimit THEN RemoveAt(frames, 2) ELSE frames
           pushed == Append(kept, new)
<1>1. /\ new \in ProfileFrame
      /\ new.closePolicy = attempt.policy /\ new.target = attempt.target
  BY DEF NewFrame, ProfileFrame, RemoteAttempt
<1>2. PushFrame(frames, profiles, attempt, unresolved) = pushed
  BY DEF PushFrame
<1>3. Len(pushed) = IF Len(frames) < StackLimit THEN Len(frames) + 1 ELSE StackLimit
  BY <1>2, PushFrameShape DEF Pushed
<1>4. kept \in Seq(ProfileFrame)
  <2>1. StackLimit \in Nat /\ StackLimit >= 2 /\ Len(frames) \in Nat
    BY RuntimeAssumptions DEF LimitsAssumption
  <2> QED
    BY <2>1, RemoveSecondFacts
<1>5. Last(pushed) = new
  <2> HIDE DEF kept, new
  <2>1. Len(pushed) = Len(kept) + 1 /\ pushed[Len(kept) + 1] = new
    BY <1>1, <1>4, AppendFacts
  <2> QED
    BY <2>1 DEF Last
<1> QED
  BY <1>1, <1>2, <1>3, <1>5 DEF OpensFor

(* With a command in flight, a read that ends nothing opens the command's    *)
(* frame, or shows neither another device nor the active set.                *)
LEMMA PendingOpensOrWaits ==
  ASSUME RuntimeInv, pendingRemote # None, NEW r \in Reads, Quiet(WindowWith(r)),
         ObserveOutput(r)
  PROVE  \/ pendingRemote' = None /\ OpensFor(pendingRemote, stack, stack')
         \/ /\ pendingRemote' = pendingRemote /\ stack' = stack
            /\ activeProfiles' = activeProfiles /\ ~ ShowsActive(WindowWith(r))
<1> DEFINE w == WindowWith(r)
           opened == pendingRemote' = None /\ OpensFor(pendingRemote, stack, stack')
<1>1. Detect(w)
  BY DEF ObserveOutput, PopOnClose, EndAttempt, WaitForMore, Quiet, ShouldDetectProfiles
<1> HIDE DEF w
<1>2. ~ LearnBaseline(w)
  BY DEF LearnBaseline, ShouldLearnBaseline, RuntimeInv, CommandLocksBaseline
<1>3. ASSUME NEW profiles, NEW open, NEW evidence,
             SwitchTo(profiles, pendingRemote, open, evidence), TakePending
      PROVE  opened
  <2>1. /\ stack \in Seq(ProfileFrame) /\ Len(stack) <= StackLimit
        /\ activeProfiles \in SUBSET Profiles /\ pendingRemote \in RemoteAttempt
        /\ FALSE \in BOOLEAN
    BY DEF RuntimeInv, RuntimeTypeOK
  <2>2. stack' = PushFrame(stack, activeProfiles, pendingRemote, FALSE)
    BY <1>3 DEF SwitchTo, StackAfterSwitch
  <2> QED
    BY <1>3, <2>1, <2>2, PushOpensFor DEF TakePending
<1>4. CASE DetectNothing(w) \/ NotePrompt(w) \/ DismissDetection(w)
  BY <1>4
  DEF DetectNothing, NotePrompt, DismissDetection, NothingSwitched, DetectsOther, ShowsActive, w
<1>5. CASE DetectActive(w)
  <2>1. SwitchTo(activeProfiles, pendingRemote, FALSE, "Weak") /\ TakePending
    BY <1>5 DEF DetectActive
  <2> QED
    BY <1>3, <2>1
<1>6. CASE SwitchOnStrongSignal(w)
  <2> DEFINE p == ByPriority(StrongCandidates(w))
             evidence == IF WaitingAtPrompt(w, p) THEN "BannerAndPrompt" ELSE "Banner"
  <2>1. SwitchTo({p}, pendingRemote, AtLocalBaseline, evidence) /\ TakePending
    BY <1>6 DEF SwitchOnStrongSignal
  <2> HIDE DEF p, evidence
  <2> QED
    BY <1>3, <2>1
<1>7. CASE SwitchOnPrompt(w)
  <2> DEFINE p == ByPriority(PromptCandidates(w))
  <2>1. SwitchTo({p}, pendingRemote, AtLocalBaseline, "Weak") /\ TakePending
    BY <1>7 DEF SwitchOnPrompt
  <2> HIDE DEF p
  <2> QED
    BY <1>3, <2>1
<1> QED
  BY <1>1, <1>2, <1>4, <1>5, <1>6, <1>7 DEF Detect

(* A refused proposal of a command leaves the frame of its connection. *)
LEMMA RejectionOpens ==
  ASSUME RuntimeInv, [RuntimeNext]_runtimeVars, rollback # None, rollback.pending # None,
         activeProfiles' # activeProfiles
  PROVE  OpensFor(rollback.pending, rollback.stack, stack')
<1>1. RejectTransition
  <2>1. ~ ObserveInput
    BY DEF ObserveInput, TypeLine, InvalidateInputLine, PressCtrlC, PressCtrlU,
           ArmRemoteAttempt, AgePendingRemote
  <2>2. \A r \in Reads : ~ ObserveOutput(r)
    BY DEF ObserveOutput
  <2>3. ~ (AcceptTransition \/ AcceptReloadGeneration \/ UNCHANGED runtimeVars)
    BY DEF AcceptTransition, AcceptReloadGeneration, runtimeVars, connectionVars
  <2> QED
    BY <2>1, <2>2, <2>3 DEF RuntimeNext
<1> DEFINE old == rollback.stack
           active == rollback.active
           attempt == rollback.pending
<1>2. /\ old \in Seq(ProfileFrame) /\ Len(old) <= StackLimit
      /\ active \in SUBSET Profiles /\ attempt \in RemoteAttempt /\ TRUE \in BOOLEAN
  BY DEF RuntimeInv, RuntimeTypeOK, RollbackObeys, TransitionStates
<1>3. stack' = PushFrame(old, active, attempt, TRUE)
  BY <1>1 DEF RejectTransition
<1> HIDE DEF old, active, attempt
<1>4. OpensFor(attempt, old, stack')
  BY <1>2, <1>3, PushOpensFor
<1> QED
  BY <1>4 DEF old, attempt

(* One typed command opens one frame: the reads that follow open it or wait, *)
(* and a refused profile set does not undo it.                               *)
LEMMA CommandOpensOneFrame ==
  ASSUME RuntimeInv, [RuntimeNext]_runtimeVars
  PROVE  OneFramePerCommand
<1>1. Len(stack') > Len(stack) => pendingRemote' = None
  BY OpensOnce
<1>2. ASSUME rollback = None, pendingRemote # None,
             ~ (pendingRemote' = None /\ OpensFor(pendingRemote, stack, stack')),
             NEW r \in Reads, Quiet(WindowWith(r)), ObserveOutput(r)
      PROVE  /\ pendingRemote' = pendingRemote /\ stack' = stack
             /\ activeProfiles' = activeProfiles /\ ~ ShowsActive(WindowWith(r))
  BY <1>2, PendingOpensOrWaits
<1>3. (rollback # None /\ rollback.pending # None /\ activeProfiles' # activeProfiles) =>
         OpensFor(rollback.pending, rollback.stack, stack')
  BY RejectionOpens
<1> QED
  BY <1>1, <1>2, <1>3 DEF OneFramePerCommand

(* The lines typed since a command count its grace, and nothing else does. *)
LEMMA GraceIsCounted ==
  ASSUME RuntimeInv, [RuntimeNext]_runtimeVars, pendingRemote # None, pendingRemote' = None,
         linesTyped' # linesTyped
  PROVE  linesTyped' > LineGrace
<1>1. CASE ObserveInput
  <2>1. AgePendingRemote
    BY <1>1
    DEF ObserveInput, TypeLine, InvalidateInputLine, PressCtrlC, PressCtrlU, ArmRemoteAttempt
  <2>2. pendingLines' = pendingLines + 1 /\ linesTyped' = linesTyped + 1
    BY <2>1 DEF AgePendingRemote
  <2>3. pendingLines = linesTyped
    BY DEF RuntimeInv, AttemptExpires
  <2> QED
    BY <2>1, <2>2, <2>3 DEF AgePendingRemote, Expired
<1>2. CASE ~ ObserveInput
  BY <1>2
  DEF RuntimeNext, ObserveOutput, AcceptTransition, RejectTransition, AcceptReloadGeneration,
      runtimeVars
<1> QED
  BY <1>1, <1>2

(* No command is given up before LineGrace lines have followed it. *)
THEOREM AttemptsHaveTheirGrace == RuntimeSpec => AttemptHasItsGrace
<1>1. RuntimeInv /\ [RuntimeNext]_runtimeVars
      => [ (pendingRemote # None /\ pendingRemote' = None /\ linesTyped' # linesTyped)
           => linesTyped' > LineGrace ]_runtimeVars
  BY GraceIsCounted
<1> QED
  BY <1>1, InvariantHolds, PTL DEF RuntimeSpec, AttemptHasItsGrace

(* What a read with one teardown line in its window ends. *)
EndsNamed(w, m) ==
  /\ NamesPending(m) => stack' = stack /\ pendingRemote' = None
  /\ (NamesTop(m) /\ ~ NamesPending(m)) => stack' = Front(stack)
  /\ NamesUnderTop(m) => stack' = stack \/ Detected(w) # {}

LEMMA CloseEndsNamed ==
  ASSUME NEW r \in Reads, NEW m, CloseMarkers(WindowWith(r)) = {m}, ObserveOutput(r)
  PROVE  EndsNamed(WindowWith(r), m)
<1> DEFINE w == WindowWith(r)
<1>1. /\ CloseMarkers(w) = {m}
      /\ PopOnClose(w) \/ EndAttempt(w) \/ (Quiet(w) /\ (WaitForMore(w, r) \/ Detect(w)))
  BY DEF ObserveOutput, WaitForMore
<1> HIDE DEF w
<1>2. ASSUME NamesPending(m) PROVE stack' = stack /\ pendingRemote' = None
  <2>1. MatchesPending(m) /\ pendingRemote.target # None
    BY <1>2 DEF NamesPending, IsNamedBy, MatchesPending, Matches
  <2>2. ~ ClosesTop(w) /\ ClosesPending(w)
    BY <1>1, <2>1 DEF ClosesTop, NamesTopOnly, ClosesPending
  <2>3. EndAttempt(w)
    BY <1>1, <2>2 DEF PopOnClose, Quiet
  <2> QED
    BY <2>3 DEF EndAttempt, NothingSwitched
<1>3. ASSUME NamesTop(m), ~ NamesPending(m) PROVE stack' = Front(stack)
  <2>1. MatchesTop(m) /\ m.target # None /\ stack # <<>>
    BY <1>3 DEF NamesTop, IsNamedBy, MatchesTop, Matches
  <2>2. ~ (MatchesPending(m) /\ pendingRemote.target # None)
    BY <1>3, <2>1 DEF NamesPending, IsNamedBy, MatchesPending, Matches
  <2>3. ClosesTop(w)
    BY <1>1, <2>1, <2>2 DEF ClosesTop, NamesTopOnly
  <2>4. PopOnClose(w)
    BY <1>1, <2>3 DEF EndAttempt, Quiet
  <2> QED
    BY <2>1, <2>4 DEF PopOnClose, PopProfile
<1>4. ASSUME NamesUnderTop(m), Detected(w) = {} PROVE stack' = stack
  <2>1. ~ MatchesTop(m)
    BY <1>4 DEF NamesUnderTop, MatchesTop, Matches
  <2>2. ~ UntrackedSshClose(m)
    BY <1>4 DEF NamesUnderTop, UntrackedSshClose
  <2>3. ~ ClosesTop(w) /\ ~ ClosesAliasedTop(w)
    BY <1>1, <2>1, <2>2 DEF ClosesTop, NamesTopOnly, ClosesAliasedTop
  <2>4. EndAttempt(w) \/ WaitForMore(w, r) \/ Detect(w)
    BY <1>1, <2>3 DEF PopOnClose
  <2>5. Detect(w) => DetectNothing(w)
    BY <1>4
    DEF Detect, DetectActive, DetectsOther, LearnBaseline, SwitchOnStrongSignal,
        SwitchOnPrompt, NotePrompt, DismissDetection
  <2> QED
    BY <2>4, <2>5 DEF EndAttempt, WaitForMore, DetectNothing, NothingSwitched
<1> QED
  BY <1>2, <1>3, <1>4 DEF EndsNamed, w

(* A command that comes up has one frame, and a teardown line ends the       *)
(* connection it names.                                                      *)
THEOREM FramesFollow == RuntimeSpec => FramesFollowConnections
<1>1. RuntimeInv /\ [RuntimeNext]_runtimeVars
      => [ OneFramePerCommand /\ CloseEndsWhatItNames ]_runtimeVars
  <2>1. CloseEndsWhatItNames
    BY CloseEndsNamed DEF EndsNamed, CloseEndsWhatItNames
  <2> QED
    BY <2>1, CommandOpensOneFrame
<1> QED
  BY <1>1, InvariantHolds, PTL DEF RuntimeSpec, FramesFollowConnections

(* An identified device is left by the end of its connection alone. *)
LEMMA IdentifiedStays ==
  ASSUME RuntimeInv, [RuntimeNext]_runtimeVars, rollback = None, IdentifiedRemote,
         activeProfiles' # activeProfiles
  PROVE  stack # <<>> /\ stack' = Front(stack)
<1>0. /\ activeProfiles \in SUBSET Profiles /\ activeProfiles # {}
      /\ ~ HasRemoteHint /\ pendingRemote = None
      /\ ByPriority(activeProfiles) \notin LocalProfiles
  BY DEF RuntimeInv, RuntimeTypeOK, IdentifiedRemote, HasRemoteHint, ActiveSpecific
<1>1. ~ AtLocalBaseline
  BY <1>0, ByPriorityMember DEF AtLocalBaseline, IsLocal
<1>2. CASE ObserveInput
  BY <1>2
  DEF ObserveInput, TypeLine, InvalidateInputLine, PressCtrlC, PressCtrlU, ArmRemoteAttempt,
      AgePendingRemote, connectionVars
<1>3. ASSUME NEW r \in Reads, ObserveOutput(r) PROVE stack # <<>> /\ stack' = Front(stack)
  <2> DEFINE w == WindowWith(r)
  <2>1. PopOnClose(w) \/ EndAttempt(w) \/ WaitForMore(w, r) \/ Detect(w)
    BY <1>3 DEF ObserveOutput
  <2> HIDE DEF w
  <2>2. CASE PopOnClose(w)
    <3>1. PopProfile /\ (ClosesTop(w) \/ ClosesAliasedTop(w))
      BY <2>2 DEF PopOnClose
    <3>2. stack # <<>>
      BY <3>1 DEF ClosesTop, NamesTopOnly, MatchesTop, ClosesAliasedTop
    <3> QED
      BY <3>1, <3>2 DEF PopProfile
  <2>3. CASE EndAttempt(w) \/ WaitForMore(w, r)
    BY <2>3 DEF EndAttempt, WaitForMore, NothingSwitched
  <2>4. CASE Detect(w)
    <3>1. ~ TakesStrong(w) /\ ~ TakesPrompt(w) /\ ~ ShouldLearnBaseline(w)
      BY <1>0, <1>1 DEF TakesStrong, TakesPrompt, ShouldLearnBaseline
    <3> QED
      BY <1>0, <2>4, <3>1
      DEF Detect, DetectNothing, DetectActive, LearnBaseline, SwitchOnStrongSignal,
          SwitchOnPrompt, NotePrompt, DismissDetection, NothingSwitched
  <2> QED
    BY <2>1, <2>2, <2>3, <2>4
<1>4. CASE RejectTransition \/ AcceptTransition
  BY <1>4 DEF RejectTransition, AcceptTransition
<1>5. CASE AcceptReloadGeneration \/ UNCHANGED runtimeVars
  BY <1>5 DEF AcceptReloadGeneration, runtimeVars, connectionVars
<1> QED
  BY <1>2, <1>3, <1>4, <1>5 DEF RuntimeNext

(* What a shorter stack must be. *)
Unwound ==
  \/ /\ stack' = SubSeq(stack, 1, Len(stack'))
     /\ activeProfiles' = stack[Len(stack') + 1].profiles
  \/ stack' = <<>> /\ activeProfiles' = baselineProfiles

LEMMA UnwindsToOpener ==
  ASSUME RuntimeInv, [RuntimeNext]_runtimeVars, Len(stack') < Len(stack)
  PROVE  Unwound
<1>0. /\ stack \in Seq(ProfileFrame) /\ Len(stack) <= StackLimit /\ Len(stack) \in Nat
      /\ activeProfiles \in SUBSET Profiles /\ StackLimit \in Nat
      /\ (pendingRemote # None => pendingRemote \in RemoteAttempt)
      /\ Len(ResolveTop) = Len(stack) /\ Len(MarkTop) = Len(stack)
  BY ResolveTopFacts, MarkTopFacts, RuntimeAssumptions
  DEF RuntimeInv, RuntimeTypeOK, LimitsAssumption
<1>a. ASSUME NEW attempt \in RemoteAttempt,
             stack' = PushFrame(stack, activeProfiles, attempt, FALSE)
      PROVE  FALSE
  <2>1. FALSE \in BOOLEAN
    OBVIOUS
  <2>2. Pushed(stack', stack, activeProfiles, FALSE)
    BY <1>0, <1>a, <2>1, PushFrameShape
  <2>3. Len(stack') = IF Len(stack) < StackLimit THEN Len(stack) + 1 ELSE StackLimit
    BY <2>2 DEF Pushed
  <2> QED
    BY <1>0, <2>3
<1>1. CASE ObserveInput
  <2>1. stack' \in {stack, MarkTop}
    BY <1>1
    DEF ObserveInput, TypeLine, InvalidateInputLine, PressCtrlC, PressCtrlU, ArmRemoteAttempt,
        AgePendingRemote, connectionVars
  <2> QED
    BY <1>0, <2>1
<1>2. ASSUME NEW r \in Reads, ObserveOutput(r) PROVE Unwound
  <2>1. StackEffect
    BY <1>2, OutputStackEffect
  <2>2. CASE stack' = stack \/ stack' = ResolveTop
    BY <1>0, <2>2
  <2>3. CASE stack # <<>> /\ stack' = Front(stack) /\ activeProfiles' = Last(stack).profiles
    <3>1. Len(Front(stack)) = Len(stack) - 1
      BY <1>0, <2>3, FrontFacts
    <3>2. stack' = SubSeq(stack, 1, Len(stack')) /\ Last(stack) = stack[Len(stack') + 1]
      BY <1>0, <2>3, <3>1 DEF Front, Last
    <3> QED
      BY <2>3, <3>2 DEF Unwound
  <2>4. CASE pendingRemote # None /\ stack' = PushFrame(stack, activeProfiles, pendingRemote, FALSE)
    BY <1>0, <1>a, <2>4
  <2>5. CASE stack = <<>> /\ stack' = PushFrame(<<>>, activeProfiles, Generic, FALSE)
    <3>1. Generic \in RemoteAttempt
      BY DEF Generic, RemoteAttempt, Policies
    <3> QED
      BY <1>a, <2>5, <3>1
  <2>6. CASE FramesNaming(activeProfiles') # {} /\ stack' = FramesUnder(activeProfiles')
    <3>1. /\ stack' = SubSeq(stack, 1, Len(stack'))
          /\ stack[Len(stack') + 1].profiles = activeProfiles'
      BY <1>0, <2>6, FramesUnderFacts
    <3> QED
      BY <3>1 DEF Unwound
  <2>7. CASE stack' = <<>> /\ activeProfiles' = baselineProfiles
    BY <2>7 DEF Unwound
  <2> QED
    BY <2>1, <2>2, <2>3, <2>4, <2>5, <2>6, <2>7 DEF StackEffect
<1>3. CASE RejectTransition
  <2>1. /\ rollback \in TransitionStates /\ rollback # None
        /\ Len(rollback.stack) <= StackLimit /\ activeProfiles' = rollback.active
    BY <1>3 DEF RejectTransition, RuntimeInv, RuntimeTypeOK, RollbackObeys
  <2>2. /\ rollback.stack \in Seq(ProfileFrame) /\ rollback.active \in SUBSET Profiles
        /\ (rollback.pending # None => rollback.pending \in RemoteAttempt)
        /\ Len(rollback.stack) \in Nat
    BY <2>1 DEF TransitionStates
  <2>3. /\ (rollback.pending = None => stack' = rollback.stack)
        /\ (rollback.pending # None =>
              Len(stack') = IF Len(rollback.stack) < StackLimit THEN Len(rollback.stack) + 1
                            ELSE StackLimit)
    <3>1. ASSUME rollback.pending = None PROVE stack' = rollback.stack
      BY <1>3, <3>1 DEF RejectTransition
    <3>2. ASSUME rollback.pending # None
          PROVE  Len(stack') = IF Len(rollback.stack) < StackLimit THEN Len(rollback.stack) + 1
                               ELSE StackLimit
      <4> DEFINE old == rollback.stack
                 active == rollback.active
                 attempt == rollback.pending
      <4>1. stack' = PushFrame(old, active, attempt, TRUE)
        BY <1>3, <3>2 DEF RejectTransition
      <4>2. /\ old \in Seq(ProfileFrame) /\ Len(old) <= StackLimit /\ active \in SUBSET Profiles
            /\ attempt \in RemoteAttempt /\ TRUE \in BOOLEAN
        BY <2>1, <2>2, <3>2
      <4> HIDE DEF old, active, attempt
      <4>3. Pushed(stack', old, active, TRUE)
        BY <4>1, <4>2, PushFrameShape
      <4>4. Len(stack') = IF Len(old) < StackLimit THEN Len(old) + 1 ELSE StackLimit
        BY <4>3 DEF Pushed
      <4> QED
        BY <3>2, <4>4 DEF old
    <3> QED
      BY <3>1, <3>2
  <2>4. \/ Len(stack) <= Len(rollback.stack)
        \/ rollback.pending # None /\ Len(stack) = Len(rollback.stack) + 1
        \/ rollback.stack = <<>> /\ Len(stack) = 1 /\ stack[1].profiles = rollback.active
    BY <2>1 DEF RuntimeInv, RejectionClosesOwnFrame
  <2>5. CASE Len(stack) <= Len(rollback.stack)
    BY <1>0, <2>1, <2>2, <2>3, <2>5
  <2>6. CASE rollback.pending # None /\ Len(stack) = Len(rollback.stack) + 1
    BY <1>0, <2>2, <2>3, <2>6
  <2>7. CASE rollback.stack = <<>> /\ Len(stack) = 1 /\ stack[1].profiles = rollback.active
    <3>1. CASE rollback.pending = None
      <4>1. stack' = <<>> /\ Len(stack') = 0 /\ activeProfiles' = stack[1].profiles
        BY <2>1, <2>3, <2>7, <3>1
      <4>2. SubSeq(stack, 1, 0) = <<>> /\ 0 + 1 = 1
        BY <1>0
      <4>3. /\ stack' = SubSeq(stack, 1, Len(stack'))
            /\ activeProfiles' = stack[Len(stack') + 1].profiles
        BY <4>1, <4>2
      <4> QED
        BY <4>3 DEF Unwound
    <3>2. CASE rollback.pending # None
      <4>1. Len(rollback.stack) = 0 /\ StackLimit >= 2
        BY <2>7, RuntimeAssumptions DEF LimitsAssumption
      <4>2. Len(stack') = 1
        BY <1>0, <2>3, <3>2, <4>1
      <4> QED
        BY <2>7, <4>2
    <3> QED
      BY <3>1, <3>2
  <2> QED
    BY <2>4, <2>5, <2>6, <2>7
<1>4. CASE AcceptTransition \/ AcceptReloadGeneration \/ UNCHANGED runtimeVars
  <2>1. stack' = stack
    BY <1>4 DEF AcceptTransition, AcceptReloadGeneration, runtimeVars, connectionVars
  <2> QED
    BY <1>0, <2>1
<1> QED
  BY <1>1, <1>2, <1>3, <1>4 DEF RuntimeNext

(* Banner and prompt lock the profile until another command is typed, and    *)
(* the end of connections restores what was active when the outermost of     *)
(* them was opened.                                                          *)
THEOREM ProfilesFollow == RuntimeSpec => ProfilesFollowConnections
<1>1. RuntimeInv /\ [RuntimeNext]_runtimeVars
      => [ IdentifiedDeviceKeepsProfile /\ UnwindingRestoresOpener ]_runtimeVars
  <2> SUFFICES ASSUME RuntimeInv, [RuntimeNext]_runtimeVars
               PROVE  IdentifiedDeviceKeepsProfile /\ UnwindingRestoresOpener
    OBVIOUS
  <2>1. IdentifiedDeviceKeepsProfile
    BY IdentifiedStays DEF IdentifiedDeviceKeepsProfile
  <2>2. UnwindingRestoresOpener
    BY UnwindsToOpener DEF Unwound, UnwindingRestoresOpener
  <2> QED
    BY <2>1, <2>2
<1> QED
  BY <1>1, InvariantHolds, PTL DEF RuntimeSpec, ProfilesFollowConnections

-----------------------------------------------------------------------------
(* Sequences that list a set once. *)

Lists(s, T) == s \in Seq(SUBSET Profiles) /\ IsInjective(s) /\ ToSet(s) = T

(* Removing one frame: those below it stay, those above it move down. *)
LEMMA RemoveAtFacts ==
  ASSUME NEW S, NEW s \in Seq(S), NEW k \in 1 .. Len(s)
  PROVE  /\ RemoveAt(s, k) \in Seq(S)
         /\ Len(RemoveAt(s, k)) = Len(s) - 1
         /\ \A i \in 1 .. Len(s) - 1 :
              RemoveAt(s, k)[i] = IF i < k THEN s[i] ELSE s[i + 1]
<1> DEFINE n == Len(s)
           a == SubSeq(s, 1, k - 1)
           b == SubSeq(s, k + 1, n)
<1>1. /\ n \in Nat /\ n = Len(s) /\ k \in Nat /\ k >= 1 /\ k <= n
      /\ k - 1 \in Nat /\ k - 1 <= n /\ k + 1 \in Nat /\ k + 1 > 0 /\ k + 1 <= n + 1
  OBVIOUS
<1>2. RemoveAt(s, k) = a \o b
  BY DEF RemoveAt
<1> HIDE DEF n
<1>3. /\ a \in Seq(S) /\ Len(a) = k - 1
      /\ \A i \in 1 .. k - 1 : a[i] = s[i]
  BY <1>1, PrefixFacts
<1>4. b \in Seq(S) /\ Len(b) = n - k
  BY <1>1, SliceFacts
<1>5. \A i \in 1 .. n - (k + 1) + 1 : b[i] = s[k + 1 + i - 1]
  BY <1>1, SliceFacts
<1> HIDE DEF a, b
<1>6. /\ a \o b \in Seq(S) /\ Len(a \o b) = Len(a) + Len(b)
      /\ \A i \in 1 .. Len(a) : (a \o b)[i] = a[i]
      /\ \A i \in 1 .. Len(b) : (a \o b)[Len(a) + i] = b[i]
  <2>1. a \in Seq(S) /\ b \in Seq(S)
    BY <1>3, <1>4
  <2> QED
    BY <2>1, ConcatFacts
<1>7. Len(a \o b) = n - 1
  BY <1>1, <1>3, <1>4, <1>6
<1>8. ASSUME NEW i \in 1 .. n - 1
      PROVE  (a \o b)[i] = IF i < k THEN s[i] ELSE s[i + 1]
  <2>1. CASE i < k
    BY <1>1, <1>3, <1>6, <2>1
  <2>2. CASE ~(i < k)
    <3> DEFINE j == i - (k - 1)
    <3>1. /\ j \in 1 .. n - k /\ j \in 1 .. n - (k + 1) + 1 /\ i = (k - 1) + j
          /\ i + 1 = k + 1 + j - 1
      BY <1>1, <2>2
    <3> HIDE DEF j
    <3>2. (a \o b)[(k - 1) + j] = b[j]
      BY <1>3, <1>4, <1>6, <3>1
    <3>3. b[j] = s[k + 1 + j - 1]
      BY <1>5, <3>1
    <3> QED
      BY <2>2, <3>1, <3>2, <3>3
  <2> QED
    BY <2>1, <2>2
<1> QED
  BY <1>1, <1>2, <1>6, <1>7, <1>8

(* The listed set without the element at k. *)
LEMMA RemovedLists ==
  ASSUME NEW T, NEW s, Lists(s, T), NEW k \in 1 .. Len(s)
  PROVE  /\ Lists(RemoveAt(s, k), T \ {s[k]})
         /\ Len(RemoveAt(s, k)) = Len(s) - 1
<1> DEFINE r == RemoveAt(s, k)
<1>1. s \in Seq(SUBSET Profiles) /\ Len(s) \in Nat
  BY DEF Lists
<1>2. /\ r \in Seq(SUBSET Profiles) /\ Len(r) = Len(s) - 1
      /\ \A i \in 1 .. Len(s) - 1 : r[i] = IF i < k THEN s[i] ELSE s[i + 1]
  BY <1>1, RemoveAtFacts
<1> HIDE DEF r
<1>3. /\ \A i, j \in 1 .. Len(s) : s[i] = s[j] => i = j
      /\ T = {s[i] : i \in 1 .. Len(s)}
  BY <1>1 DEF Lists, IsInjective, ToSet
<1>4. IsInjective(r)
  <2> SUFFICES ASSUME NEW i \in 1 .. Len(s) - 1, NEW j \in 1 .. Len(s) - 1, r[i] = r[j]
               PROVE  i = j
    BY <1>1, <1>2 DEF IsInjective
  <2> DEFINE fi == IF i < k THEN i ELSE i + 1
             fj == IF j < k THEN j ELSE j + 1
  <2>1. fi \in 1 .. Len(s) /\ fj \in 1 .. Len(s) /\ r[i] = s[fi] /\ r[j] = s[fj]
    BY <1>1, <1>2
  <2>2. fi = fj
    <3> HIDE DEF fi, fj
    <3> QED
      BY <1>3, <2>1
  <2> QED
    BY <1>1, <2>2
<1>5. ToSet(r) = T \ {s[k]}
  <2>1. ToSet(r) = {r[i] : i \in 1 .. Len(s) - 1}
    BY <1>1, <1>2 DEF ToSet
  <2>2. ASSUME NEW i \in 1 .. Len(s) - 1 PROVE r[i] \in T \ {s[k]}
    <3> DEFINE fi == IF i < k THEN i ELSE i + 1
    <3>1. fi \in 1 .. Len(s) /\ r[i] = s[fi] /\ fi # k
      BY <1>1, <1>2
    <3> HIDE DEF fi
    <3> QED
      BY <1>3, <3>1
  <2>3. ASSUME NEW x \in T \ {s[k]} PROVE \E i \in 1 .. Len(s) - 1 : x = r[i]
    <3>1. PICK i \in 1 .. Len(s) : x = s[i]
      BY <1>3
    <3>2. i # k
      BY <3>1
    <3>3. CASE i < k
      BY <1>1, <1>2, <3>1, <3>3
    <3>4. CASE ~(i < k)
      <4>1. i - 1 \in 1 .. Len(s) - 1 /\ ~(i - 1 < k) /\ (i - 1) + 1 = i
        BY <1>1, <3>2, <3>4
      <4>2. r[i - 1] = s[i]
        BY <1>2, <4>1
      <4> QED
        BY <3>1, <4>1, <4>2
    <3> QED
      BY <3>3, <3>4
  <2> QED
    BY <2>1, <2>2, <2>3
<1> QED
  BY <1>2, <1>4, <1>5 DEF Lists, r

(* One more set, not listed before. *)
LEMMA AppendLists ==
  ASSUME NEW T, NEW s, Lists(s, T), NEW e \in SUBSET Profiles, e \notin T
  PROVE  Lists(Append(s, e), T \cup {e}) /\ Len(Append(s, e)) = Len(s) + 1
<1> DEFINE r == Append(s, e)
<1>1. s \in Seq(SUBSET Profiles) /\ Len(s) \in Nat
  BY DEF Lists
<1>2. /\ r \in Seq(SUBSET Profiles) /\ Len(r) = Len(s) + 1
      /\ r[Len(s) + 1] = e /\ \A i \in 1 .. Len(s) : r[i] = s[i]
  BY <1>1, AppendFacts
<1> HIDE DEF r
<1>3. /\ \A i, j \in 1 .. Len(s) : s[i] = s[j] => i = j
      /\ T = {s[i] : i \in 1 .. Len(s)}
  BY <1>1 DEF Lists, IsInjective, ToSet
<1>4. \A i \in 1 .. Len(s) + 1 : i \in 1 .. Len(s) \/ i = Len(s) + 1
  BY <1>1
<1>5. DOMAIN r = 1 .. Len(s) + 1
  BY <1>1, <1>2
<1>6. IsInjective(r)
  <2> SUFFICES ASSUME NEW i \in 1 .. Len(s) + 1, NEW j \in 1 .. Len(s) + 1, r[i] = r[j]
               PROVE  i = j
    BY <1>5 DEF IsInjective
  <2>1. CASE i \in 1 .. Len(s) /\ j \in 1 .. Len(s)
    BY <1>2, <1>3, <2>1
  <2>2. CASE i = Len(s) + 1 /\ j \in 1 .. Len(s)
    BY <1>2, <1>3, <2>2
  <2>3. CASE i \in 1 .. Len(s) /\ j = Len(s) + 1
    BY <1>2, <1>3, <2>3
  <2> QED
    BY <1>4, <2>1, <2>2, <2>3
<1>7. ToSet(r) = T \cup {e}
  <2>1. ToSet(r) = {r[i] : i \in 1 .. Len(s) + 1}
    BY <1>5 DEF ToSet
  <2>2. \A i \in 1 .. Len(s) + 1 : r[i] \in T \cup {e}
    BY <1>2, <1>3, <1>4
  <2>3. \A x \in T : \E i \in 1 .. Len(s) + 1 : x = r[i]
    BY <1>1, <1>2, <1>3
  <2>4. Len(s) + 1 \in 1 .. Len(s) + 1
    BY <1>1
  <2> QED
    BY <1>2, <2>1, <2>2, <2>3, <2>4
<1> QED
  BY <1>2, <1>6, <1>7 DEF Lists, r

(* As many positions as members. *)
LEMMA ListsCounts ==
  ASSUME NEW T, NEW s, Lists(s, T)
  PROVE  Cardinality(T) = Len(s)
<1>1. s \in Seq(SUBSET Profiles) /\ Len(s) \in Nat /\ DOMAIN s = 1 .. Len(s)
  BY DEF Lists
<1>2. s \in [1 .. Len(s) -> T]
  BY <1>1 DEF Lists, ToSet
<1>3. s \in Bijection(1 .. Len(s), T)
  BY <1>1, <1>2 DEF Lists, ToSet, IsInjective, Bijection, Injection, Surjection
<1>4. ExistsBijection(1 .. Len(s), T)
  BY <1>3 DEF ExistsBijection
<1> QED
  BY <1>1, <1>4, FS_CountingElements

(* The newest of a list are a list within the limit. *)
LEMMA NewestLists ==
  ASSUME NEW T, NEW s, Lists(s, T)
  PROVE  /\ Lists(Newest(s), ToSet(Newest(s))) /\ ToSet(Newest(s)) \subseteq T
         /\ Len(Newest(s)) <= CacheLimit
<1>1. s \in Seq(SUBSET Profiles) /\ Len(s) \in Nat /\ CacheLimit \in Nat /\ CacheLimit > 0
  BY SessionAssumptions DEF Lists
<1>2. CASE Len(s) <= CacheLimit
  BY <1>1, <1>2 DEF Newest, Lists
<1>3. CASE Len(s) > CacheLimit
  <2> DEFINE m == Len(s) - CacheLimit + 1
             r == SubSeq(s, m, Len(s))
  <2>1. Newest(s) = r
    BY <1>3 DEF Newest
  <2>2. m \in Nat /\ m > 0 /\ m <= Len(s) + 1 /\ Len(s) - m + 1 = CacheLimit
    BY <1>1, <1>3
  <2> HIDE DEF m
  <2>3. /\ r \in Seq(SUBSET Profiles) /\ Len(r) = Len(s) - m + 1
        /\ \A i \in 1 .. Len(s) - m + 1 : r[i] = s[m + i - 1]
    BY <1>1, <2>2, SliceFacts
  <2> HIDE DEF r
  <2>4. DOMAIN r = 1 .. CacheLimit /\ Len(r) = CacheLimit
    BY <2>2, <2>3
  <2>5. \A i \in 1 .. CacheLimit : m + i - 1 \in 1 .. Len(s) /\ r[i] = s[m + i - 1]
    BY <1>1, <2>2, <2>3
  <2>6. IsInjective(r)
    <3> SUFFICES ASSUME NEW i \in 1 .. CacheLimit, NEW j \in 1 .. CacheLimit, r[i] = r[j]
                 PROVE  i = j
      BY <2>4 DEF IsInjective
    <3>0. /\ m + i - 1 \in 1 .. Len(s) /\ m + j - 1 \in 1 .. Len(s)
          /\ s[m + i - 1] = s[m + j - 1]
      BY <2>5
    <3>1. m + i - 1 = m + j - 1
      <4>1. \A a, b \in 1 .. Len(s) : s[a] = s[b] => a = b
        BY <1>1 DEF Lists, IsInjective
      <4> HIDE DEF r
      <4> QED
        BY <3>0, <4>1
    <3> QED
      BY <1>1, <2>2, <3>1
  <2>7. ToSet(r) \subseteq T
    <3>1. ASSUME NEW k \in 1 .. Len(s) PROVE s[k] \in T
      <4>1. k \in DOMAIN s
        BY <1>1
      <4> QED
        BY <4>1 DEF ToSet, Lists
    <3>2. ASSUME NEW i \in 1 .. CacheLimit PROVE r[i] \in T
      BY <2>5, <3>1
    <3> QED
      BY <2>4, <3>2 DEF ToSet
  <2> QED
    BY <1>1, <2>1, <2>3, <2>4, <2>6, <2>7 DEF Lists
<1> QED
  BY <1>1, <1>2, <1>3

(* A listed set is found at one position, and removed there. *)
LEMMA RemoveFirstLists ==
  ASSUME NEW T, NEW s, Lists(s, T), NEW e \in T
  PROVE  /\ Lists(RemoveFirst(s, e), T \ {e})
         /\ Len(RemoveFirst(s, e)) = Len(s) - 1
<1> DEFINE I == {i \in 1 .. Len(s) : s[i] = e}
           k == Min(I)
<1>1. s \in Seq(SUBSET Profiles) /\ Len(s) \in Nat
  BY DEF Lists
<1>2. \E i \in 1 .. Len(s) : s[i] = e
  BY <1>1 DEF Lists, ToSet
<1>3. I \in SUBSET Nat /\ I # {}
  BY <1>2
<1>4. k \in I
  <2>1. PICK n \in I : \A m \in I : n <= m
    BY <1>3, LeastNatural
  <2> HIDE DEF I
  <2> QED
    BY <2>1 DEF Min
<1>5. RemoveFirst(s, e) = RemoveAt(s, k)
  BY <1>2, <1>3 DEF RemoveFirst, SelectInSeq
<1>6. k \in 1 .. Len(s) /\ s[k] = e
  BY <1>4
<1> HIDE DEF k
<1> QED
  BY <1>5, <1>6, RemovedLists

-----------------------------------------------------------------------------
(* The sets a reload prebuilds. *)

(* A set that holds 0 and, with a number below n, the next one, holds them all. *)
LEMMA CountingUp ==
  ASSUME NEW n \in Nat, NEW S, 0 \in S, \A i \in 0 .. n : i < n /\ i \in S => i + 1 \in S
  PROVE  0 .. n \subseteq S
<1> DEFINE T == (0 .. n) \ S
<1>1. SUFFICES ASSUME T # {} PROVE FALSE
  OBVIOUS
<1>2. T \in SUBSET Nat
  OBVIOUS
<1>3. PICK m \in T : \A k \in T : m <= k
  BY <1>1, <1>2, LeastNatural
<1>4. m \in 0 .. n /\ m # 0
  BY <1>3
<1>5. m - 1 \in 0 .. n /\ m - 1 < n /\ m = (m - 1) + 1 /\ ~(m <= m - 1)
  BY <1>4
<1>6. m - 1 \in S
  BY <1>3, <1>5
<1> QED
  BY <1>3, <1>5, <1>6

(* The definition by recursion has a solution. *)
LEMMA DistinctDefined ==
  ASSUME NEW list \in Seq(SUBSET Profiles)
  PROVE  \A n \in 0 .. Len(list) :
           DistinctOf(list)[n] =
             IF n = 0 THEN <<>>
             ELSE IF Contains(DistinctOf(list)[n - 1], list[n]) THEN DistinctOf(list)[n - 1]
             ELSE Append(DistinctOf(list)[n - 1], list[n])
<1> DEFINE N == Len(list)
           Value(f, n) == IF n = 0 THEN <<>>
                          ELSE IF Contains(f[n - 1], list[n]) THEN f[n - 1]
                          ELSE Append(f[n - 1], list[n])
           Solves(f, n) == f = [i \in 0 .. n |-> Value(f, i)]
           S == {n \in 0 .. N : \E f : Solves(f, n)}
<1>1. 0 \in S
  <2>1. Solves([i \in 0 .. 0 |-> <<>>], 0)
    OBVIOUS
  <2> HIDE DEF Solves
  <2> QED
    BY <2>1
<1>2. ASSUME NEW n \in 0 .. N, n < N, n \in S PROVE n + 1 \in S
  <2>1. PICK f : Solves(f, n)
    BY <1>2
  <2> DEFINE g == [i \in 0 .. (n + 1) |-> Value(f, i)]
  <2>2. ASSUME NEW i \in 0 .. (n + 1) PROVE Value(g, i) = Value(f, i)
    <3>1. CASE i = 0
      BY <3>1
    <3>2. CASE i # 0
      <4>1. i - 1 \in 0 .. n /\ i - 1 \in 0 .. (n + 1)
        BY <3>2
      <4>2. f[i - 1] = Value(f, i - 1) /\ g[i - 1] = Value(f, i - 1)
        <5> HIDE DEF Value
        <5> QED
          BY <2>1, <4>1
      <4> HIDE DEF g
      <4> QED
        BY <3>2, <4>2
    <3> QED
      BY <3>1, <3>2
  <2>3. Solves(g, n + 1)
    <3> HIDE DEF Value
    <3> QED
      BY <2>2
  <2> HIDE DEF Solves, g
  <2> QED
    BY <1>2, <2>3
<1>3. \E f : Solves(f, N)
  <2>1. N \in S
    <3>1. N \in Nat
      OBVIOUS
    <3> HIDE DEF S, N
    <3>2. 0 .. N \subseteq S
      BY <1>1, <1>2, <3>1, CountingUp
    <3> QED
      BY <3>1, <3>2
  <2> HIDE DEF Solves
  <2> QED
    BY <2>1
<1>4. DistinctOf(list) = CHOOSE f : Solves(f, N)
  BY DEF DistinctOf
<1>5. Solves(DistinctOf(list), N)
  <2> HIDE DEF Solves
  <2> QED
    BY <1>3, <1>4
<1>6. ASSUME NEW n \in 0 .. N PROVE DistinctOf(list)[n] = Value(DistinctOf(list), n)
  <2> HIDE DEF Value
  <2> QED
    BY <1>5
<1> QED
  BY <1>6

(* Distinct sets, each of the list. *)
DistinctFrom(s, list) == Lists(s, ToSet(s)) /\ ToSet(s) \subseteq ToSet(list)

LEMMA DistinctFacts ==
  ASSUME NEW list \in Seq(SUBSET Profiles)
  PROVE  DistinctFrom(DistinctOf(list)[Len(list)], list)
<1> DEFINE distinct == DistinctOf(list)
           S == {n \in 0 .. Len(list) : DistinctFrom(distinct[n], list)}
<1>0. Len(list) \in Nat
  OBVIOUS
<1>1. 0 \in S
  <2>1. 0 \in 0 .. Len(list)
    OBVIOUS
  <2>2. distinct[0] = <<>>
    BY <2>1, DistinctDefined
  <2> HIDE DEF distinct
  <2>3. DistinctFrom(<<>>, list)
    <3>1. <<>> \in Seq(SUBSET Profiles) /\ DOMAIN <<>> = {}
      OBVIOUS
    <3> QED
      BY <3>1 DEF DistinctFrom, Lists, IsInjective, ToSet
  <2> QED
    BY <2>1, <2>2, <2>3
<1>2. ASSUME NEW n \in 0 .. Len(list), n < Len(list), n \in S PROVE n + 1 \in S
  <2>0. n + 1 \in 0 .. Len(list) /\ n + 1 \in 1 .. Len(list) /\ n + 1 # 0 /\ (n + 1) - 1 = n
    BY <1>2
  <2>1. distinct[n + 1] = IF Contains(distinct[n], list[n + 1]) THEN distinct[n]
                          ELSE Append(distinct[n], list[n + 1])
    <3>1. distinct[n + 1] =
            IF n + 1 = 0 THEN <<>>
            ELSE IF Contains(distinct[(n + 1) - 1], list[n + 1]) THEN distinct[(n + 1) - 1]
            ELSE Append(distinct[(n + 1) - 1], list[n + 1])
      BY <2>0, DistinctDefined
    <3> HIDE DEF distinct
    <3>2. (n + 1) - 1 = n /\ n + 1 # 0
      BY <2>0
    <3> QED
      BY <3>1, <3>2
  <2>2. DistinctFrom(distinct[n], list)
    BY <1>2
  <2>3. list[n + 1] \in SUBSET Profiles /\ list[n + 1] \in ToSet(list)
    BY <2>0 DEF ToSet
  <2> HIDE DEF distinct
  <2>4. DistinctFrom(distinct[n + 1], list)
    <3>1. CASE Contains(distinct[n], list[n + 1])
      BY <2>1, <2>2, <3>1
    <3>2. CASE ~ Contains(distinct[n], list[n + 1])
      <4> DEFINE s == distinct[n]
                 e == list[n + 1]
      <4>1. Lists(s, ToSet(s)) /\ ToSet(s) \subseteq ToSet(list) /\ e \in SUBSET Profiles
        BY <2>2, <2>3 DEF DistinctFrom
      <4>2. e \notin ToSet(s)
        BY <3>2, <4>1 DEF Contains, ToSet, Lists
      <4>3. distinct[n + 1] = Append(s, e) /\ e \in ToSet(list)
        BY <2>1, <2>3, <3>2
      <4> HIDE DEF s, e
      <4>4. Lists(Append(s, e), ToSet(s) \cup {e})
        BY <4>1, <4>2, AppendLists
      <4>5. ToSet(Append(s, e)) = ToSet(s) \cup {e}
        BY <4>4 DEF Lists
      <4> QED
        BY <4>1, <4>3, <4>4, <4>5 DEF DistinctFrom
    <3> QED
      BY <3>1, <3>2
  <2> QED
    BY <2>0, <2>4
<1>3. 0 .. Len(list) \subseteq S
  <2> HIDE DEF S
  <2> QED
    BY <1>0, <1>1, <1>2, CountingUp
<1> QED
  BY <1>0, <1>3

(* A reload prebuilds the session's set and those of the runtime's stack. *)
LEMMA PrebuiltFacts ==
  ASSUME RuntimeInv, profileNames \in SUBSET Profiles
  PROVE  /\ Lists(PrebuiltOrder, ToSet(PrebuiltOrder))
         /\ ToSet(PrebuiltOrder) \subseteq ProfileSetsForReload \cup {profileNames}
<1> DEFINE head == <<profileNames, baselineProfiles>>
           frames == [i \in DOMAIN stack |-> stack[i].profiles]
<1>1. /\ baselineProfiles \in SUBSET Profiles /\ stack \in Seq(ProfileFrame)
      /\ DOMAIN stack = 1 .. Len(stack) /\ Len(stack) \in Nat
  BY DEF RuntimeInv, RuntimeTypeOK
<1>2. head \in Seq(SUBSET Profiles) /\ Len(head) = 2
      /\ head[1] = profileNames /\ head[2] = baselineProfiles
  BY <1>1
<1>3. /\ frames \in Seq(SUBSET Profiles) /\ Len(frames) = Len(stack)
      /\ \A i \in 1 .. Len(stack) : frames[i] = stack[i].profiles
  <2>1. ASSUME NEW i \in 1 .. Len(stack) PROVE stack[i].profiles \in SUBSET Profiles
    <3>1. stack[i] \in ProfileFrame
      BY <1>1
    <3> QED
      BY <3>1 DEF ProfileFrame
  <2> QED
    BY <1>1, <2>1
<1> HIDE DEF head, frames
<1>4. RetainedInOrder = head \o frames
  BY DEF RetainedInOrder, head, frames
<1>5. /\ RetainedInOrder \in Seq(SUBSET Profiles) /\ Len(RetainedInOrder) = 2 + Len(stack)
      /\ \A i \in 1 .. 2 : RetainedInOrder[i] = head[i]
      /\ \A i \in 1 .. Len(stack) : RetainedInOrder[2 + i] = frames[i]
  <2>1. head \in Seq(SUBSET Profiles) /\ frames \in Seq(SUBSET Profiles)
    BY <1>2, <1>3
  <2>2. /\ head \o frames \in Seq(SUBSET Profiles)
        /\ Len(head \o frames) = Len(head) + Len(frames)
        /\ \A i \in 1 .. Len(head) : (head \o frames)[i] = head[i]
        /\ \A i \in 1 .. Len(frames) : (head \o frames)[Len(head) + i] = frames[i]
    BY <2>1, ConcatFacts
  <2> QED
    BY <1>2, <1>3, <1>4, <2>2
<1>6. ASSUME NEW k \in 1 .. 2 + Len(stack)
      PROVE  RetainedInOrder[k] \in ProfileSetsForReload \cup {profileNames}
  <2>1. CASE k \in 1 .. 2
    <3>1. k = 1 \/ k = 2
      BY <2>1
    <3> QED
      BY <1>2, <1>5, <3>1 DEF ProfileSetsForReload
  <2>2. CASE k \notin 1 .. 2
    <3>1. k - 2 \in 1 .. Len(stack) /\ k = 2 + (k - 2)
      BY <1>1, <2>2
    <3>2. RetainedInOrder[k] = stack[k - 2].profiles
      BY <1>3, <1>5, <3>1
    <3> QED
      BY <1>1, <3>1, <3>2 DEF ProfileSetsForReload
  <2> QED
    BY <2>1, <2>2
<1>7. ToSet(RetainedInOrder) \subseteq ProfileSetsForReload \cup {profileNames}
  BY <1>5, <1>6 DEF ToSet
<1>8. DistinctFrom(PrebuiltOrder, RetainedInOrder)
  BY <1>5, DistinctFacts DEF PrebuiltOrder
<1> QED
  BY <1>7, <1>8 DEF DistinctFrom
-----------------------------------------------------------------------------
(* The session takes the runtime's steps. *)

LEMMA StepIsRuntimeStep == [Next]_vars => [RuntimeNext]_runtimeVars
<1> SUFFICES ASSUME [Next]_vars PROVE [RuntimeNext]_runtimeVars
  OBVIOUS
<1>1. CASE ObserveInput
  BY <1>1 DEF RuntimeNext
<1>2. ASSUME NEW r \in Reads, ReadOutput(r) PROVE [RuntimeNext]_runtimeVars
  BY <1>2 DEF ReadOutput, RuntimeNext
<1>3. CASE SwitchToCached \/ SwitchToBuilt
  BY <1>3 DEF SwitchToCached, SwitchToBuilt, RuntimeNext
<1>4. CASE RejectSwitch
  BY <1>4 DEF RejectSwitch, RuntimeNext
<1>5. ASSUME NEW next \in Stores, Reload(next) PROVE [RuntimeNext]_runtimeVars
  BY <1>5 DEF Reload, RuntimeNext
<1>6. CASE UNCHANGED vars
  BY <1>6 DEF vars
<1> QED
  BY <1>1, <1>2, <1>3, <1>4, <1>5, <1>6 DEF Next

(* The session implements the runtime: it decides on each proposal before it  *)
(* reads on, and reloads between proposals only.                             *)
THEOREM SessionIsRuntime == Spec => RuntimeSpec
<1>1. Init => RuntimeInit
  BY DEF Init
<1> QED
  BY <1>1, StepIsRuntimeStep, PTL DEF Spec, RuntimeSpec

(* What held of the runtime alone holds of the session's. *)
LEMMA SessionRuntimeInv == Spec => []RuntimeInv
BY SessionIsRuntime, InvariantHolds, PTL

-----------------------------------------------------------------------------
(* What the runtime's steps may change of the sets to go back to. *)

(* A read leaves frames that go back to old sets or to the one in use. *)
LEMMA EffectInherits ==
  ASSUME RuntimeInv, StackEffect
  PROVE  Inherits(stack', stack, activeProfiles)
<1>0. /\ stack \in Seq(ProfileFrame) /\ Len(stack) <= StackLimit /\ Len(stack) \in Nat
      /\ activeProfiles \in SUBSET Profiles
      /\ (pendingRemote # None => pendingRemote \in RemoteAttempt)
  BY DEF RuntimeInv, RuntimeTypeOK
<1>1. CASE stack' = stack
  BY <1>1 DEF Inherits
<1>2. CASE stack # <<>> /\ stack' = Front(stack)
  <2>1. /\ Len(Front(stack)) = Len(stack) - 1
        /\ \A i \in 1 .. Len(stack) - 1 : Front(stack)[i] = stack[i]
    BY <1>0, <1>2, FrontFacts
  <2> QED
    BY <1>0, <1>2, <2>1 DEF Inherits
<1>3. CASE pendingRemote # None /\ stack' = PushFrame(stack, activeProfiles, pendingRemote, FALSE)
  <2>1. pendingRemote \in RemoteAttempt /\ FALSE \in BOOLEAN
    BY <1>0, <1>3
  <2> QED
    BY <1>0, <1>3, <2>1, PushFrameFacts
<1>4. CASE stack = <<>> /\ stack' = PushFrame(<<>>, activeProfiles, Generic, FALSE)
  <2>1. Generic \in RemoteAttempt /\ FALSE \in BOOLEAN
    BY DEF Generic, RemoteAttempt, Policies
  <2>2. stack' = PushFrame(stack, activeProfiles, Generic, FALSE)
    BY <1>4
  <2> QED
    BY <1>0, <2>1, <2>2, PushFrameFacts
<1>5. CASE FramesNaming(activeProfiles') # {} /\ stack' = FramesUnder(activeProfiles')
  <2>1. /\ FramesUnder(activeProfiles') \in Seq(ProfileFrame)
        /\ Len(FramesUnder(activeProfiles')) < Len(stack)
        /\ \A i \in 1 .. Len(FramesUnder(activeProfiles')) :
             FramesUnder(activeProfiles')[i] = stack[i]
    BY <1>0, <1>5, FramesUnderFacts
  <2>2. \A i \in 1 .. Len(stack') : i \in 1 .. Len(stack) /\ stack'[i] = stack[i]
    BY <1>0, <1>5, <2>1
  <2> QED
    BY <2>2 DEF Inherits
<1>6. CASE stack' = <<>>
  BY <1>6 DEF Inherits
<1>7. CASE stack' = ResolveTop
  BY <1>0, <1>7, ResolveTopFacts DEF Inherits
<1> QED
  BY <1>1, <1>2, <1>3, <1>4, <1>5, <1>6, <1>7 DEF StackEffect

(* A read that proposes nothing changes neither the set in use nor the        *)
(* baseline; a proposal changes the baseline to the proposed set at most.     *)
Proposes ==
  \/ rollback' = None /\ activeProfiles' = activeProfiles /\ baselineProfiles' = baselineProfiles
  \/ rollback' = TransitionState /\ baselineProfiles' \in {baselineProfiles, activeProfiles'}

LEMMA OutputProposes ==
  ASSUME NEW r \in Reads, ObserveOutput(r)
  PROVE  Proposes
<1> DEFINE w == WindowWith(r)
<1>1. PopOnClose(w) \/ EndAttempt(w) \/ WaitForMore(w, r) \/ Detect(w)
  BY DEF ObserveOutput
<1> HIDE DEF w
<1>2. ASSUME NEW profiles, NEW attempt, NEW open, NEW evidence,
             SwitchTo(profiles, attempt, open, evidence)
      PROVE  Proposes
  <2>1. /\ activeProfiles' = profiles /\ baselineProfiles' = baselineProfiles
        /\ rollback' = IF profiles # activeProfiles THEN TransitionState ELSE None
    BY <1>2 DEF SwitchTo, Propose
  <2> QED
    BY <2>1 DEF Proposes
<1>3. CASE PopOnClose(w)
  BY <1>3 DEF PopOnClose, PopProfile, Propose, Proposes
<1>4. ASSUME NothingSwitched PROVE Proposes
  BY <1>4 DEF NothingSwitched, Propose, Proposes
<1>5. CASE LearnBaseline(w)
  BY <1>5 DEF LearnBaseline, Propose, Proposes
<1>6. CASE DetectActive(w)
  BY <1>2, <1>4, <1>6 DEF DetectActive
<1>7. CASE SwitchOnStrongSignal(w)
  <2> DEFINE p == ByPriority(StrongCandidates(w))
             evidence == IF WaitingAtPrompt(w, p) THEN "BannerAndPrompt" ELSE "Banner"
  <2>1. SwitchTo({p}, pendingRemote, AtLocalBaseline, evidence)
    BY <1>7 DEF SwitchOnStrongSignal
  <2> HIDE DEF p, evidence
  <2> QED
    BY <1>2, <2>1
<1>8. CASE SwitchOnPrompt(w)
  <2> DEFINE p == ByPriority(PromptCandidates(w))
  <2>1. SwitchTo({p}, pendingRemote, AtLocalBaseline, "Weak")
    BY <1>8 DEF SwitchOnPrompt
  <2> HIDE DEF p
  <2> QED
    BY <1>2, <2>1
<1>9. CASE EndAttempt(w) \/ WaitForMore(w, r) \/ DetectNothing(w) \/ NotePrompt(w)
           \/ DismissDetection(w)
  <2>1. NothingSwitched
    BY <1>9 DEF EndAttempt, WaitForMore, DetectNothing, NotePrompt, DismissDetection
  <2> QED
    BY <1>4, <2>1
<1> QED
  BY <1>1, <1>3, <1>5, <1>6, <1>7, <1>8, <1>9 DEF Detect

(* No key changes a set in use or to go back to. *)
LEMMA InputKeepsSets ==
  ASSUME RuntimeInv, ObserveInput
  PROVE  /\ rollback = None /\ rollback' = None
         /\ activeProfiles' = activeProfiles /\ baselineProfiles' = baselineProfiles
         /\ Len(stack') = Len(stack) /\ DOMAIN stack' = DOMAIN stack
         /\ \A i \in DOMAIN stack : stack'[i].profiles = stack[i].profiles
<1>0. stack \in Seq(ProfileFrame)
  BY DEF RuntimeInv, RuntimeTypeOK
<1>1. /\ rollback = None /\ rollback' = None
      /\ activeProfiles' = activeProfiles /\ baselineProfiles' = baselineProfiles
      /\ stack' \in {stack, MarkTop}
  BY DEF ObserveInput, TypeLine, InvalidateInputLine, PressCtrlC, PressCtrlU, ArmRemoteAttempt,
         AgePendingRemote, connectionVars
<1>2. /\ MarkTop \in Seq(ProfileFrame) /\ Len(MarkTop) = Len(stack)
      /\ \A i \in 1 .. Len(stack) : MarkTop[i].profiles = stack[i].profiles
  BY <1>0, MarkTopFacts
<1>3. DOMAIN MarkTop = DOMAIN stack /\ DOMAIN stack = 1 .. Len(stack)
  BY <1>0, <1>2
<1> QED
  BY <1>1, <1>2, <1>3
-----------------------------------------------------------------------------
(* The cache and its order of use. *)

(* The order of use lists the cached sets, within the limit. *)
LEMMA OrderIsList ==
  ASSUME TypeOK
  PROVE  CacheOrderConsistent <=> Lists(recency, DOMAIN cache) /\ Len(recency) <= CacheLimit
<1>1. recency \in Seq(SUBSET Profiles)
  BY DEF TypeOK
<1>2. CacheOrderConsistent => Lists(recency, DOMAIN cache) /\ Len(recency) <= CacheLimit
  BY <1>1 DEF CacheOrderConsistent, Lists
<1>3. Lists(recency, DOMAIN cache) /\ Len(recency) <= CacheLimit => CacheOrderConsistent
  BY DEF CacheOrderConsistent, Lists
<1> QED
  BY <1>2, <1>3

(* A cached set used again moves to the end. *)
LEMMA TouchLists ==
  ASSUME NEW T, Lists(recency, T), Len(recency) <= CacheLimit, NEW e \in T
  PROVE  Lists(Touch(e), T) /\ Len(Touch(e)) <= CacheLimit
<1>1. recency \in Seq(SUBSET Profiles) /\ Len(recency) \in Nat /\ e \in SUBSET Profiles
  BY DEF Lists, ToSet
<1> DEFINE r == RemoveFirst(recency, e)
           U == T \ {e}
<1>2. Lists(r, U) /\ Len(r) = Len(recency) - 1
  BY RemoveFirstLists
<1>3. e \notin U /\ U \cup {e} = T
  OBVIOUS
<1>4. Touch(e) = Append(r, e)
  BY DEF Touch
<1> HIDE DEF r, U
<1>5. Lists(Append(r, e), U \cup {e}) /\ Len(Append(r, e)) = Len(r) + 1
  BY <1>1, <1>2, <1>3, AppendLists
<1>6. Lists(Touch(e), T)
  BY <1>3, <1>4, <1>5, Zenon
<1>7. Len(Touch(e)) = Len(recency)
  <2>1. Len(Append(r, e)) = (Len(recency) - 1) + 1
    BY <1>2, <1>5
  <2> QED
    BY <1>1, <1>4, <2>1
<1> QED
  BY <1>6, <1>7

(* The head is the first to go. *)
LEMMA TailLists ==
  ASSUME NEW T, NEW s, Lists(s, T), s # <<>>
  PROVE  Lists(Tail(s), T \ {Head(s)}) /\ Len(Tail(s)) = Len(s) - 1
<1>1. s \in Seq(SUBSET Profiles) /\ Len(s) \in Nat \ {0} /\ 1 \in 1 .. Len(s)
  BY DEF Lists
<1>2. /\ RemoveAt(s, 1) \in Seq(SUBSET Profiles) /\ Len(RemoveAt(s, 1)) = Len(s) - 1
      /\ \A i \in 1 .. Len(s) - 1 : RemoveAt(s, 1)[i] = s[i + 1]
  <2>1. /\ RemoveAt(s, 1) \in Seq(SUBSET Profiles) /\ Len(RemoveAt(s, 1)) = Len(s) - 1
        /\ \A i \in 1 .. Len(s) - 1 : RemoveAt(s, 1)[i] = IF i < 1 THEN s[i] ELSE s[i + 1]
    BY <1>1, RemoveAtFacts
  <2> QED
    BY <1>1, <2>1
<1>3. /\ Tail(s) \in Seq(SUBSET Profiles) /\ Len(Tail(s)) = Len(s) - 1 /\ Head(s) = s[1]
      /\ \A i \in 1 .. Len(s) - 1 : Tail(s)[i] = s[i + 1]
  BY <1>1
<1>4. Tail(s) = RemoveAt(s, 1)
  <2> DEFINE t == Tail(s)
             r == RemoveAt(s, 1)
  <2>1. /\ t \in Seq(SUBSET Profiles) /\ r \in Seq(SUBSET Profiles) /\ Len(t) = Len(r)
        /\ \A i \in 1 .. Len(t) : t[i] = r[i]
    BY <1>2, <1>3
  <2> HIDE DEF t, r
  <2>2. t = r
    BY <2>1
  <2> QED
    BY <2>2 DEF t, r
<1> QED
  BY <1>1, <1>3, <1>4, RemovedLists

(* A set built anew enters the cache in place of the least recently used. *)
LEMMA InsertFacts ==
  ASSUME TypeOK, CacheOrderConsistent, NEW e \in SUBSET Profiles, e \notin DOMAIN cache,
         InsertEvicting(e)
  PROVE  /\ Lists(recency', DOMAIN cache') /\ Len(recency') <= CacheLimit
         /\ e \in DOMAIN cache' /\ DOMAIN cache' \subseteq DOMAIN cache \cup {e}
         /\ \A n \in DOMAIN cache' :
              cache'[n] = IF n = e THEN HighlighterFor(e) ELSE cache[n]
         /\ cache' \in [DOMAIN cache' -> Highlighter]
<1> DEFINE full == Cardinality(DOMAIN cache) >= CacheLimit
           kept == IF full THEN DOMAIN cache \ {Head(recency)} ELSE DOMAIN cache
           older == IF full THEN Tail(recency) ELSE recency
<1>1. /\ Lists(recency, DOMAIN cache) /\ Len(recency) <= CacheLimit /\ Len(recency) \in Nat
      /\ CacheLimit \in Nat \ {0}
  BY OrderIsList, SessionAssumptions DEF Lists
<1>2. Cardinality(DOMAIN cache) = Len(recency)
  BY <1>1, ListsCounts
<1>3. Lists(older, kept) /\ Len(older) < CacheLimit /\ Len(older) \in Nat
  <2>1. CASE full
    <3>1. recency # <<>>
      BY <1>1, <1>2, <2>1
    <3>2. Lists(Tail(recency), DOMAIN cache \ {Head(recency)})
          /\ Len(Tail(recency)) = Len(recency) - 1
      BY <1>1, <3>1, TailLists
    <3> QED
      BY <1>1, <1>2, <2>1, <3>2
  <2>2. CASE ~ full
    BY <1>1, <1>2, <2>2
  <2> QED
    BY <2>1, <2>2
<1>4. kept \subseteq DOMAIN cache
  OBVIOUS
<1>5. /\ cache' = [n \in kept \cup {e} |-> IF n = e THEN HighlighterFor(e) ELSE cache[n]]
      /\ recency' = Append(older, e)
  BY DEF InsertEvicting
<1> HIDE DEF kept, older
<1>6. Lists(Append(older, e), kept \cup {e}) /\ Len(Append(older, e)) = Len(older) + 1
  BY <1>3, <1>4, AppendLists
<1>7. cache' \in [DOMAIN cache' -> Highlighter]
  <2>1. HighlighterFor(e) \in Highlighter /\ cache \in [DOMAIN cache -> Highlighter]
    BY SessionAssumptions DEF TypeOK, HighlighterFor, Highlighter
  <2> HIDE DEF Highlighter
  <2>2. \A n \in kept \cup {e} :
          (IF n = e THEN HighlighterFor(e) ELSE cache[n]) \in Highlighter
    BY <1>4, <2>1
  <2> QED
    BY <1>5, <2>2
<1> QED
  BY <1>1, <1>3, <1>4, <1>5, <1>6, <1>7

(* A reload's cache is the sets it prebuilt last. *)
LEMMA ReplaceFacts ==
  ASSUME RuntimeInv, profileNames \in SUBSET Profiles, ReplaceGeneration
  PROVE  /\ Lists(recency', DOMAIN cache') /\ Len(recency') <= CacheLimit
         /\ DOMAIN cache' \subseteq ProfileSetsForReload \cup {profileNames}
         /\ \A n \in DOMAIN cache' : cache'[n] = [profiles |-> n, generation |-> generation + 1]
         /\ cache' = [n \in DOMAIN cache' |-> [profiles |-> n, generation |-> generation + 1]]
<1>1. /\ Lists(PrebuiltOrder, ToSet(PrebuiltOrder))
      /\ ToSet(PrebuiltOrder) \subseteq ProfileSetsForReload \cup {profileNames}
  BY PrebuiltFacts
<1>2. /\ Lists(Newest(PrebuiltOrder), ToSet(Newest(PrebuiltOrder)))
      /\ ToSet(Newest(PrebuiltOrder)) \subseteq ToSet(PrebuiltOrder)
      /\ Len(Newest(PrebuiltOrder)) <= CacheLimit
  BY <1>1, NewestLists
<1>3. /\ recency' = Newest(PrebuiltOrder)
      /\ cache' = [n \in ToSet(recency') |-> [profiles |-> n, generation |-> generation + 1]]
  BY DEF ReplaceGeneration
<1> QED
  BY <1>1, <1>2, <1>3

-----------------------------------------------------------------------------
(* The session's invariant, step by step. *)

(* The sets that the frames of a stack go back to. *)
Openers(frames) == {frames[i].profiles : i \in DOMAIN frames}

(* A stack that inherits goes back to old sets or to the one in use. *)
LEMMA InheritedOpeners ==
  ASSUME NEW frames \in Seq(ProfileFrame), NEW old \in Seq(ProfileFrame), NEW profiles,
         Inherits(frames, old, profiles)
  PROVE  Openers(frames) \subseteq Openers(old) \cup {profiles}
<1>1. DOMAIN frames = 1 .. Len(frames) /\ DOMAIN old = 1 .. Len(old)
  OBVIOUS
<1> QED
  BY <1>1 DEF Inherits, Openers

(* What the invariants say, by the openers of the two stacks. *)
LEMMA RetainedOpeners ==
  /\ RetainedSets = IF rollback = None THEN {baselineProfiles} \cup Openers(stack)
                    ELSE {rollback.baseline} \cup Openers(rollback.stack)
  /\ ProposalKeepsToRetained <=>
       (rollback # None =>
          /\ baselineProfiles \in RetainedSets \cup {activeProfiles}
          /\ Openers(stack) \subseteq RetainedSets \cup {profileNames})
  /\ ProfileSetsForReload = {baselineProfiles} \cup Openers(stack)
BY DEF RetainedSets, ProposalKeepsToRetained, Openers, ProfileSetsForReload

(* No key changes what the session may go back to. *)
LEMMA InputKeepsSession ==
  ASSUME SessionInv, RuntimeInv, RuntimeInv', ObserveInput, UNCHANGED sessionVars
  PROVE  SessionInv'
<1>1. /\ rollback = None /\ rollback' = None
      /\ activeProfiles' = activeProfiles /\ baselineProfiles' = baselineProfiles
      /\ DOMAIN stack' = DOMAIN stack
      /\ \A i \in DOMAIN stack : stack'[i].profiles = stack[i].profiles
  BY InputKeepsSets
<1>2. RetainedSets' = RetainedSets
  BY <1>1 DEF RetainedSets
<1>3. /\ profileNames' = profileNames /\ streaming' = streaming /\ store' = store
      /\ generation' = generation /\ cache' = cache /\ recency' = recency
      /\ rejectedSets' = rejectedSets
  BY DEF sessionVars
<1>4. TypeOK'
  BY <1>3 DEF SessionInv, TypeOK, RuntimeInv
<1>5. SessionFollowsRuntime' /\ ProposalKeepsToRetained'
  BY <1>1, <1>3 DEF SessionInv, SessionFollowsRuntime, ProposalKeepsToRetained
<1>6. RetainedSetsBuild'
  BY <1>2, <1>3 DEF SessionInv, RetainedSetsBuild, Builds
<1>7. CacheOrderConsistent' /\ CachedSetsBuild' /\ RejectedSetsDoNotBuild'
  BY <1>3 DEF SessionInv, CacheOrderConsistent, CachedSetsBuild, RejectedSetsDoNotBuild, Builds
<1> QED
  BY <1>4, <1>5, <1>6, <1>7 DEF SessionInv

(* A read proposes at most: what the session may go back to is the set in use *)
(* and what it could go back to before.                                       *)
LEMMA OutputKeepsSession ==
  ASSUME SessionInv, RuntimeInv, RuntimeInv', NEW r \in Reads, ReadOutput(r)
  PROVE  SessionInv'
<1>1. ObserveOutput(r) /\ rollback = None
  BY DEF ReadOutput, ObserveOutput
<1>2. /\ profileNames' = profileNames /\ streaming' = streaming /\ store' = store
      /\ generation' = generation /\ cache' = cache /\ recency' = recency
      /\ rejectedSets' = rejectedSets
  BY DEF ReadOutput, sessionVars
<1>3. profileNames = activeProfiles
  BY <1>1 DEF SessionInv, SessionFollowsRuntime
<1>4. Openers(stack') \subseteq Openers(stack) \cup {profileNames}
  <2>1. Inherits(stack', stack, activeProfiles)
    BY <1>1, OutputStackEffect, EffectInherits
  <2>2. stack \in Seq(ProfileFrame) /\ stack' \in Seq(ProfileFrame)
    BY DEF RuntimeInv, RuntimeTypeOK
  <2> QED
    BY <1>3, <2>1, <2>2, InheritedOpeners
<1>5. RetainedSets = {baselineProfiles} \cup Openers(stack)
  BY <1>1, RetainedOpeners
<1>6. Proposes
  BY <1>1, OutputProposes
<1>7. /\ SessionFollowsRuntime' /\ ProposalKeepsToRetained'
      /\ RetainedSets' \subseteq RetainedSets \cup {profileNames}
  <2>1. CASE rollback' = None /\ activeProfiles' = activeProfiles
             /\ baselineProfiles' = baselineProfiles
    <3>1. RetainedSets' = {baselineProfiles'} \cup Openers(stack')
      BY <2>1, RetainedOpeners DEF RetainedSets, Openers
    <3>2. SessionFollowsRuntime' /\ ProposalKeepsToRetained'
      BY <1>2, <1>3, <2>1 DEF SessionFollowsRuntime, ProposalKeepsToRetained
    <3> QED
      BY <1>4, <1>5, <2>1, <3>1, <3>2
  <2>2. CASE rollback' = TransitionState
             /\ baselineProfiles' \in {baselineProfiles, activeProfiles'}
    <3>1. rollback' # None
      BY <2>2, TransitionStateFacts, RuntimeAssumptions DEF NoneAssumption
    <3>2. rollback'.active = activeProfiles /\ rollback'.baseline = baselineProfiles
          /\ rollback'.stack = stack
      BY <2>2 DEF TransitionState
    <3>3. RetainedSets' = RetainedSets
      BY <1>5, <3>1, <3>2 DEF RetainedSets, Openers
    <3>4. SessionFollowsRuntime'
      BY <1>2, <1>3, <3>1, <3>2 DEF SessionFollowsRuntime
    <3>5. ProposalKeepsToRetained'
      <4>1. \A i \in DOMAIN stack' : stack'[i].profiles \in RetainedSets' \cup {profileNames'}
        BY <1>2, <1>4, <1>5, <3>3 DEF Openers
      <4>2. baselineProfiles' \in RetainedSets' \cup {activeProfiles'}
        BY <1>5, <2>2, <3>3
      <4> QED
        BY <4>1, <4>2 DEF ProposalKeepsToRetained
    <3> QED
      BY <3>3, <3>4, <3>5
  <2> QED
    BY <1>6, <2>1, <2>2 DEF Proposes
<1>8. TypeOK'
  BY <1>2 DEF SessionInv, TypeOK, RuntimeInv
<1>9. RetainedSetsBuild'
  BY <1>2, <1>7 DEF SessionInv, RetainedSetsBuild, Builds
<1>10. CacheOrderConsistent' /\ CachedSetsBuild' /\ RejectedSetsDoNotBuild'
  BY <1>2 DEF SessionInv, CacheOrderConsistent, CachedSetsBuild, RejectedSetsDoNotBuild, Builds
<1> QED
  BY <1>7, <1>8, <1>9, <1>10 DEF SessionInv

(* An accepted proposal: the set it switched to may be gone back to as well. *)
LEMMA AcceptKeepsRetained ==
  ASSUME SessionInv, AcceptTransition, profileNames' = activeProfiles, store' = store,
         Builds(store, activeProfiles)
  PROVE  SessionFollowsRuntime' /\ RetainedSetsBuild' /\ ProposalKeepsToRetained'
<1>1. /\ rollback # None /\ rollback' = None /\ activeProfiles' = activeProfiles
      /\ baselineProfiles' = baselineProfiles /\ stack' = stack
  BY DEF AcceptTransition, connectionVars
<1>2. /\ baselineProfiles \in RetainedSets \cup {activeProfiles}
      /\ Openers(stack) \subseteq RetainedSets \cup {profileNames}
  BY <1>1, RetainedOpeners DEF SessionInv
<1>3. RetainedSets' = {baselineProfiles} \cup Openers(stack)
  BY <1>1 DEF RetainedSets, Openers
<1>4. \A names \in RetainedSets \cup {profileNames, activeProfiles} : Builds(store, names)
  BY DEF SessionInv, RetainedSetsBuild
<1>5. \A names \in RetainedSets' \cup {profileNames'} : Builds(store, names)
  BY <1>2, <1>3, <1>4
<1>6. RetainedSetsBuild'
  BY <1>5 DEF RetainedSetsBuild, Builds
<1> QED
  BY <1>1, <1>6 DEF SessionFollowsRuntime, ProposalKeepsToRetained

(* A cached highlighter was built under this store. *)
LEMMA CachedKeepsSession ==
  ASSUME SessionInv, RuntimeInv, RuntimeInv', SwitchToCached
  PROVE  SessionInv'
<1>1. /\ AcceptTransition /\ profileNames' = activeProfiles
      /\ streaming' = cache[activeProfiles] /\ activeProfiles \in DOMAIN cache
      /\ recency' = Touch(activeProfiles)
      /\ store' = store /\ generation' = generation /\ cache' = cache
      /\ rejectedSets' = rejectedSets
  BY DEF SwitchToCached
<1>2. Builds(store, activeProfiles)
  BY <1>1 DEF SessionInv, CachedSetsBuild
<1>3. SessionFollowsRuntime' /\ RetainedSetsBuild' /\ ProposalKeepsToRetained'
  BY <1>1, <1>2, AcceptKeepsRetained
<1>4. Lists(recency', DOMAIN cache') /\ Len(recency') <= CacheLimit
  <2>1. Lists(recency, DOMAIN cache) /\ Len(recency) <= CacheLimit
    BY OrderIsList DEF SessionInv
  <2> QED
    BY <1>1, <2>1, TouchLists
<1>5. CacheOrderConsistent'
  BY <1>4 DEF Lists, CacheOrderConsistent
<1>6. CachedSetsBuild' /\ RejectedSetsDoNotBuild'
  BY <1>1 DEF SessionInv, CachedSetsBuild, RejectedSetsDoNotBuild, Builds
<1>7. TypeOK'
  <2>1. profileNames' \in SUBSET Profiles
    BY <1>1 DEF RuntimeInv, RuntimeTypeOK
  <2>2. streaming' \in Highlighter
    BY <1>1 DEF SessionInv, TypeOK
  <2>3. recency' \in Seq(SUBSET Profiles)
    BY <1>4 DEF Lists
  <2> QED
    BY <1>1, <2>1, <2>2, <2>3 DEF SessionInv, TypeOK, RuntimeInv
<1> QED
  BY <1>3, <1>5, <1>6, <1>7 DEF SessionInv

(* A highlighter built now is of this store, and enters the cache. *)
LEMMA BuiltKeepsSession ==
  ASSUME SessionInv, RuntimeInv, RuntimeInv', SwitchToBuilt
  PROVE  SessionInv'
<1>1. /\ AcceptTransition /\ profileNames' = activeProfiles
      /\ streaming' = HighlighterFor(activeProfiles)
      /\ activeProfiles \notin DOMAIN cache /\ InsertEvicting(activeProfiles)
      /\ Builds(store, activeProfiles)
      /\ store' = store /\ generation' = generation /\ rejectedSets' = rejectedSets
  BY DEF SwitchToBuilt
<1>2. activeProfiles \in SUBSET Profiles /\ TypeOK /\ CacheOrderConsistent
  BY DEF SessionInv, TypeOK, RuntimeInv, RuntimeTypeOK
<1>3. SessionFollowsRuntime' /\ RetainedSetsBuild' /\ ProposalKeepsToRetained'
  BY <1>1, AcceptKeepsRetained
<1>4. /\ Lists(recency', DOMAIN cache') /\ Len(recency') <= CacheLimit
      /\ DOMAIN cache' \subseteq DOMAIN cache \cup {activeProfiles}
      /\ cache' \in [DOMAIN cache' -> Highlighter]
  BY <1>1, <1>2, InsertFacts
<1>5. CacheOrderConsistent'
  BY <1>4 DEF Lists, CacheOrderConsistent
<1>6. CachedSetsBuild'
  BY <1>1, <1>4 DEF SessionInv, CachedSetsBuild, Builds
<1>7. RejectedSetsDoNotBuild'
  BY <1>1 DEF SessionInv, RejectedSetsDoNotBuild, Builds
<1>8. TypeOK'
  <2>1. generation \in Nat
    BY <1>2, SessionAssumptions DEF TypeOK
  <2>2. streaming' \in Highlighter
    BY <1>1, <1>2, <2>1 DEF HighlighterFor, Highlighter
  <2>3. recency' \in Seq(SUBSET Profiles)
    BY <1>4 DEF Lists
  <2>4. DOMAIN cache' \subseteq SUBSET Profiles
    BY <1>2, <1>4 DEF TypeOK
  <2> QED
    BY <1>1, <1>2, <1>4, <2>2, <2>3, <2>4 DEF TypeOK, RuntimeInv
<1> QED
  BY <1>3, <1>5, <1>6, <1>7, <1>8 DEF SessionInv

(* A refused set is remembered in place of the oldest one. *)
LEMMA RememberFacts ==
  ASSUME NEW names \in SUBSET Profiles, rejectedSets \in Seq(SUBSET Profiles),
         CacheLimit \in Nat \ {0}, RememberRejected(names)
  PROVE  /\ rejectedSets' \in Seq(SUBSET Profiles)
         /\ \A i \in DOMAIN rejectedSets' :
              \/ rejectedSets'[i] = names
              \/ \E j \in DOMAIN rejectedSets : rejectedSets'[i] = rejectedSets[j]
<1>1. CASE Contains(rejectedSets, names)
  BY <1>1 DEF RememberRejected
<1>2. CASE ~ Contains(rejectedSets, names)
  <2> DEFINE kept == IF Len(rejectedSets) >= CacheLimit THEN Tail(rejectedSets) ELSE rejectedSets
  <2>1. rejectedSets' = Append(kept, names)
    BY <1>2 DEF RememberRejected
  <2>2. /\ kept \in Seq(SUBSET Profiles)
        /\ \A i \in DOMAIN kept : \E j \in DOMAIN rejectedSets : kept[i] = rejectedSets[j]
    <3>1. CASE Len(rejectedSets) >= CacheLimit
      <4>1. rejectedSets # <<>> /\ Len(rejectedSets) \in Nat \ {0}
        BY <3>1
      <4>2. /\ Tail(rejectedSets) \in Seq(SUBSET Profiles)
            /\ DOMAIN Tail(rejectedSets) = 1 .. Len(rejectedSets) - 1
            /\ \A i \in 1 .. Len(rejectedSets) - 1 : Tail(rejectedSets)[i] = rejectedSets[i + 1]
        BY <4>1
      <4>3. \A i \in 1 .. Len(rejectedSets) - 1 : i + 1 \in DOMAIN rejectedSets
        BY <4>1
      <4> QED
        BY <3>1, <4>2, <4>3
    <3>2. CASE ~ Len(rejectedSets) >= CacheLimit
      BY <3>2
    <3> QED
      BY <3>1, <3>2
  <2> HIDE DEF kept
  <2>3. /\ rejectedSets' \in Seq(SUBSET Profiles)
        /\ DOMAIN rejectedSets' = 1 .. Len(kept) + 1 /\ DOMAIN kept = 1 .. Len(kept)
        /\ Len(kept) \in Nat /\ rejectedSets'[Len(kept) + 1] = names
        /\ \A i \in 1 .. Len(kept) : rejectedSets'[i] = kept[i]
    BY <2>1, <2>2
  <2>4. \A i \in 1 .. Len(kept) + 1 : i \in 1 .. Len(kept) \/ i = Len(kept) + 1
    BY <2>3
  <2> QED
    BY <2>2, <2>3, <2>4
<1> QED
  BY <1>1, <1>2

(* A refused proposal: the runtime goes back to the set in use, a typed       *)
(* command's connection gets a frame that goes back to it too.                *)
LEMMA RejectKeepsSession ==
  ASSUME SessionInv, RuntimeInv, RuntimeInv', RejectSwitch
  PROVE  SessionInv'
<1>1. /\ RejectTransition /\ rollback # None /\ rollback' = None
      /\ RememberRejected(activeProfiles)
      /\ profileNames' = profileNames /\ streaming' = streaming /\ store' = store
      /\ generation' = generation /\ cache' = cache /\ recency' = recency
  BY DEF RejectSwitch, RejectTransition
<1>2. /\ activeProfiles \in SUBSET Profiles /\ rollback \in TransitionStates
      /\ Len(rollback.stack) <= StackLimit /\ stack' \in Seq(ProfileFrame)
  BY <1>1 DEF RuntimeInv, RuntimeTypeOK, RollbackObeys
<1>3. /\ rollback.active = profileNames /\ rollback.active \in SUBSET Profiles
      /\ rollback.stack \in Seq(ProfileFrame)
      /\ rollback.pending \in RemoteAttempt \cup {None}
  BY <1>1, <1>2 DEF SessionInv, SessionFollowsRuntime, TransitionStates
<1>4. /\ activeProfiles' = profileNames /\ baselineProfiles' = rollback.baseline
      /\ stack' = IF rollback.pending = None THEN rollback.stack
                  ELSE PushFrame(rollback.stack, rollback.active, rollback.pending, TRUE)
  BY <1>1, <1>3 DEF RejectTransition
<1>5. Openers(stack') \subseteq Openers(rollback.stack) \cup {profileNames}
  <2>1. CASE rollback.pending = None
    BY <1>4, <2>1
  <2>2. CASE rollback.pending # None
    <3>1. TRUE \in BOOLEAN /\ rollback.pending \in RemoteAttempt
      BY <1>3, <2>2
    <3>2. Inherits(stack', rollback.stack, profileNames)
      BY <1>2, <1>3, <1>4, <2>2, <3>1, PushFrameFacts
    <3> QED
      BY <1>2, <1>3, <3>2, InheritedOpeners
  <2> QED
    BY <2>1, <2>2
<1>6. RetainedSets' \subseteq RetainedSets \cup {profileNames}
  <2>1. RetainedSets = {rollback.baseline} \cup Openers(rollback.stack)
    BY <1>1, RetainedOpeners
  <2>2. RetainedSets' = {baselineProfiles'} \cup Openers(stack')
    BY <1>1 DEF RetainedSets, Openers
  <2> QED
    BY <1>4, <1>5, <2>1, <2>2
<1>7. RetainedSetsBuild'
  BY <1>1, <1>6 DEF SessionInv, RetainedSetsBuild, Builds
<1>8. SessionFollowsRuntime' /\ ProposalKeepsToRetained'
  BY <1>1, <1>4 DEF SessionFollowsRuntime, ProposalKeepsToRetained
<1>9. CacheOrderConsistent' /\ CachedSetsBuild'
  BY <1>1 DEF SessionInv, CacheOrderConsistent, CachedSetsBuild, Builds
<1>10. /\ rejectedSets' \in Seq(SUBSET Profiles)
       /\ \A i \in DOMAIN rejectedSets' :
            \/ rejectedSets'[i] = activeProfiles
            \/ \E j \in DOMAIN rejectedSets : rejectedSets'[i] = rejectedSets[j]
  BY <1>1, <1>2, SessionAssumptions, RememberFacts DEF SessionInv, TypeOK
<1>11. ~ Builds(store, activeProfiles)
  <2>1. CASE Contains(rejectedSets, activeProfiles)
    BY <2>1 DEF Contains, SessionInv, TypeOK, RejectedSetsDoNotBuild
  <2>2. CASE ~ Contains(rejectedSets, activeProfiles)
    BY <2>2 DEF RejectSwitch
  <2> QED
    BY <2>1, <2>2
<1>12. RejectedSetsDoNotBuild'
  BY <1>1, <1>10, <1>11 DEF SessionInv, RejectedSetsDoNotBuild, Builds
<1>13. TypeOK'
  BY <1>1, <1>10 DEF SessionInv, TypeOK, RuntimeInv
<1> QED
  BY <1>7, <1>8, <1>9, <1>12, <1>13 DEF SessionInv

(* A reload keeps no set that the new store cannot build. *)
LEMMA ReloadKeepsSession ==
  ASSUME SessionInv, RuntimeInv, RuntimeInv', NEW next \in Stores, Reload(next)
  PROVE  SessionInv'
<1>1. /\ rollback = None /\ rollback' = None /\ generation <= MaxReloads
      /\ \A names \in ProfileSetsForReload \cup {profileNames} : Builds(next, names)
      /\ store' = next /\ generation' = generation + 1 /\ ReplaceGeneration
      /\ streaming' = [profiles |-> profileNames, generation |-> generation']
      /\ rejectedSets' = <<>> /\ profileNames' = profileNames
      /\ activeProfiles' = activeProfiles /\ baselineProfiles' = baselineProfiles
      /\ stack' = stack
  BY DEF Reload, ForgetRejected, AcceptReloadGeneration, connectionVars
<1>2. /\ profileNames \in SUBSET Profiles /\ generation \in Nat
      /\ generation + 1 \in 1 .. MaxReloads + 1
  BY <1>1, SessionAssumptions DEF SessionInv, TypeOK
<1>3. /\ Lists(recency', DOMAIN cache') /\ Len(recency') <= CacheLimit
      /\ DOMAIN cache' \subseteq ProfileSetsForReload \cup {profileNames}
      /\ cache' = [n \in DOMAIN cache' |-> [profiles |-> n, generation |-> generation + 1]]
  BY <1>1, <1>2, ReplaceFacts
<1>4. DOMAIN cache' \subseteq SUBSET Profiles
  BY <1>3 DEF Lists, ToSet
<1>5. cache' \in [DOMAIN cache' -> Highlighter]
  <2>1. \A n \in DOMAIN cache' : [profiles |-> n, generation |-> generation + 1] \in Highlighter
    BY <1>2, <1>4 DEF Highlighter
  <2> HIDE DEF Highlighter
  <2> QED
    BY <1>3, <2>1
<1>6. SessionFollowsRuntime' /\ ProposalKeepsToRetained'
  BY <1>1 DEF SessionInv, SessionFollowsRuntime, ProposalKeepsToRetained
<1>7. RetainedSetsBuild'
  <2>1. RetainedSets' = ProfileSetsForReload
    BY <1>1 DEF RetainedSets, ProfileSetsForReload
  <2> QED
    BY <1>1, <2>1 DEF RetainedSetsBuild, Builds
<1>8. CacheOrderConsistent'
  BY <1>3 DEF Lists, CacheOrderConsistent
<1>9. CachedSetsBuild' /\ RejectedSetsDoNotBuild'
  BY <1>1, <1>3 DEF CachedSetsBuild, RejectedSetsDoNotBuild, Builds
<1>10. TypeOK'
  <2>1. recency' \in Seq(SUBSET Profiles)
    BY <1>3 DEF Lists
  <2>2. streaming' \in Highlighter
    BY <1>1, <1>2 DEF Highlighter
  <2> QED
    BY <1>1, <1>2, <1>4, <1>5, <2>1, <2>2 DEF TypeOK, RuntimeInv
<1> QED
  BY <1>6, <1>7, <1>8, <1>9, <1>10 DEF SessionInv

(* A session starts with its own and the generic highlighter. *)
LEMMA InitKeepsSession == Init => RuntimeInv /\ SessionInv
<1> SUFFICES ASSUME Init PROVE RuntimeInv /\ SessionInv
  OBVIOUS
<1> DEFINE built == IF profileNames = {} THEN <<{}>> ELSE <<{}, profileNames>>
<1>1. /\ RuntimeInit /\ store \in Stores /\ generation = 1 /\ profileNames = activeProfiles
      /\ Builds(store, profileNames) /\ streaming = HighlighterFor(profileNames)
      /\ recency = Newest(built) /\ cache = [n \in ToSet(recency) |-> HighlighterFor(n)]
  BY DEF Init, NewSession
<1>2. RuntimeInv
  BY <1>1, InitImpliesInv
<1>3. /\ profileNames \in SUBSET Profiles /\ rollback = None /\ stack = <<>>
      /\ baselineProfiles = profileNames
  BY <1>1, <1>2 DEF RuntimeInit, RuntimeInv, RuntimeTypeOK
<1>4. Lists(built, ToSet(built)) /\ ToSet(built) \subseteq {{}, profileNames}
  <2>1. CASE profileNames = {}
    <3> DEFINE s == <<{}>>
    <3>1. s \in Seq(SUBSET Profiles) /\ DOMAIN s = 1 .. 1 /\ s[1] = {}
      OBVIOUS
    <3>2. built = s
      BY <2>1
    <3> HIDE DEF s, built
    <3> QED
      BY <3>1, <3>2 DEF Lists, IsInjective, ToSet
  <2>2. CASE profileNames # {}
    <3> DEFINE s == <<{}, profileNames>>
    <3>1. s \in Seq(SUBSET Profiles) /\ DOMAIN s = 1 .. 2 /\ s[1] = {} /\ s[2] = profileNames
      BY <1>3
    <3>2. built = s
      BY <2>2
    <3>3. \A i \in 1 .. 2 : i = 1 \/ i = 2
      OBVIOUS
    <3> HIDE DEF s, built
    <3>4. IsInjective(s)
      BY <2>2, <3>1, <3>3 DEF IsInjective
    <3>5. ToSet(s) \subseteq {{}, profileNames}
      BY <3>1, <3>3 DEF ToSet
    <3> QED
      BY <3>1, <3>2, <3>4, <3>5 DEF Lists
  <2> QED
    BY <2>1, <2>2
<1> HIDE DEF built
<1>5. /\ Lists(recency, ToSet(recency)) /\ Len(recency) <= CacheLimit
      /\ ToSet(recency) \subseteq {{}, profileNames}
  BY <1>1, <1>4, NewestLists
<1>6. HighlighterFor(profileNames) \in Highlighter
      /\ \A n \in SUBSET Profiles : HighlighterFor(n) \in Highlighter
  BY <1>1, <1>3 DEF HighlighterFor, Highlighter
<1>7. /\ DOMAIN cache = ToSet(recency) /\ ToSet(recency) \subseteq SUBSET Profiles
      /\ cache \in [DOMAIN cache -> Highlighter]
  <2>1. ToSet(recency) \subseteq SUBSET Profiles
    BY <1>3, <1>5
  <2>2. cache \in [ToSet(recency) -> Highlighter]
    BY <1>1, <1>6, <2>1
  <2> QED
    BY <1>1, <2>1, <2>2
<1>8. rejectedSets \in Seq(SUBSET Profiles) /\ RejectedSetsDoNotBuild
  <2>1. CASE rejectedSets = <<>>
    BY <2>1 DEF RejectedSetsDoNotBuild
  <2>2. ASSUME NEW first \in SUBSET store.known, ~ Builds(store, first), rejectedSets = <<first>>
        PROVE  rejectedSets \in Seq(SUBSET Profiles) /\ RejectedSetsDoNotBuild
    <3>1. first \in SUBSET Profiles
      BY <1>1, SessionAssumptions DEF Store
    <3> QED
      BY <2>2, <3>1 DEF RejectedSetsDoNotBuild
  <2> QED
    BY <2>1, <2>2 DEF Init
<1>9. SessionFollowsRuntime /\ ProposalKeepsToRetained
  BY <1>1, <1>3 DEF SessionFollowsRuntime, ProposalKeepsToRetained
<1>10. RetainedSetsBuild
  BY <1>1, <1>3 DEF RetainedSetsBuild, RetainedSets
<1>11. CacheOrderConsistent
  BY <1>5, <1>7 DEF Lists, CacheOrderConsistent
<1>12. CachedSetsBuild
  BY <1>1, <1>5, <1>7 DEF CachedSetsBuild, Builds
<1>13. TypeOK
  BY <1>1, <1>2, <1>3, <1>5, <1>6, <1>7, <1>8, SessionAssumptions
  DEF TypeOK, RuntimeInv, Lists
<1> QED
  BY <1>2, <1>8, <1>9, <1>10, <1>11, <1>12, <1>13 DEF SessionInv

(* Every step of the session keeps its invariant. *)
LEMMA NextKeepsSession ==
  ASSUME SessionInv, RuntimeInv, RuntimeInv', [Next]_vars
  PROVE  SessionInv'
<1>1. CASE ObserveInput /\ UNCHANGED sessionVars
  BY <1>1, InputKeepsSession
<1>2. ASSUME NEW r \in Reads, ReadOutput(r) PROVE SessionInv'
  BY <1>2, OutputKeepsSession
<1>3. CASE SwitchToCached
  BY <1>3, CachedKeepsSession
<1>4. CASE SwitchToBuilt
  BY <1>4, BuiltKeepsSession
<1>5. CASE RejectSwitch
  BY <1>5, RejectKeepsSession
<1>6. ASSUME NEW next \in Stores, Reload(next) PROVE SessionInv'
  BY <1>6, ReloadKeepsSession
<1>7. CASE UNCHANGED vars
  <2>1. /\ profileNames' = profileNames /\ streaming' = streaming /\ store' = store
        /\ generation' = generation /\ cache' = cache /\ recency' = recency
        /\ rejectedSets' = rejectedSets /\ rollback' = rollback /\ stack' = stack
        /\ activeProfiles' = activeProfiles /\ baselineProfiles' = baselineProfiles
    BY <1>7 DEF vars, sessionVars, runtimeVars, connectionVars
  <2>2. RetainedSets' = RetainedSets
    BY <2>1 DEF RetainedSets
  <2>3. TypeOK'
    BY <2>1 DEF SessionInv, TypeOK, RuntimeInv
  <2> QED
    BY <2>1, <2>2, <2>3
    DEF SessionInv, SessionFollowsRuntime, ProposalKeepsToRetained, RetainedSetsBuild,
        CacheOrderConsistent, CachedSetsBuild, RejectedSetsDoNotBuild, Builds
<1> QED
  BY <1>1, <1>2, <1>3, <1>4, <1>5, <1>6, <1>7 DEF Next

-----------------------------------------------------------------------------
(* However reads, keys, refusals and reloads alternate, the session is with   *)
(* the runtime and can build whatever a closing connection goes back to.      *)
THEOREM SessionSafety == Spec => []SessionInv
<1>1. Init => SessionInv
  BY InitKeepsSession
<1>2. SessionInv /\ RuntimeInv /\ RuntimeInv' /\ [Next]_vars => SessionInv'
  BY NextKeepsSession
<1> QED
  BY <1>1, <1>2, SessionRuntimeInv, PTL DEF Spec

(* No step leaves a highlighter of an earlier generation behind. *)
LEMMA NextLeavesNothingStale ==
  ASSUME SessionInv, RuntimeInv, NoStaleHighlighter, [Next]_vars
  PROVE  NoStaleHighlighter'
<1>1. ASSUME profileNames' = profileNames, streaming' = streaming, generation' = generation,
             cache' = cache
      PROVE  NoStaleHighlighter'
  BY <1>1 DEF NoStaleHighlighter, HighlighterFor
<1>2. CASE ObserveInput /\ UNCHANGED sessionVars
  BY <1>1, <1>2 DEF sessionVars
<1>3. ASSUME NEW r \in Reads, ReadOutput(r) PROVE NoStaleHighlighter'
  BY <1>1, <1>3 DEF ReadOutput, sessionVars
<1>4. CASE SwitchToCached
  BY <1>4 DEF SwitchToCached, NoStaleHighlighter, HighlighterFor
<1>5. CASE SwitchToBuilt
  <2>1. /\ activeProfiles \in SUBSET Profiles /\ TypeOK /\ CacheOrderConsistent
    BY DEF SessionInv, TypeOK, RuntimeInv, RuntimeTypeOK
  <2>2. /\ profileNames' = activeProfiles /\ streaming' = HighlighterFor(activeProfiles)
        /\ generation' = generation /\ activeProfiles \notin DOMAIN cache
        /\ InsertEvicting(activeProfiles)
    BY <1>5 DEF SwitchToBuilt
  <2>3. /\ DOMAIN cache' \subseteq DOMAIN cache \cup {activeProfiles}
        /\ \A n \in DOMAIN cache' :
             cache'[n] = IF n = activeProfiles THEN HighlighterFor(activeProfiles) ELSE cache[n]
    BY <2>1, <2>2, InsertFacts
  <2> QED
    BY <2>2, <2>3 DEF NoStaleHighlighter, HighlighterFor
<1>6. CASE RejectSwitch
  BY <1>1, <1>6 DEF RejectSwitch
<1>7. ASSUME NEW next \in Stores, Reload(next) PROVE NoStaleHighlighter'
  <2>1. /\ generation' = generation + 1 /\ ReplaceGeneration /\ profileNames' = profileNames
        /\ streaming' = [profiles |-> profileNames, generation |-> generation']
    BY <1>7 DEF Reload
  <2>2. \A n \in DOMAIN cache' : cache'[n] = [profiles |-> n, generation |-> generation + 1]
    BY <2>1, ReplaceFacts DEF SessionInv, TypeOK
  <2> QED
    BY <2>1, <2>2 DEF NoStaleHighlighter, HighlighterFor
<1>8. CASE UNCHANGED vars
  BY <1>1, <1>8 DEF vars, sessionVars
<1> QED
  BY <1>2, <1>3, <1>4, <1>5, <1>6, <1>7, <1>8 DEF Next

(* No highlighter of an earlier generation is in use or in the cache. *)
THEOREM NothingStale == Spec => []NoStaleHighlighter
<1>1. Init => NoStaleHighlighter
  BY DEF Init, NewSession, NoStaleHighlighter
<1>2. SessionInv /\ RuntimeInv /\ NoStaleHighlighter /\ [Next]_vars => NoStaleHighlighter'
  BY NextLeavesNothingStale
<1> QED
  BY <1>1, <1>2, SessionSafety, SessionRuntimeInv, PTL DEF Spec

(* Only a refusal ends a proposal without following it, and it refuses only   *)
(* what does not build.                                                       *)
LEMMA GoesBack ==
  ASSUME SessionInv, RuntimeInv, [Next]_vars, rollback # None, activeProfiles \in RetainedSets
  PROVE  profileNames' = activeProfiles \/ rollback' # None
<1>1. Builds(store, activeProfiles)
  BY DEF SessionInv, RetainedSetsBuild
<1>2. ~ Contains(rejectedSets, activeProfiles)
  BY <1>1 DEF Contains, SessionInv, TypeOK, RejectedSetsDoNotBuild
<1>3. ~ RejectSwitch
  BY <1>1, <1>2 DEF RejectSwitch
<1>4. ~ ObserveInput
  BY InputKeepsSets
<1>5. \A r \in Reads : ~ ReadOutput(r)
  BY DEF ReadOutput, ObserveOutput
<1>6. \A next \in Stores : ~ Reload(next)
  BY DEF Reload
<1>7. CASE SwitchToCached \/ SwitchToBuilt
  BY <1>7 DEF SwitchToCached, SwitchToBuilt
<1>8. CASE UNCHANGED vars
  BY <1>8 DEF vars, runtimeVars
<1> QED
  BY <1>3, <1>4, <1>5, <1>6, <1>7, <1>8 DEF Next

(* The end of a connection is never refused, whatever was reloaded or refused *)
(* since the connection was opened.                                           *)
THEOREM NeverRejected == Spec => GoingBackIsNeverRejected
<1>1. /\ SessionInv /\ RuntimeInv /\ [Next]_vars
      => [(rollback # None /\ activeProfiles \in RetainedSets)
          => (profileNames' = activeProfiles \/ rollback' # None)]_vars
  BY GoesBack
<1> QED
  BY <1>1, SessionSafety, SessionRuntimeInv, PTL DEF Spec, GoingBackIsNeverRejected
=============================================================================
