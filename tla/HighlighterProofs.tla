-------------------------- MODULE HighlighterProofs --------------------------
(***************************************************************************)
(* The highlighter of a stream, for every sequence of reads, every set of   *)
(* rules and every limit on what is held back: its state matches the        *)
(* terminal, and each byte shows as it was meant to.                        *)
(*                                                                         *)
(* Looking on is done item by item: Tracks says that the terminal and the   *)
(* one without highlights differ by the open highlight alone.  A call that   *)
(* began in one state has written some items when Fits holds of what it      *)
(* wrote: their classes in order (Keeping), tracked (Showing).  Draws is the *)
(* same of the highlighter, and each operator of the highlighter is shown to *)
(* lead from Draws to Draws with its own items added; Good is what a call    *)
(* may begin with and must end in.                                          *)
(***************************************************************************)
EXTENDS StreamingHighlighter, SequenceTheorems, FiniteSetTheorems, WellFoundedInduction, TLAPS

-----------------------------------------------------------------------------
(* Counting, and what is worked out in turn. *)

(* A set of numbers that is not empty has a least one. *)
LEMMA LeastNatural ==
  ASSUME NEW T \in SUBSET Nat, T # {}
  PROVE  \E n \in T : \A m \in T : n <= m
<1> DEFINE Less == {ss \in Nat \X Nat : ss[1] < ss[2]}
<1>1. IsWellFoundedOn(Less, Nat)
  BY NatLessThanWellFounded, Zenon DEF OpToRel
<1>4. ASSUME NEW a \in Nat, NEW b \in Nat, <<a, b>> \notin Less PROVE b <= a
  BY <1>4
<1> HIDE DEF Less
<1>2. PICK n \in T : \A m \in T : <<m, n>> \notin Less
  BY <1>1, WFMin
<1>3. \A m \in T : n <= m
  BY <1>2, <1>4
<1> QED
  BY <1>3

(* What holds at 0 and is passed on holds up to n. *)
LEMMA CountingUp ==
  ASSUME NEW n \in Nat, NEW S, 0 \in S, \A i \in 0 .. n : i < n /\ i \in S => i + 1 \in S
  PROVE  0 .. n \subseteq S
<1> DEFINE T == (0 .. n) \ S
<1>1. SUFFICES ASSUME T # {} PROVE FALSE
  OBVIOUS
<1>2. T \in SUBSET Nat
  OBVIOUS
<1>3. PICK m \in T : \A k \in T : m <= k
  BY <1>1, <1>2, LeastNatural
<1>4. m \in 0 .. n /\ m # 0
  BY <1>3
<1>5. m - 1 \in 0 .. n /\ m - 1 < n /\ m = (m - 1) + 1 /\ ~(m <= m - 1)
  BY <1>4
<1>6. m - 1 \in S
  BY <1>3, <1>5
<1> QED
  BY <1>3, <1>5, <1>6

(* What starts with a value and is worked on by one step after another. *)
Works(V, b, T, f, n) ==
  f \in [0 .. n -> V] /\ f[0] = b /\ \A k \in 1 .. n : f[k] = T[k][f[k - 1]]

(* A function of the naturals up to N that is given step by step exists. *)
LEMMA StepByStep ==
  ASSUME NEW N \in Nat, NEW V, NEW b \in V, NEW T \in [1 .. N -> [V -> V]]
  PROVE  \E f : Works(V, b, T, f, N)
<1> DEFINE Solves(f, n) == /\ f \in [0 .. n -> V] /\ f[0] = b
                           /\ \A k \in 1 .. n : f[k] = T[k][f[k - 1]]
           S == {n \in 0 .. N : \E f : Solves(f, n)}
<1>1. 0 \in S
  <2>1. Solves([k \in 0 .. 0 |-> b], 0)
    OBVIOUS
  <2> HIDE DEF Solves
  <2> QED
    BY <2>1
<1>2. ASSUME NEW n \in 0 .. N, n < N, n \in S PROVE n + 1 \in S
  <2>1. PICK f : Solves(f, n)
    BY <1>2
  <2> DEFINE v == T[n + 1][f[n]]
             g == [k \in 0 .. (n + 1) |-> IF k = n + 1 THEN v ELSE f[k]]
  <2>2. n + 1 \in 1 .. N /\ n \in 0 .. n /\ n + 1 \in 0 .. N
    BY <1>2
  <2>3. v \in V
    BY <2>1, <2>2
  <2> HIDE DEF v
  <2>4. g \in [0 .. (n + 1) -> V]
    <3>1. \A k \in 0 .. (n + 1) : k # n + 1 => k \in 0 .. n
      OBVIOUS
    <3> QED
      BY <2>1, <2>3, <3>1
  <2>5. g[0] = b
    BY <2>1
  <2>6. ASSUME NEW k \in 1 .. (n + 1) PROVE g[k] = T[k][g[k - 1]]
    <3>1. k - 1 \in 0 .. (n + 1) /\ k - 1 # n + 1 /\ k \in 0 .. (n + 1)
      OBVIOUS
    <3>2. g[k - 1] = f[k - 1]
      BY <3>1
    <3>3. CASE k = n + 1
      <4>1. k - 1 = n /\ g[k] = v
        BY <3>3
      <4> HIDE DEF g
      <4> QED
        BY <3>2, <3>3, <4>1 DEF v
    <3>4. CASE k # n + 1
      <4>1. k \in 1 .. n /\ g[k] = f[k]
        BY <3>1, <3>4
      <4> HIDE DEF g
      <4> QED
        BY <2>1, <3>2, <4>1
    <3> QED
      BY <3>3, <3>4
  <2>7. Solves(g, n + 1)
    <3> HIDE DEF g
    <3> QED
      BY <2>4, <2>5, <2>6
  <2> HIDE DEF Solves, g
  <2> QED
    BY <2>2, <2>7
<1>3. N \in S
  <2> HIDE DEF S
  <2>1. 0 .. N \subseteq S
    BY <1>1, <1>2, CountingUp
  <2> QED
    BY <2>1
<1> QED
  BY <1>3 DEF Works

(* A sequence is empty or ends with an element; a set of sequences that has the *)
(* empty one and each of its own with one more element has them all.         *)
LEMMA EachSequence ==
  ASSUME NEW X, NEW P, <<>> \in P, \A s \in Seq(X), x \in X : s \in P => Append(s, x) \in P
  PROVE  Seq(X) \subseteq P
<1>1. SUFFICES ASSUME NEW t \in Seq(X) PROVE t \in P
  OBVIOUS
<1> DEFINE S == {n \in Nat : \A s \in Seq(X) : Len(s) = n => s \in P}
<1>2. 0 \in S
  BY EmptySeq
<1>3. ASSUME NEW n \in 0 .. Len(t), n < Len(t), n \in S PROVE n + 1 \in S
  <2>1. ASSUME NEW s \in Seq(X), Len(s) = n + 1 PROVE s \in P
    <3>1. s # <<>>
      BY <2>1, LenProperties
    <3>2. PICK f \in Seq(X), x \in X : s = Append(f, x)
      BY <3>1, SequenceEmptyOrAppend
    <3>3. Len(f) = n
      BY <2>1, <3>2, AppendProperties, LenProperties
    <3> QED
      BY <1>3, <3>2, <3>3
  <2> QED
    BY <2>1
<1>4. 0 .. Len(t) \subseteq S
  <2> HIDE DEF S
  <2>1. Len(t) \in Nat
    BY <1>1, LenProperties
  <2> QED
    BY <1>2, <1>3, <2>1, CountingUp
<1> QED
  BY <1>4, LenProperties

(* The step for each element of a sequence. *)
Along(F, s) == [k \in 1 .. Len(s) |-> F[s[k]]]

(* v is what the steps F make of b, one for each element of s. *)
Folds(V, F, b, s, v) ==
  \E g : /\ Works(V, b, Along(F, s), g, Len(s)) /\ v = g[Len(s)]

(* What works its way through the steps, and one that does so while it is     *)
(* within V, agree.                                                         *)
LEMMA WaysAgree ==
  ASSUME NEW N \in Nat, NEW V, NEW b \in V, NEW T \in [1 .. N -> [V -> V]], NEW g,
         Works(V, b, T, g, N), NEW f, f[0] = b,
         \A k \in 1 .. N : f[k - 1] \in V => f[k] = T[k][f[k - 1]]
  PROVE  \A n \in 0 .. N : f[n] = g[n] /\ f[n] \in V
<1> DEFINE S == {n \in 0 .. N : f[n] = g[n] /\ f[n] \in V}
<1>1. g \in [0 .. N -> V] /\ g[0] = b /\ \A k \in 1 .. N : g[k] = T[k][g[k - 1]]
  BY DEF Works
<1>2. 0 \in S
  BY <1>1
<1>3. ASSUME NEW n \in 0 .. N, n < N, n \in S PROVE n + 1 \in S
  <2>1. n + 1 \in 1 .. N /\ n + 1 \in 0 .. N /\ (n + 1) - 1 = n
    BY <1>3
  <2>2. f[n + 1] = T[n + 1][f[n]] /\ g[n + 1] = T[n + 1][g[n]]
    BY <1>1, <1>3, <2>1
  <2> QED
    BY <1>1, <1>3, <2>1, <2>2
<1>4. 0 .. N \subseteq S
  <2> HIDE DEF S
  <2> QED
    BY <1>2, <1>3, CountingUp
<1> QED
  BY <1>4

(* The steps of a sequence. *)
LEMMA StepsOf ==
  ASSUME NEW X, NEW V, NEW F \in [X -> [V -> V]], NEW s \in Seq(X)
  PROVE  /\ Along(F, s) \in [1 .. Len(s) -> [V -> V]]
         /\ \A k \in 1 .. Len(s) : Along(F, s)[k] = F[s[k]]
         /\ Len(s) \in Nat
<1>1. Len(s) \in Nat /\ \A k \in 1 .. Len(s) : s[k] \in X
  BY LenProperties, ElementOfSeq
<1> QED
  BY <1>1 DEF Along

(* There is a value, and it is what a function gives that follows the steps. *)
LEMMA FoldExists ==
  ASSUME NEW X, NEW V, NEW b \in V, NEW F \in [X -> [V -> V]], NEW s \in Seq(X)
  PROVE  \E g : Works(V, b, Along(F, s), g, Len(s))
<1> QED
  BY StepsOf, StepByStep

(* What a function that follows the steps comes to.                        *)
LEMMA FoldIs ==
  ASSUME NEW X, NEW V, NEW b \in V, NEW F \in [X -> [V -> V]], NEW s \in Seq(X),
         NEW f, f[0] = b,
         \A k \in 1 .. Len(s) : f[k - 1] \in V => f[k] = F[s[k]][f[k - 1]]
  PROVE  Folds(V, F, b, s, f[Len(s)])
<1> DEFINE T == Along(F, s)
           N == Len(s)
<1>1. /\ T \in [1 .. N -> [V -> V]]
      /\ \A k \in 1 .. N : T[k] = F[s[k]]
      /\ N \in Nat
  BY StepsOf, Zenon
<1>2. PICK g : Works(V, b, T, g, N)
  BY FoldExists
<1>3. \A k \in 1 .. N : f[k - 1] \in V => f[k] = T[k][f[k - 1]]
  BY <1>1
<1> HIDE DEF T
<1>4. f[N] = g[N]
  <2> HIDE DEF N
  <2>1. \A n \in 0 .. N : f[n] = g[n]
    BY <1>1, <1>2, <1>3, WaysAgree
  <2> QED
    BY <1>1, <2>1
<1> QED
  BY <1>2, <1>4 DEF Folds, T

(* The value for no elements, and for one more. *)
LEMMA FoldFacts ==
  ASSUME NEW X, NEW V, NEW b \in V, NEW F \in [X -> [V -> V]]
  PROVE  /\ \A v : Folds(V, F, b, <<>>, v) => v = b
         /\ \A s, v : s \in Seq(X) /\ Folds(V, F, b, s, v) => v \in V
         /\ \A s, x, u, v : /\ s \in Seq(X) /\ x \in X
                            /\ Folds(V, F, b, s, u) /\ Folds(V, F, b, Append(s, x), v)
                            => v = F[x][u]
<1>1. ASSUME NEW v, Folds(V, F, b, <<>>, v) PROVE v = b
  BY <1>1 DEF Folds, Works
<1>2. ASSUME NEW s \in Seq(X), NEW v, Folds(V, F, b, s, v) PROVE v \in V
  BY <1>2, LenProperties DEF Folds, Works
<1>3. ASSUME NEW s \in Seq(X), NEW x \in X, NEW u, NEW v,
             Folds(V, F, b, s, u), Folds(V, F, b, Append(s, x), v)
      PROVE  v = F[x][u]
  <2> DEFINE N == Len(s)
             t == Append(s, x)
             T == Along(F, s)
             Q == Along(F, t)
  <2>1. t \in Seq(X) /\ Len(t) = N + 1 /\ t[N + 1] = x /\ \A i \in 1 .. N : t[i] = s[i]
    BY AppendProperties
  <2>2. /\ T \in [1 .. N -> [V -> V]]
        /\ \A k \in 1 .. N : T[k] = F[s[k]]
        /\ N \in Nat
    BY StepsOf, Zenon
  <2>11. \A k \in 1 .. N + 1 : Q[k] = F[t[k]]
    <3>1. /\ Q \in [1 .. Len(t) -> [V -> V]]
          /\ \A k \in 1 .. Len(t) : Q[k] = F[t[k]]
          /\ Len(t) \in Nat
      BY <2>1, StepsOf, Zenon
    <3> QED
      BY <2>1, <3>1
  <2>3. PICK g : Works(V, b, T, g, N) /\ u = g[N]
    BY <1>3 DEF Folds
  <2>4. PICK f : Works(V, b, Q, f, N + 1) /\ v = f[N + 1]
    BY <1>3, <2>1 DEF Folds
  <2>5. \A k \in 1 .. N : Q[k] = T[k]
    BY <2>1, <2>2, <2>11
  <2>6. Q[N + 1] = F[x]
    BY <2>1, <2>2, <2>11
  <2> HIDE DEF N, t, T, Q
  <2>7. f[0] = b /\ \A k \in 1 .. N + 1 : f[k] = Q[k][f[k - 1]]
    BY <2>4 DEF Works
  <2>8. \A k \in 1 .. N : f[k] = T[k][f[k - 1]]
    BY <2>2, <2>5, <2>7
  <2>9. f[N] = g[N]
    <3>1. \A k \in 1 .. N : f[k - 1] \in V => f[k] = T[k][f[k - 1]]
      BY <2>8
    <3>2. \A n \in 0 .. N : f[n] = g[n] /\ f[n] \in V
      BY <2>2, <2>3, <2>7, <3>1, WaysAgree, Zenon
    <3> QED
      BY <2>2, <3>2
  <2>10. N + 1 \in 1 .. N + 1 /\ (N + 1) - 1 = N
    BY <2>2
  <2> QED
    BY <2>3, <2>4, <2>6, <2>7, <2>9, <2>10
<1> QED
  BY <1>1, <1>2, <1>3

(* A line followed, a token collected, segments and pieces written in turn. *)
Followed(s, items) == InTurn(FollowByte, s, items)
Collected(now, items) == InTurn(Token, now, items)
Segmented(s, pieces) == InTurn(Segment, s, pieces)
Pushed(s, pieces) == InTurn(PushPiece, s, pieces)

(* The tracked rendition, item by item. *)
LEMMA ApplyFolds ==
  ASSUME NEW X, NEW V, NEW b \in V,
         \A v \in V, x \in X : Apply(v, x) \in V
  PROVE  /\ ApplyAll(b, <<>>) = b
         /\ \A s \in Seq(X) : ApplyAll(b, s) \in V
         /\ \A s \in Seq(X), x \in X :
              ApplyAll(b, Append(s, x)) =
                Apply(ApplyAll(b, s), x)
<1> DEFINE R(s) == ApplyAll(b, s)
           F == [x \in X |-> [v \in V |-> Apply(v, x)]]
           Way(f, s) == f = [i \in 0 .. Len(s) |->
                               IF i = 0 THEN b ELSE Apply(f[i - 1], s[i])]
           G(s) == CHOOSE f : Way(f, s)
<1>1. F \in [X -> [V -> V]]
  OBVIOUS
<1>2. \A x \in X, v \in V : F[x][v] = Apply(v, x)
  OBVIOUS
<1>3. \A s : R(s) = G(s)[Len(s)]
  BY DEF ApplyAll, InTurn
<1> HIDE DEF F, R
<1>4. ASSUME NEW s \in Seq(X) PROVE Folds(V, F, b, s, R(s))
  <2>1. Len(s) \in Nat /\ \A k \in 1 .. Len(s) : s[k] \in X
    BY LenProperties, ElementOfSeq
  <2>2. PICK g : Works(V, b, Along(F, s), g, Len(s))
    BY <1>1, FoldExists
  <2>3. g \in [0 .. Len(s) -> V] /\ g[0] = b /\ \A k \in 1 .. Len(s) : g[k] = F[s[k]][g[k - 1]]
    <3>1. /\ Along(F, s) \in [1 .. Len(s) -> [V -> V]]
          /\ \A k \in 1 .. Len(s) : Along(F, s)[k] = F[s[k]]
          /\ Len(s) \in Nat
      BY <1>1, StepsOf, Zenon
    <3> QED
      BY <2>2, <3>1 DEF Works
  <2>4. Way(g, s)
    <3>1. \A k \in 1 .. Len(s) : k - 1 \in 0 .. Len(s)
      BY <2>1
    <3>2. \A k \in 1 .. Len(s) : g[k] = Apply(g[k - 1], s[k])
      BY <1>2, <2>1, <2>3, <3>1
    <3> QED
      BY <2>1, <2>3, <3>2
  <2>5. Way(G(s), s)
    <3> HIDE DEF Way
    <3> QED
      BY <2>4
  <2> HIDE DEF G
  <2>6. \A i \in 0 .. Len(s) : G(s)[i] = IF i = 0 THEN b ELSE Apply(G(s)[i - 1], s[i])
    BY <2>5
  <2>7. G(s)[0] = b
    BY <2>1, <2>6
  <2>8. \A k \in 1 .. Len(s) : G(s)[k - 1] \in V => G(s)[k] = F[s[k]][G(s)[k - 1]]
    BY <1>2, <2>1, <2>6
  <2> HIDE DEF Way
  <2>9. Folds(V, F, b, s, G(s)[Len(s)])
    BY <1>1, <2>7, <2>8, FoldIs
  <2> QED
    BY <1>3, <2>9
<1>5. R(<<>>) = b
  BY <1>1, <1>4, EmptySeq, FoldFacts
<1>6. \A s \in Seq(X) : R(s) \in V
  BY <1>1, <1>4, FoldFacts
<1>7. ASSUME NEW s \in Seq(X), NEW x \in X PROVE R(Append(s, x)) = Apply(R(s), x)
  <2>1. Append(s, x) \in Seq(X)
    BY AppendProperties
  <2>2. R(Append(s, x)) = F[x][R(s)]
    BY <1>1, <1>4, <2>1, FoldFacts
  <2> QED
    BY <1>2, <1>6, <2>2
<1> QED
  BY <1>5, <1>6, <1>7 DEF R

(* What is written without its SGR, item by item. *)
LEMMA KeepClassFolds ==
  ASSUME NEW X, NEW V, NEW b \in V,
         \A v \in V, x \in X : KeepClass(v, x) \in V
  PROVE  /\ InTurn(KeepClass, b, <<>>) = b
         /\ \A s \in Seq(X) : InTurn(KeepClass, b, s) \in V
         /\ \A s \in Seq(X), x \in X :
              InTurn(KeepClass, b, Append(s, x)) =
                KeepClass(InTurn(KeepClass, b, s), x)
<1> DEFINE R(s) == InTurn(KeepClass, b, s)
           F == [x \in X |-> [v \in V |-> KeepClass(v, x)]]
           Way(f, s) == f = [i \in 0 .. Len(s) |->
                               IF i = 0 THEN b ELSE KeepClass(f[i - 1], s[i])]
           G(s) == CHOOSE f : Way(f, s)
<1>1. F \in [X -> [V -> V]]
  OBVIOUS
<1>2. \A x \in X, v \in V : F[x][v] = KeepClass(v, x)
  OBVIOUS
<1>3. \A s : R(s) = G(s)[Len(s)]
  BY DEF InTurn
<1> HIDE DEF F, R
<1>4. ASSUME NEW s \in Seq(X) PROVE Folds(V, F, b, s, R(s))
  <2>1. Len(s) \in Nat /\ \A k \in 1 .. Len(s) : s[k] \in X
    BY LenProperties, ElementOfSeq
  <2>2. PICK g : Works(V, b, Along(F, s), g, Len(s))
    BY <1>1, FoldExists
  <2>3. g \in [0 .. Len(s) -> V] /\ g[0] = b /\ \A k \in 1 .. Len(s) : g[k] = F[s[k]][g[k - 1]]
    <3>1. /\ Along(F, s) \in [1 .. Len(s) -> [V -> V]]
          /\ \A k \in 1 .. Len(s) : Along(F, s)[k] = F[s[k]]
          /\ Len(s) \in Nat
      BY <1>1, StepsOf, Zenon
    <3> QED
      BY <2>2, <3>1 DEF Works
  <2>4. Way(g, s)
    <3>1. \A k \in 1 .. Len(s) : k - 1 \in 0 .. Len(s)
      BY <2>1
    <3>2. \A k \in 1 .. Len(s) : g[k] = KeepClass(g[k - 1], s[k])
      BY <1>2, <2>1, <2>3, <3>1
    <3> QED
      BY <2>1, <2>3, <3>2
  <2>5. Way(G(s), s)
    <3> HIDE DEF Way
    <3> QED
      BY <2>4
  <2> HIDE DEF G
  <2>6. \A i \in 0 .. Len(s) : G(s)[i] = IF i = 0 THEN b ELSE KeepClass(G(s)[i - 1], s[i])
    BY <2>5
  <2>7. G(s)[0] = b
    BY <2>1, <2>6
  <2>8. \A k \in 1 .. Len(s) : G(s)[k - 1] \in V => G(s)[k] = F[s[k]][G(s)[k - 1]]
    BY <1>2, <2>1, <2>6
  <2> HIDE DEF Way
  <2>9. Folds(V, F, b, s, G(s)[Len(s)])
    BY <1>1, <2>7, <2>8, FoldIs
  <2> QED
    BY <1>3, <2>9
<1>5. R(<<>>) = b
  BY <1>1, <1>4, EmptySeq, FoldFacts
<1>6. \A s \in Seq(X) : R(s) \in V
  BY <1>1, <1>4, FoldFacts
<1>7. ASSUME NEW s \in Seq(X), NEW x \in X PROVE R(Append(s, x)) = KeepClass(R(s), x)
  <2>1. Append(s, x) \in Seq(X)
    BY AppendProperties
  <2>2. R(Append(s, x)) = F[x][R(s)]
    BY <1>1, <1>4, <2>1, FoldFacts
  <2> QED
    BY <1>2, <1>6, <2>2
<1> QED
  BY <1>5, <1>6, <1>7 DEF R

(* The mark of an edit, item by item. *)
LEMMA RewritesFolds ==
  ASSUME NEW X, NEW V, NEW b \in V,
         \A v \in V, x \in X : Rewrites(v, x) \in V
  PROVE  /\ InTurn(Rewrites, b, <<>>) = b
         /\ \A s \in Seq(X) : InTurn(Rewrites, b, s) \in V
         /\ \A s \in Seq(X), x \in X :
              InTurn(Rewrites, b, Append(s, x)) =
                Rewrites(InTurn(Rewrites, b, s), x)
<1> DEFINE R(s) == InTurn(Rewrites, b, s)
           F == [x \in X |-> [v \in V |-> Rewrites(v, x)]]
           Way(f, s) == f = [i \in 0 .. Len(s) |->
                               IF i = 0 THEN b ELSE Rewrites(f[i - 1], s[i])]
           G(s) == CHOOSE f : Way(f, s)
<1>1. F \in [X -> [V -> V]]
  OBVIOUS
<1>2. \A x \in X, v \in V : F[x][v] = Rewrites(v, x)
  OBVIOUS
<1>3. \A s : R(s) = G(s)[Len(s)]
  BY DEF InTurn
<1> HIDE DEF F, R
<1>4. ASSUME NEW s \in Seq(X) PROVE Folds(V, F, b, s, R(s))
  <2>1. Len(s) \in Nat /\ \A k \in 1 .. Len(s) : s[k] \in X
    BY LenProperties, ElementOfSeq
  <2>2. PICK g : Works(V, b, Along(F, s), g, Len(s))
    BY <1>1, FoldExists
  <2>3. g \in [0 .. Len(s) -> V] /\ g[0] = b /\ \A k \in 1 .. Len(s) : g[k] = F[s[k]][g[k - 1]]
    <3>1. /\ Along(F, s) \in [1 .. Len(s) -> [V -> V]]
          /\ \A k \in 1 .. Len(s) : Along(F, s)[k] = F[s[k]]
          /\ Len(s) \in Nat
      BY <1>1, StepsOf, Zenon
    <3> QED
      BY <2>2, <3>1 DEF Works
  <2>4. Way(g, s)
    <3>1. \A k \in 1 .. Len(s) : k - 1 \in 0 .. Len(s)
      BY <2>1
    <3>2. \A k \in 1 .. Len(s) : g[k] = Rewrites(g[k - 1], s[k])
      BY <1>2, <2>1, <2>3, <3>1
    <3> QED
      BY <2>1, <2>3, <3>2
  <2>5. Way(G(s), s)
    <3> HIDE DEF Way
    <3> QED
      BY <2>4
  <2> HIDE DEF G
  <2>6. \A i \in 0 .. Len(s) : G(s)[i] = IF i = 0 THEN b ELSE Rewrites(G(s)[i - 1], s[i])
    BY <2>5
  <2>7. G(s)[0] = b
    BY <2>1, <2>6
  <2>8. \A k \in 1 .. Len(s) : G(s)[k - 1] \in V => G(s)[k] = F[s[k]][G(s)[k - 1]]
    BY <1>2, <2>1, <2>6
  <2> HIDE DEF Way
  <2>9. Folds(V, F, b, s, G(s)[Len(s)])
    BY <1>1, <2>7, <2>8, FoldIs
  <2> QED
    BY <1>3, <2>9
<1>5. R(<<>>) = b
  BY <1>1, <1>4, EmptySeq, FoldFacts
<1>6. \A s \in Seq(X) : R(s) \in V
  BY <1>1, <1>4, FoldFacts
<1>7. ASSUME NEW s \in Seq(X), NEW x \in X PROVE R(Append(s, x)) = Rewrites(R(s), x)
  <2>1. Append(s, x) \in Seq(X)
    BY AppendProperties
  <2>2. R(Append(s, x)) = F[x][R(s)]
    BY <1>1, <1>4, <2>1, FoldFacts
  <2> QED
    BY <1>2, <1>6, <2>2
<1> QED
  BY <1>5, <1>6, <1>7 DEF R

(* The line, item by item. *)
LEMMA FollowByteFolds ==
  ASSUME NEW X, NEW V, NEW b \in V,
         \A v \in V, x \in X : FollowByte(v, x) \in V
  PROVE  /\ Followed(b, <<>>) = b
         /\ \A s \in Seq(X) : Followed(b, s) \in V
         /\ \A s \in Seq(X), x \in X :
              Followed(b, Append(s, x)) =
                FollowByte(Followed(b, s), x)
<1> DEFINE R(s) == Followed(b, s)
           F == [x \in X |-> [v \in V |-> FollowByte(v, x)]]
           Way(f, s) == f = [i \in 0 .. Len(s) |->
                               IF i = 0 THEN b ELSE FollowByte(f[i - 1], s[i])]
           G(s) == CHOOSE f : Way(f, s)
<1>1. F \in [X -> [V -> V]]
  OBVIOUS
<1>2. \A x \in X, v \in V : F[x][v] = FollowByte(v, x)
  OBVIOUS
<1>3. \A s : R(s) = G(s)[Len(s)]
  BY DEF Followed, InTurn
<1> HIDE DEF F, R
<1>4. ASSUME NEW s \in Seq(X) PROVE Folds(V, F, b, s, R(s))
  <2>1. Len(s) \in Nat /\ \A k \in 1 .. Len(s) : s[k] \in X
    BY LenProperties, ElementOfSeq
  <2>2. PICK g : Works(V, b, Along(F, s), g, Len(s))
    BY <1>1, FoldExists
  <2>3. g \in [0 .. Len(s) -> V] /\ g[0] = b /\ \A k \in 1 .. Len(s) : g[k] = F[s[k]][g[k - 1]]
    <3>1. /\ Along(F, s) \in [1 .. Len(s) -> [V -> V]]
          /\ \A k \in 1 .. Len(s) : Along(F, s)[k] = F[s[k]]
          /\ Len(s) \in Nat
      BY <1>1, StepsOf, Zenon
    <3> QED
      BY <2>2, <3>1 DEF Works
  <2>4. Way(g, s)
    <3>1. \A k \in 1 .. Len(s) : k - 1 \in 0 .. Len(s)
      BY <2>1
    <3>2. \A k \in 1 .. Len(s) : g[k] = FollowByte(g[k - 1], s[k])
      BY <1>2, <2>1, <2>3, <3>1
    <3> QED
      BY <2>1, <2>3, <3>2
  <2>5. Way(G(s), s)
    <3> HIDE DEF Way
    <3> QED
      BY <2>4
  <2> HIDE DEF G
  <2>6. \A i \in 0 .. Len(s) : G(s)[i] = IF i = 0 THEN b ELSE FollowByte(G(s)[i - 1], s[i])
    BY <2>5
  <2>7. G(s)[0] = b
    BY <2>1, <2>6
  <2>8. \A k \in 1 .. Len(s) : G(s)[k - 1] \in V => G(s)[k] = F[s[k]][G(s)[k - 1]]
    BY <1>2, <2>1, <2>6
  <2> HIDE DEF Way
  <2>9. Folds(V, F, b, s, G(s)[Len(s)])
    BY <1>1, <2>7, <2>8, FoldIs
  <2> QED
    BY <1>3, <2>9
<1>5. R(<<>>) = b
  BY <1>1, <1>4, EmptySeq, FoldFacts
<1>6. \A s \in Seq(X) : R(s) \in V
  BY <1>1, <1>4, FoldFacts
<1>7. ASSUME NEW s \in Seq(X), NEW x \in X PROVE R(Append(s, x)) = FollowByte(R(s), x)
  <2>1. Append(s, x) \in Seq(X)
    BY AppendProperties
  <2>2. R(Append(s, x)) = F[x][R(s)]
    BY <1>1, <1>4, <2>1, FoldFacts
  <2> QED
    BY <1>2, <1>6, <2>2
<1> QED
  BY <1>5, <1>6, <1>7 DEF R

(* What is highlighted, item by item. *)
LEMMA TokenFolds ==
  ASSUME NEW X, NEW V, NEW b \in V,
         \A v \in V, x \in X : Token(v, x) \in V
  PROVE  /\ Collected(b, <<>>) = b
         /\ \A s \in Seq(X) : Collected(b, s) \in V
         /\ \A s \in Seq(X), x \in X :
              Collected(b, Append(s, x)) =
                Token(Collected(b, s), x)
<1> DEFINE R(s) == Collected(b, s)
           F == [x \in X |-> [v \in V |-> Token(v, x)]]
           Way(f, s) == f = [i \in 0 .. Len(s) |->
                               IF i = 0 THEN b ELSE Token(f[i - 1], s[i])]
           G(s) == CHOOSE f : Way(f, s)
<1>1. F \in [X -> [V -> V]]
  OBVIOUS
<1>2. \A x \in X, v \in V : F[x][v] = Token(v, x)
  OBVIOUS
<1>3. \A s : R(s) = G(s)[Len(s)]
  BY DEF Collected, InTurn
<1> HIDE DEF F, R
<1>4. ASSUME NEW s \in Seq(X) PROVE Folds(V, F, b, s, R(s))
  <2>1. Len(s) \in Nat /\ \A k \in 1 .. Len(s) : s[k] \in X
    BY LenProperties, ElementOfSeq
  <2>2. PICK g : Works(V, b, Along(F, s), g, Len(s))
    BY <1>1, FoldExists
  <2>3. g \in [0 .. Len(s) -> V] /\ g[0] = b /\ \A k \in 1 .. Len(s) : g[k] = F[s[k]][g[k - 1]]
    <3>1. /\ Along(F, s) \in [1 .. Len(s) -> [V -> V]]
          /\ \A k \in 1 .. Len(s) : Along(F, s)[k] = F[s[k]]
          /\ Len(s) \in Nat
      BY <1>1, StepsOf, Zenon
    <3> QED
      BY <2>2, <3>1 DEF Works
  <2>4. Way(g, s)
    <3>1. \A k \in 1 .. Len(s) : k - 1 \in 0 .. Len(s)
      BY <2>1
    <3>2. \A k \in 1 .. Len(s) : g[k] = Token(g[k - 1], s[k])
      BY <1>2, <2>1, <2>3, <3>1
    <3> QED
      BY <2>1, <2>3, <3>2
  <2>5. Way(G(s), s)
    <3> HIDE DEF Way
    <3> QED
      BY <2>4
  <2> HIDE DEF G
  <2>6. \A i \in 0 .. Len(s) : G(s)[i] = IF i = 0 THEN b ELSE Token(G(s)[i - 1], s[i])
    BY <2>5
  <2>7. G(s)[0] = b
    BY <2>1, <2>6
  <2>8. \A k \in 1 .. Len(s) : G(s)[k - 1] \in V => G(s)[k] = F[s[k]][G(s)[k - 1]]
    BY <1>2, <2>1, <2>6
  <2> HIDE DEF Way
  <2>9. Folds(V, F, b, s, G(s)[Len(s)])
    BY <1>1, <2>7, <2>8, FoldIs
  <2> QED
    BY <1>3, <2>9
<1>5. R(<<>>) = b
  BY <1>1, <1>4, EmptySeq, FoldFacts
<1>6. \A s \in Seq(X) : R(s) \in V
  BY <1>1, <1>4, FoldFacts
<1>7. ASSUME NEW s \in Seq(X), NEW x \in X PROVE R(Append(s, x)) = Token(R(s), x)
  <2>1. Append(s, x) \in Seq(X)
    BY AppendProperties
  <2>2. R(Append(s, x)) = F[x][R(s)]
    BY <1>1, <1>4, <2>1, FoldFacts
  <2> QED
    BY <1>2, <1>6, <2>2
<1> QED
  BY <1>5, <1>6, <1>7 DEF R

(* The lines of a chunk, one by one. *)
LEMMA SegmentFolds ==
  ASSUME NEW X, NEW V, NEW b \in V,
         \A v \in V, x \in X : Segment(v, x) \in V
  PROVE  /\ Segmented(b, <<>>) = b
         /\ \A s \in Seq(X) : Segmented(b, s) \in V
         /\ \A s \in Seq(X), x \in X :
              Segmented(b, Append(s, x)) =
                Segment(Segmented(b, s), x)
<1> DEFINE R(s) == Segmented(b, s)
           F == [x \in X |-> [v \in V |-> Segment(v, x)]]
           Way(f, s) == f = [i \in 0 .. Len(s) |->
                               IF i = 0 THEN b ELSE Segment(f[i - 1], s[i])]
           G(s) == CHOOSE f : Way(f, s)
<1>1. F \in [X -> [V -> V]]
  OBVIOUS
<1>2. \A x \in X, v \in V : F[x][v] = Segment(v, x)
  OBVIOUS
<1>3. \A s : R(s) = G(s)[Len(s)]
  BY DEF Segmented, InTurn
<1> HIDE DEF F, R
<1>4. ASSUME NEW s \in Seq(X) PROVE Folds(V, F, b, s, R(s))
  <2>1. Len(s) \in Nat /\ \A k \in 1 .. Len(s) : s[k] \in X
    BY LenProperties, ElementOfSeq
  <2>2. PICK g : Works(V, b, Along(F, s), g, Len(s))
    BY <1>1, FoldExists
  <2>3. g \in [0 .. Len(s) -> V] /\ g[0] = b /\ \A k \in 1 .. Len(s) : g[k] = F[s[k]][g[k - 1]]
    <3>1. /\ Along(F, s) \in [1 .. Len(s) -> [V -> V]]
          /\ \A k \in 1 .. Len(s) : Along(F, s)[k] = F[s[k]]
          /\ Len(s) \in Nat
      BY <1>1, StepsOf, Zenon
    <3> QED
      BY <2>2, <3>1 DEF Works
  <2>4. Way(g, s)
    <3>1. \A k \in 1 .. Len(s) : k - 1 \in 0 .. Len(s)
      BY <2>1
    <3>2. \A k \in 1 .. Len(s) : g[k] = Segment(g[k - 1], s[k])
      BY <1>2, <2>1, <2>3, <3>1
    <3> QED
      BY <2>1, <2>3, <3>2
  <2>5. Way(G(s), s)
    <3> HIDE DEF Way
    <3> QED
      BY <2>4
  <2> HIDE DEF G
  <2>6. \A i \in 0 .. Len(s) : G(s)[i] = IF i = 0 THEN b ELSE Segment(G(s)[i - 1], s[i])
    BY <2>5
  <2>7. G(s)[0] = b
    BY <2>1, <2>6
  <2>8. \A k \in 1 .. Len(s) : G(s)[k - 1] \in V => G(s)[k] = F[s[k]][G(s)[k - 1]]
    BY <1>2, <2>1, <2>6
  <2> HIDE DEF Way
  <2>9. Folds(V, F, b, s, G(s)[Len(s)])
    BY <1>1, <2>7, <2>8, FoldIs
  <2> QED
    BY <1>3, <2>9
<1>5. R(<<>>) = b
  BY <1>1, <1>4, EmptySeq, FoldFacts
<1>6. \A s \in Seq(X) : R(s) \in V
  BY <1>1, <1>4, FoldFacts
<1>7. ASSUME NEW s \in Seq(X), NEW x \in X PROVE R(Append(s, x)) = Segment(R(s), x)
  <2>1. Append(s, x) \in Seq(X)
    BY AppendProperties
  <2>2. R(Append(s, x)) = F[x][R(s)]
    BY <1>1, <1>4, <2>1, FoldFacts
  <2> QED
    BY <1>2, <1>6, <2>2
<1> QED
  BY <1>5, <1>6, <1>7 DEF R

(* The lines of a read, one by one. *)
LEMMA PushPieceFolds ==
  ASSUME NEW X, NEW V, NEW b \in V,
         \A v \in V, x \in X : PushPiece(v, x) \in V
  PROVE  /\ Pushed(b, <<>>) = b
         /\ \A s \in Seq(X) : Pushed(b, s) \in V
         /\ \A s \in Seq(X), x \in X :
              Pushed(b, Append(s, x)) =
                PushPiece(Pushed(b, s), x)
<1> DEFINE R(s) == Pushed(b, s)
           F == [x \in X |-> [v \in V |-> PushPiece(v, x)]]
           Way(f, s) == f = [i \in 0 .. Len(s) |->
                               IF i = 0 THEN b ELSE PushPiece(f[i - 1], s[i])]
           G(s) == CHOOSE f : Way(f, s)
<1>1. F \in [X -> [V -> V]]
  OBVIOUS
<1>2. \A x \in X, v \in V : F[x][v] = PushPiece(v, x)
  OBVIOUS
<1>3. \A s : R(s) = G(s)[Len(s)]
  BY DEF Pushed, InTurn
<1> HIDE DEF F, R
<1>4. ASSUME NEW s \in Seq(X) PROVE Folds(V, F, b, s, R(s))
  <2>1. Len(s) \in Nat /\ \A k \in 1 .. Len(s) : s[k] \in X
    BY LenProperties, ElementOfSeq
  <2>2. PICK g : Works(V, b, Along(F, s), g, Len(s))
    BY <1>1, FoldExists
  <2>3. g \in [0 .. Len(s) -> V] /\ g[0] = b /\ \A k \in 1 .. Len(s) : g[k] = F[s[k]][g[k - 1]]
    <3>1. /\ Along(F, s) \in [1 .. Len(s) -> [V -> V]]
          /\ \A k \in 1 .. Len(s) : Along(F, s)[k] = F[s[k]]
          /\ Len(s) \in Nat
      BY <1>1, StepsOf, Zenon
    <3> QED
      BY <2>2, <3>1 DEF Works
  <2>4. Way(g, s)
    <3>1. \A k \in 1 .. Len(s) : k - 1 \in 0 .. Len(s)
      BY <2>1
    <3>2. \A k \in 1 .. Len(s) : g[k] = PushPiece(g[k - 1], s[k])
      BY <1>2, <2>1, <2>3, <3>1
    <3> QED
      BY <2>1, <2>3, <3>2
  <2>5. Way(G(s), s)
    <3> HIDE DEF Way
    <3> QED
      BY <2>4
  <2> HIDE DEF G
  <2>6. \A i \in 0 .. Len(s) : G(s)[i] = IF i = 0 THEN b ELSE PushPiece(G(s)[i - 1], s[i])
    BY <2>5
  <2>7. G(s)[0] = b
    BY <2>1, <2>6
  <2>8. \A k \in 1 .. Len(s) : G(s)[k - 1] \in V => G(s)[k] = F[s[k]][G(s)[k - 1]]
    BY <1>2, <2>1, <2>6
  <2> HIDE DEF Way
  <2>9. Folds(V, F, b, s, G(s)[Len(s)])
    BY <1>1, <2>7, <2>8, FoldIs
  <2> QED
    BY <1>3, <2>9
<1>5. R(<<>>) = b
  BY <1>1, <1>4, EmptySeq, FoldFacts
<1>6. \A s \in Seq(X) : R(s) \in V
  BY <1>1, <1>4, FoldFacts
<1>7. ASSUME NEW s \in Seq(X), NEW x \in X PROVE R(Append(s, x)) = PushPiece(R(s), x)
  <2>1. Append(s, x) \in Seq(X)
    BY AppendProperties
  <2>2. R(Append(s, x)) = F[x][R(s)]
    BY <1>1, <1>4, <2>1, FoldFacts
  <2> QED
    BY <1>2, <1>6, <2>2
<1> QED
  BY <1>5, <1>6, <1>7 DEF R

(* What emit_highlighted writes, item by item. *)
LEMMA WriteFolds ==
  ASSUME NEW m, NEW X, NEW V, NEW b \in V,
         \A v \in V, x \in X : WriteItem(v, x, m) \in V
  PROVE  /\ WriteAll(b, <<>>, m) = b
         /\ \A s \in Seq(X) : WriteAll(b, s, m) \in V
         /\ \A s \in Seq(X), x \in X :
              WriteAll(b, Append(s, x), m) =
                WriteItem(WriteAll(b, s, m), x, m)
<1> DEFINE R(s) == WriteAll(b, s, m)
           F == [x \in X |-> [v \in V |-> WriteItem(v, x, m)]]
           Way(f, s) == f = [i \in 0 .. Len(s) |->
                               IF i = 0 THEN b ELSE WriteItem(f[i - 1], s[i], m)]
           G(s) == CHOOSE f : Way(f, s)
<1>1. F \in [X -> [V -> V]]
  OBVIOUS
<1>2. \A x \in X, v \in V : F[x][v] = WriteItem(v, x, m)
  OBVIOUS
<1>3. \A s : R(s) = G(s)[Len(s)]
  BY DEF WriteAll, InTurn
<1> HIDE DEF F, R
<1>4. ASSUME NEW s \in Seq(X) PROVE Folds(V, F, b, s, R(s))
  <2>1. Len(s) \in Nat /\ \A k \in 1 .. Len(s) : s[k] \in X
    BY LenProperties, ElementOfSeq
  <2>2. PICK g : Works(V, b, Along(F, s), g, Len(s))
    BY <1>1, FoldExists
  <2>3. g \in [0 .. Len(s) -> V] /\ g[0] = b /\ \A k \in 1 .. Len(s) : g[k] = F[s[k]][g[k - 1]]
    <3>1. /\ Along(F, s) \in [1 .. Len(s) -> [V -> V]]
          /\ \A k \in 1 .. Len(s) : Along(F, s)[k] = F[s[k]]
          /\ Len(s) \in Nat
      BY <1>1, StepsOf, Zenon
    <3> QED
      BY <2>2, <3>1 DEF Works
  <2>4. Way(g, s)
    <3>1. \A k \in 1 .. Len(s) : k - 1 \in 0 .. Len(s)
      BY <2>1
    <3>2. \A k \in 1 .. Len(s) : g[k] = WriteItem(g[k - 1], s[k], m)
      BY <1>2, <2>1, <2>3, <3>1
    <3> QED
      BY <2>1, <2>3, <3>2
  <2>5. Way(G(s), s)
    <3> HIDE DEF Way
    <3> QED
      BY <2>4
  <2> HIDE DEF G
  <2>6. \A i \in 0 .. Len(s) : G(s)[i] = IF i = 0 THEN b ELSE WriteItem(G(s)[i - 1], s[i], m)
    BY <2>5
  <2>7. G(s)[0] = b
    BY <2>1, <2>6
  <2>8. \A k \in 1 .. Len(s) : G(s)[k - 1] \in V => G(s)[k] = F[s[k]][G(s)[k - 1]]
    BY <1>2, <2>1, <2>6
  <2> HIDE DEF Way
  <2>9. Folds(V, F, b, s, G(s)[Len(s)])
    BY <1>1, <2>7, <2>8, FoldIs
  <2> QED
    BY <1>3, <2>9
<1>5. R(<<>>) = b
  BY <1>1, <1>4, EmptySeq, FoldFacts
<1>6. \A s \in Seq(X) : R(s) \in V
  BY <1>1, <1>4, FoldFacts
<1>7. ASSUME NEW s \in Seq(X), NEW x \in X PROVE R(Append(s, x)) = WriteItem(R(s), x, m)
  <2>1. Append(s, x) \in Seq(X)
    BY AppendProperties
  <2>2. R(Append(s, x)) = F[x][R(s)]
    BY <1>1, <1>4, <2>1, FoldFacts
  <2> QED
    BY <1>2, <1>6, <2>2
<1> QED
  BY <1>5, <1>6, <1>7 DEF R

(* What emit_interactive_highlighted writes, item by item. *)
LEMMA OverlayFolds ==
  ASSUME NEW m, NEW X, NEW V, NEW b \in V,
         \A v \in V, x \in X : OverlayItem(v, x, m) \in V
  PROVE  /\ EmitInteractive(b, <<>>, m) = b
         /\ \A s \in Seq(X) : EmitInteractive(b, s, m) \in V
         /\ \A s \in Seq(X), x \in X :
              EmitInteractive(b, Append(s, x), m) =
                OverlayItem(EmitInteractive(b, s, m), x, m)
<1> DEFINE R(s) == EmitInteractive(b, s, m)
           F == [x \in X |-> [v \in V |-> OverlayItem(v, x, m)]]
           Way(f, s) == f = [i \in 0 .. Len(s) |->
                               IF i = 0 THEN b ELSE OverlayItem(f[i - 1], s[i], m)]
           G(s) == CHOOSE f : Way(f, s)
<1>1. F \in [X -> [V -> V]]
  OBVIOUS
<1>2. \A x \in X, v \in V : F[x][v] = OverlayItem(v, x, m)
  OBVIOUS
<1>3. \A s : R(s) = G(s)[Len(s)]
  BY DEF EmitInteractive, InTurn
<1> HIDE DEF F, R
<1>4. ASSUME NEW s \in Seq(X) PROVE Folds(V, F, b, s, R(s))
  <2>1. Len(s) \in Nat /\ \A k \in 1 .. Len(s) : s[k] \in X
    BY LenProperties, ElementOfSeq
  <2>2. PICK g : Works(V, b, Along(F, s), g, Len(s))
    BY <1>1, FoldExists
  <2>3. g \in [0 .. Len(s) -> V] /\ g[0] = b /\ \A k \in 1 .. Len(s) : g[k] = F[s[k]][g[k - 1]]
    <3>1. /\ Along(F, s) \in [1 .. Len(s) -> [V -> V]]
          /\ \A k \in 1 .. Len(s) : Along(F, s)[k] = F[s[k]]
          /\ Len(s) \in Nat
      BY <1>1, StepsOf, Zenon
    <3> QED
      BY <2>2, <3>1 DEF Works
  <2>4. Way(g, s)
    <3>1. \A k \in 1 .. Len(s) : k - 1 \in 0 .. Len(s)
      BY <2>1
    <3>2. \A k \in 1 .. Len(s) : g[k] = OverlayItem(g[k - 1], s[k], m)
      BY <1>2, <2>1, <2>3, <3>1
    <3> QED
      BY <2>1, <2>3, <3>2
  <2>5. Way(G(s), s)
    <3> HIDE DEF Way
    <3> QED
      BY <2>4
  <2> HIDE DEF G
  <2>6. \A i \in 0 .. Len(s) : G(s)[i] = IF i = 0 THEN b ELSE OverlayItem(G(s)[i - 1], s[i], m)
    BY <2>5
  <2>7. G(s)[0] = b
    BY <2>1, <2>6
  <2>8. \A k \in 1 .. Len(s) : G(s)[k - 1] \in V => G(s)[k] = F[s[k]][G(s)[k - 1]]
    BY <1>2, <2>1, <2>6
  <2> HIDE DEF Way
  <2>9. Folds(V, F, b, s, G(s)[Len(s)])
    BY <1>1, <2>7, <2>8, FoldIs
  <2> QED
    BY <1>3, <2>9
<1>5. R(<<>>) = b
  BY <1>1, <1>4, EmptySeq, FoldFacts
<1>6. \A s \in Seq(X) : R(s) \in V
  BY <1>1, <1>4, FoldFacts
<1>7. ASSUME NEW s \in Seq(X), NEW x \in X PROVE R(Append(s, x)) = OverlayItem(R(s), x, m)
  <2>1. Append(s, x) \in Seq(X)
    BY AppendProperties
  <2>2. R(Append(s, x)) = F[x][R(s)]
    BY <1>1, <1>4, <2>1, FoldFacts
  <2> QED
    BY <1>2, <1>6, <2>2
<1> QED
  BY <1>5, <1>6, <1>7 DEF R

(* An echo without its colour, item by item. *)
LEMMA RecolourFolds ==
  ASSUME NEW echo, NEW X, NEW V, <<>> \in V,
         \A v \in V, x \in X : Recolour(echo, v, x) \in V
  PROVE  /\ RecolourAll(echo, <<>>) = <<>>
         /\ \A s \in Seq(X) : RecolourAll(echo, s) \in V
         /\ \A s \in Seq(X), x \in X :
              RecolourAll(echo, Append(s, x)) =
                Recolour(echo, RecolourAll(echo, s), x)
<1> DEFINE R(s) == RecolourAll(echo, s)
           F == [x \in X |-> [v \in V |-> Recolour(echo, v, x)]]
           Way(f, s) == f = [i \in 0 .. Len(s) |->
                               IF i = 0 THEN <<>> ELSE Recolour(echo, f[i - 1], s[i])]
           G(s) == CHOOSE f : Way(f, s)
<1>1. F \in [X -> [V -> V]]
  OBVIOUS
<1>2. \A x \in X, v \in V : F[x][v] = Recolour(echo, v, x)
  OBVIOUS
<1>3. \A s : R(s) = G(s)[Len(s)]
  BY DEF RecolourAll, InTurn
<1> HIDE DEF F, R
<1>4. ASSUME NEW s \in Seq(X) PROVE Folds(V, F, <<>>, s, R(s))
  <2>1. Len(s) \in Nat /\ \A k \in 1 .. Len(s) : s[k] \in X
    BY LenProperties, ElementOfSeq
  <2>2. PICK g : Works(V, <<>>, Along(F, s), g, Len(s))
    BY <1>1, FoldExists
  <2>3. g \in [0 .. Len(s) -> V] /\ g[0] = <<>> /\ \A k \in 1 .. Len(s) : g[k] = F[s[k]][g[k - 1]]
    <3>1. /\ Along(F, s) \in [1 .. Len(s) -> [V -> V]]
          /\ \A k \in 1 .. Len(s) : Along(F, s)[k] = F[s[k]]
          /\ Len(s) \in Nat
      BY <1>1, StepsOf, Zenon
    <3> QED
      BY <2>2, <3>1 DEF Works
  <2>4. Way(g, s)
    <3>1. \A k \in 1 .. Len(s) : k - 1 \in 0 .. Len(s)
      BY <2>1
    <3>2. \A k \in 1 .. Len(s) : g[k] = Recolour(echo, g[k - 1], s[k])
      BY <1>2, <2>1, <2>3, <3>1
    <3> QED
      BY <2>1, <2>3, <3>2
  <2>5. Way(G(s), s)
    <3> HIDE DEF Way
    <3> QED
      BY <2>4
  <2> HIDE DEF G
  <2>6. \A i \in 0 .. Len(s) : G(s)[i] = IF i = 0 THEN <<>> ELSE Recolour(echo, G(s)[i - 1], s[i])
    BY <2>5
  <2>7. G(s)[0] = <<>>
    BY <2>1, <2>6
  <2>8. \A k \in 1 .. Len(s) : G(s)[k - 1] \in V => G(s)[k] = F[s[k]][G(s)[k - 1]]
    BY <1>2, <2>1, <2>6
  <2> HIDE DEF Way
  <2>9. Folds(V, F, <<>>, s, G(s)[Len(s)])
    BY <1>1, <2>7, <2>8, FoldIs
  <2> QED
    BY <1>3, <2>9
<1>5. R(<<>>) = <<>>
  BY <1>1, <1>4, EmptySeq, FoldFacts
<1>6. \A s \in Seq(X) : R(s) \in V
  BY <1>1, <1>4, FoldFacts
<1>7. ASSUME NEW s \in Seq(X), NEW x \in X PROVE R(Append(s, x)) = Recolour(echo, R(s), x)
  <2>1. Append(s, x) \in Seq(X)
    BY AppendProperties
  <2>2. R(Append(s, x)) = F[x][R(s)]
    BY <1>1, <1>4, <2>1, FoldFacts
  <2> QED
    BY <1>2, <1>6, <2>2
<1> QED
  BY <1>5, <1>6, <1>7 DEF R

-----------------------------------------------------------------------------
(* What is written. *)

Values == {"off", "own", "hl"}
Settings == UNION {[D -> Values] : D \in SUBSET Attributes}
Classes == TextClasses \cup Controls \cup {"sgr"}

(* An SGR of the program's or a highlight's, or a control or text of the     *)
(* command's; only words are drawn in a style.                               *)
Written ==
  {x \in [c : Classes, set : Settings \cup {<<>>}, by : {"command", "overlay"},
          style : SUBSET Attributes] :
     /\ x.c = "sgr" => x.set \in Settings
     /\ x.c # "sgr" => x.by = "command" /\ x.set = <<>>
     /\ x.style # {} => x.c \in Words}

(* What the command writes, in a style or not. *)
Drawn == {x \in Written : x.by = "command"}

(* The values some attributes are set to. *)
LEMMA SettingFacts ==
  ASSUME NEW D \in SUBSET Attributes, NEW f \in [D -> Values]
  PROVE  f \in Settings
BY DEF Settings

(* Setting attributes leaves a rendition. *)
LEMMA MergeFacts ==
  ASSUME NEW now \in Rendition, NEW set \in Settings
  PROVE  /\ Merge(now, set) \in Rendition
         /\ \A a \in Attributes :
              Merge(now, set)[a] = IF a \in DOMAIN set THEN set[a] ELSE now[a]
<1>1. PICK D \in SUBSET Attributes : set \in [D -> Values]
  BY DEF Settings
<1>2. \A a \in Attributes : (IF a \in DOMAIN set THEN set[a] ELSE now[a]) \in Values
  BY <1>1 DEF Rendition, Values
<1> QED
  BY <1>2 DEF Merge, Rendition, Values

(* A highlight leaves a rendition. *)
LEMMA OverFacts ==
  ASSUME NEW now \in Rendition, NEW style
  PROVE  /\ Over(now, style) \in Rendition
         /\ \A a \in Attributes : Over(now, style)[a] = IF a \in style THEN "hl" ELSE now[a]
BY DEF Over, Rendition

(* Renditions are equal that agree on every attribute. *)
LEMMA SameRendition ==
  ASSUME NEW r \in Rendition, NEW s \in Rendition, \A a \in Attributes : r[a] = s[a]
  PROVE  r = s
BY DEF Rendition

(* What a command writes, has no style yet. *)
LEMMA ReadingItems ==
  ASSUME NEW x \in Reading
  PROVE  /\ x \in Drawn /\ x.style = {} /\ x.by = "command"
         /\ x.c \in Classes /\ (x.c # "sgr" => x = Item(x.c))
<1>1. CASE \E c \in TextClasses \cup Controls : x = Item(c)
  <2>1. PICK c \in TextClasses \cup Controls : x = Item(c)
    BY <1>1
  <2>2. c # "sgr"
    BY DEF TextClasses, Words, Controls, Saves, Restores, Positions, Fills, ToAlternate,
           FromAlternate, InPlaceEdits
  <2> QED
    BY <2>1, <2>2 DEF Item, Drawn, Written, Classes
<1>2. CASE \E set \in UNION {[D -> {"off", "own"}] : D \in SUBSET Attributes} : x = Sgr(set)
  <2>1. PICK D \in SUBSET Attributes : \E set \in [D -> {"off", "own"}] : x = Sgr(set)
    BY <1>2
  <2>5. PICK set \in [D -> {"off", "own"}] : x = Sgr(set)
    BY <2>1
  <2>2. set \in [D -> Values]
    BY DEF Values
  <2>3. set \in Settings
    BY <2>2, SettingFacts
  <2>4. x = [c |-> "sgr", set |-> set, by |-> "command", style |-> {}]
    BY <2>5 DEF Sgr, Item
  <2> QED
    BY <2>3, <2>4 DEF Drawn, Written, Classes
<1> QED
  BY <1>1, <1>2 DEF Reading

(* A word in a style. *)
LEMMA StyledItem ==
  ASSUME NEW x \in Reading, NEW style \in SUBSET Attributes, style # {} => x.c \in Words
  PROVE  /\ [x EXCEPT !.style = style] \in Drawn
         /\ [x EXCEPT !.style = style].c = x.c
         /\ [x EXCEPT !.style = style].style = style
<1>1. x \in Drawn
  BY ReadingItems
<1> QED
  BY <1>1 DEF Drawn, Written

(* What a highlight writes. *)
LEMMA OverlayItems ==
  ASSUME NEW set \in Settings
  PROVE  /\ Overlay(set) \in Written /\ Overlay(set).c = "sgr" /\ Overlay(set).set = set
         /\ Overlay(set).by = "overlay" /\ Overlay(set).style = {}
<1>3. Item("sgr") = [c |-> "sgr", set |-> <<>>, by |-> "command", style |-> {}]
  BY DEF Item
<1>2. Sgr(set) = [c |-> "sgr", set |-> set, by |-> "command", style |-> {}]
  BY <1>3 DEF Sgr
<1>1. Overlay(set) = [c |-> "sgr", set |-> set, by |-> "overlay", style |-> {}]
  BY <1>2 DEF Overlay
<1> QED
  BY <1>1 DEF Written, Classes

-----------------------------------------------------------------------------
(* The terminals. *)

(* Terminals are equal whose parts are. *)
LEMMA SameTerminal ==
  ASSUME NEW t \in Terminal, NEW o \in Terminal,
         t.now = o.now, t.saved = o.saved, t.alt = o.alt
  PROVE  t = o
BY DEF Terminal

(* A new terminal is one.                                                  *)
LEMMA NewTerminalFacts == NewTerminal \in Terminal /\ Plain \in Rendition
BY DEF NewTerminal, Terminal, Plain, Rendition

(* What a terminal does with an item. *)
LEMMA ObeyIs ==
  ASSUME NEW t \in Terminal, NEW x
  PROVE  /\ x.c = "sgr" => Obey(t, x) = [t EXCEPT !.now = Merge(t.now, x.set)]
         /\ x.c \in {"ESC 7", "?1048h"} => Obey(t, x) = [t EXCEPT !.saved[t.alt] = t.now]
         /\ x.c \in {"ESC 8", "?1048l"} => Obey(t, x) = [t EXCEPT !.now = t.saved[t.alt]]
         /\ x.c = "?1049h" => Obey(t, x) = [t EXCEPT !.saved[t.alt] = t.now, !.alt = TRUE]
         /\ x.c = "?1049l" => Obey(t, x) = [t EXCEPT !.now = t.saved[FALSE], !.alt = FALSE]
         /\ x.c = "?47h" => Obey(t, x) = [t EXCEPT !.alt = TRUE]
         /\ x.c = "?47l" => Obey(t, x) = [t EXCEPT !.alt = FALSE]
         /\ x.c = "CSI !p" => Obey(t, x) = [t EXCEPT !.now = Plain, !.saved[t.alt] = Plain]
         /\ x.c = "ESC c" => Obey(t, x) = NewTerminal
         /\ x.c \notin Saves \cup Restores \cup ToAlternate \cup FromAlternate
                       \cup {"sgr", "CSI !p", "ESC c"}
            => Obey(t, x) = t
<1>1. CASE x.c = "sgr"
  BY <1>1 DEF Obey, Saves, Restores, ToAlternate, FromAlternate
<1>2. CASE x.c \in {"ESC 7", "?1048h"}
  BY <1>2 DEF Obey, Saves, Restores, ToAlternate, FromAlternate
<1>3. CASE x.c \in {"ESC 8", "?1048l"}
  BY <1>3 DEF Obey, Saves, Restores, ToAlternate, FromAlternate
<1>4. CASE x.c = "?1049h"
  BY <1>4 DEF Obey, Saves, Restores, ToAlternate, FromAlternate
<1>5. CASE x.c = "?1049l"
  BY <1>5 DEF Obey, Saves, Restores, ToAlternate, FromAlternate
<1>6. CASE x.c = "?47h"
  <2>1. Obey(t, x) = IF t.alt THEN t ELSE [t EXCEPT !.alt = ~@]
    BY <1>6 DEF Obey
  <2>2. Obey(t, x) = [t EXCEPT !.alt = TRUE]
    BY <2>1 DEF Terminal
  <2> QED
    BY <1>6, <2>2 DEF ToAlternate
<1>7. CASE x.c = "?47l"
  <2>1. Obey(t, x) = IF t.alt THEN [t EXCEPT !.alt = ~@] ELSE t
    BY <1>7 DEF Obey
  <2>2. Obey(t, x) = [t EXCEPT !.alt = FALSE]
    BY <2>1 DEF Terminal
  <2> QED
    BY <1>7, <2>2 DEF FromAlternate
<1>8. CASE x.c \in {"CSI !p", "ESC c"}
  BY <1>8 DEF Obey, Saves, Restores, ToAlternate, FromAlternate
<1>9. CASE x.c \notin Saves \cup Restores \cup ToAlternate \cup FromAlternate
                      \cup {"sgr", "CSI !p", "ESC c"}
  BY <1>9 DEF Obey, Saves, Restores, ToAlternate, FromAlternate
<1> QED
  BY <1>1, <1>2, <1>3, <1>4, <1>5, <1>6, <1>7, <1>8, <1>9
  DEF Saves, Restores, ToAlternate, FromAlternate

(* The tracked rendition follows what a terminal does. *)
LEMMA ApplyIsObey ==
  ASSUME NEW t \in Terminal, NEW x \in Written
  PROVE  Apply(t, x) = Obey(t, x)
<1>1. CASE x.c \in {"?47h", "?47l"}
  BY <1>1, ObeyIs DEF Apply, Restores
<1>2. CASE x.c \in {"ESC 7", "?1048h"} \cup Restores
  BY <1>2, ObeyIs DEF Apply, Restores, Save, Restore
<1>3. CASE x.c = "?1049h"
  <2>1. Apply(t, x) = [Save(t) EXCEPT !.alt = TRUE]
    BY <1>3 DEF Apply, Restores
  <2>2. Obey(t, x) = [t EXCEPT !.saved[t.alt] = t.now, !.alt = TRUE]
    BY <1>3, ObeyIs
  <2> QED
    BY <2>1, <2>2 DEF Save
<1>4. CASE x.c = "?1049l"
  <2>1. Apply(t, x) = Restore([t EXCEPT !.alt = FALSE])
    BY <1>4 DEF Apply, Restores
  <2>2. Obey(t, x) = [t EXCEPT !.now = t.saved[FALSE], !.alt = FALSE]
    BY <1>4, ObeyIs
  <2> QED
    BY <2>1, <2>2 DEF Restore, Terminal
<1>5. CASE x.c \in {"CSI !p", "ESC c", "sgr"}
  <2>1. CASE x.c = "sgr"
    <3>1. Apply(t, x) = [t EXCEPT !.now = Merge(t.now, x.set)]
      BY <2>1 DEF Apply, Restores
    <3> QED
      BY <2>1, <3>1, ObeyIs
  <2>2. CASE x.c = "CSI !p"
    <3>1. Apply(t, x) = [t EXCEPT !.now = Plain, !.saved[t.alt] = Plain]
      BY <2>2 DEF Apply, Restores
    <3> QED
      BY <2>2, <3>1, ObeyIs
  <2>3. CASE x.c = "ESC c"
    BY <2>3, ObeyIs DEF Apply, Restores, NoSgr
  <2> QED
    BY <1>5, <2>1, <2>2, <2>3
<1>6. CASE x.c \notin Saves \cup Restores \cup ToAlternate \cup FromAlternate
                      \cup {"sgr", "CSI !p", "ESC c"}
  BY <1>6, ObeyIs DEF Apply, Restores, Saves, ToAlternate, FromAlternate
<1> QED
  BY <1>1, <1>2, <1>3, <1>4, <1>5, <1>6 DEF Saves, Restores, ToAlternate, FromAlternate

(* A terminal stays one. *)
LEMMA ObeyType ==
  ASSUME NEW t \in Terminal, NEW x \in Written
  PROVE  Obey(t, x) \in Terminal
<1> DEFINE Parts(r, s, a) == [t EXCEPT !.now = r, !.saved = s, !.alt = a]
           With(r) == [t.saved EXCEPT ![t.alt] = r]
<1>1. /\ t.now \in Rendition /\ t.saved \in [BOOLEAN -> Rendition] /\ t.alt \in BOOLEAN
      /\ \A b \in BOOLEAN : t.saved[b] \in Rendition
  BY DEF Terminal
<1>2. \A r \in Rendition, s \in [BOOLEAN -> Rendition], a \in BOOLEAN : Parts(r, s, a) \in Terminal
  BY DEF Terminal
<1>3. \A r \in Rendition : With(r) \in [BOOLEAN -> Rendition]
  BY <1>1
<1>4. t = [now |-> t.now, saved |-> t.saved, alt |-> t.alt]
  BY DEF Terminal
<1>5. CASE x.c = "sgr"
  <2>1. Merge(t.now, x.set) \in Rendition
    BY <1>1, <1>5, MergeFacts DEF Written
  <2>2. Obey(t, x) = [t EXCEPT !.now = Merge(t.now, x.set)]
    BY <1>5, ObeyIs
  <2> QED
    BY <2>1, <2>2 DEF Terminal
<1>6. CASE x.c \in {"ESC 7", "?1048h"}
  <2>1. Obey(t, x) = [t EXCEPT !.saved[t.alt] = t.now]
    BY <1>6, ObeyIs
  <2>2. Obey(t, x) = Parts(t.now, With(t.now), t.alt)
    BY <1>4, <2>1
  <2>3. With(t.now) \in [BOOLEAN -> Rendition]
    BY <1>1, <1>3, NewTerminalFacts
  <2> HIDE DEF Parts, With
  <2> QED
    BY <1>1, <1>2, <2>2, <2>3
<1>7. CASE x.c = "?1049h"
  <2>1. Obey(t, x) = [t EXCEPT !.saved[t.alt] = t.now, !.alt = TRUE]
    BY <1>7, ObeyIs
  <2>2. Obey(t, x) = Parts(t.now, With(t.now), TRUE)
    BY <1>4, <2>1
  <2>3. With(t.now) \in [BOOLEAN -> Rendition]
    BY <1>1, <1>3, NewTerminalFacts
  <2> HIDE DEF Parts, With
  <2> QED
    BY <1>1, <1>2, <2>2, <2>3
<1>8. CASE x.c \in {"ESC 8", "?1048l"}
  <2>1. Obey(t, x) = [t EXCEPT !.now = t.saved[t.alt]]
    BY <1>8, ObeyIs
  <2> QED
    BY <1>1, <2>1 DEF Terminal
<1>9. CASE x.c = "?1049l"
  <2>1. Obey(t, x) = [t EXCEPT !.now = t.saved[FALSE], !.alt = FALSE]
    BY <1>9, ObeyIs
  <2> QED
    BY <1>1, <2>1 DEF Terminal
<1>10. CASE x.c \in {"?47h", "?47l"}
  <2>1. Obey(t, x) = [t EXCEPT !.alt = (x.c = "?47h")]
    BY <1>10, ObeyIs
  <2> QED
    BY <1>1, <2>1 DEF Terminal
<1>11. CASE x.c = "CSI !p"
  <2>1. Obey(t, x) = [t EXCEPT !.now = Plain, !.saved[t.alt] = Plain]
    BY <1>11, ObeyIs
  <2>2. Obey(t, x) = Parts(Plain, With(Plain), t.alt)
    BY <1>4, <2>1
  <2>3. With(Plain) \in [BOOLEAN -> Rendition]
    BY <1>1, <1>3, NewTerminalFacts
  <2> HIDE DEF Parts, With
  <2> QED
    BY <1>1, <1>2, <2>2, <2>3, NewTerminalFacts
<1>12. CASE x.c = "ESC c"
  BY <1>12, ObeyIs, NewTerminalFacts
<1>13. CASE x.c \notin Saves \cup Restores \cup ToAlternate \cup FromAlternate
                       \cup {"sgr", "CSI !p", "ESC c"}
  BY <1>13, ObeyIs
<1> QED
  BY <1>5, <1>6, <1>7, <1>8, <1>9, <1>10, <1>11, <1>12, <1>13
  DEF Saves, Restores, ToAlternate, FromAlternate

-----------------------------------------------------------------------------
(* What the two terminals show. *)

Seen ==
  [terminal : Terminal, own : Terminal, line : [text : Line, edited : BOOLEAN],
   typing : BOOLEAN, faults : SUBSET Faults]

(* What goes wrong with the rendition. *)
DrawingFaults == {"wrong rendition", "blanks painted"}

(* The one without highlights is in the rendition n, and so is the terminal    *)
(* but for an open highlight, and nothing went wrong.                        *)
Tracks(n, style, seen) ==
  /\ seen.own = n
  /\ seen.terminal = [n EXCEPT !.now = Over(n.now, style)]
  /\ seen.faults \cap DrawingFaults = {}

(* A line stays one. *)
LEMMA ExtendType == ASSUME NEW line \in Line, NEW x PROVE Extend(line, x) \in Line
BY DEF Extend, Line

(* A mark of an edit is set, cleared or left alone. *)
LEMMA RewritesIs ==
  ASSUME NEW r \in BOOLEAN, NEW x
  PROVE  /\ Rewrites(r, x) \in BOOLEAN
         /\ x.c \in InPlaceEdits \cup {"bs"} => Rewrites(r, x) = TRUE
         /\ x.c \in {"cr", "lf"} => Rewrites(r, x) = FALSE
         /\ x.c \notin InPlaceEdits \cup {"bs", "cr", "lf"} => Rewrites(r, x) = r
BY DEF Rewrites, InPlaceEdits

(* What is seen of an item. *)
LEMMA SeeIs ==
  ASSUME NEW q \in Seen, NEW x \in Written
  PROVE  /\ See(q, x) \in Seen
         /\ See(q, x).terminal = Obey(q.terminal, x)
         /\ See(q, x).own = IF x.by = "overlay" THEN q.own ELSE Obey(q.own, x)
         /\ See(q, x).faults = q.faults \cup FaultsOf(q, x)
         /\ See(q, x).line = LineWith(q.line, x, q.own.alt)
<1> DEFINE o == IF x.by = "overlay" THEN q.own ELSE Obey(q.own, x)
           l == LineWith(q.line, x, q.own.alt)
           y == (q.typing /\ x.c \notin {"cr", "lf"} \cup ToAlternate \cup FromAlternate)
           f == q.faults \cup FaultsOf(q, x)
           t == Obey(q.terminal, x)
<1>1. See(q, x) = [terminal |-> t, own |-> o, line |-> l, typing |-> y, faults |-> f]
  BY DEF See
<1>2. /\ q.terminal \in Terminal /\ q.own \in Terminal /\ q.own.alt \in BOOLEAN
      /\ q.line \in [text : Line, edited : BOOLEAN] /\ q.typing \in BOOLEAN
      /\ q.faults \in SUBSET Faults
  BY DEF Seen, Terminal
<1>3. t \in Terminal /\ o \in Terminal
  BY <1>2, ObeyType
<1>4. f \in SUBSET Faults
  BY <1>2 DEF FaultsOf
<1>5. l \in [text : Line, edited : BOOLEAN]
  <2> DEFINE w == CASE x.c \in {"cr", "lf"} -> NoLine
                    [] x.c \in ToAlternate \cup FromAlternate -> [NoLine EXCEPT !.spoiled = TRUE]
                    [] IsText(x) /\ ~q.own.alt -> Extend(q.line.text, x)
                    [] OTHER -> q.line.text
             switches == x.c \in ToAlternate \/ (x.c \in FromAlternate /\ q.own.alt)
             e == (Rewrites(q.line.edited, x) /\ ~switches)
  <2>1. l = [text |-> w, edited |-> e]
    BY DEF LineWith
  <2>2. NoLine \in Line /\ [NoLine EXCEPT !.spoiled = TRUE] \in Line
    BY DEF NoLine, Line
  <2>3. q.line.text \in Line /\ q.line.edited \in BOOLEAN
    BY <1>2
  <2>4. Extend(q.line.text, x) \in Line
    BY <2>3, ExtendType
  <2>5. w \in Line
    BY <2>2, <2>3, <2>4
  <2>6. e \in BOOLEAN
    OBVIOUS
  <2> HIDE DEF w, e, l
  <2> QED
    BY <2>1, <2>5, <2>6
<1>6. y \in BOOLEAN
  OBVIOUS
<1> HIDE DEF t, o, l, y, f
<1>7. See(q, x) \in Seen
  BY <1>1, <1>3, <1>4, <1>5, <1>6 DEF Seen
<1> QED
  BY <1>1, <1>7 DEF t, o, l, f

(* An SGR of a highlight is seen by the terminal alone. *)
LEMMA SgrSeen ==
  ASSUME NEW q \in Seen, NEW set \in Settings
  PROVE  LET x == Overlay(set)
         IN /\ x \in Written /\ See(q, x) \in Seen
            /\ See(q, x).terminal = [q.terminal EXCEPT !.now = Merge(q.terminal.now, set)]
            /\ See(q, x).own = q.own
            /\ See(q, x).faults \cap DrawingFaults = q.faults \cap DrawingFaults
            /\ See(q, x).line.edited = q.line.edited
<1> DEFINE x == Overlay(set)
<1>1. /\ x \in Written /\ x.c = "sgr" /\ x.set = set /\ x.by = "overlay" /\ x.style = {}
  BY OverlayItems
<1> HIDE DEF x
<1>2. q.terminal \in Terminal /\ q.line.edited \in BOOLEAN
  BY DEF Seen
<1>3. Obey(q.terminal, x) = [q.terminal EXCEPT !.now = Merge(q.terminal.now, set)]
  BY <1>1, <1>2, ObeyIs
<1>4. FaultsOf(q, x) \cap DrawingFaults = {}
  BY <1>1 DEF FaultsOf, DrawingFaults, IsText, TextClasses, Words, Fills
<1>5. LineWith(q.line, x, q.own.alt).edited = q.line.edited
  <2>1. Rewrites(q.line.edited, x) = q.line.edited
    BY <1>1, <1>2, RewritesIs DEF InPlaceEdits
  <2>2. x.c \notin ToAlternate \cup FromAlternate
    BY <1>1 DEF ToAlternate, FromAlternate
  <2> QED
    BY <1>2, <2>1, <2>2 DEF LineWith
<1>6. /\ See(q, x) \in Seen
      /\ See(q, x).terminal = Obey(q.terminal, x)
      /\ See(q, x).own = q.own
      /\ See(q, x).faults = q.faults \cup FaultsOf(q, x)
      /\ See(q, x).line = LineWith(q.line, x, q.own.alt)
  BY <1>1, SeeIs
<1> QED
  BY <1>1, <1>3, <1>4, <1>5, <1>6 DEF x

(* No highlight changes nothing. *)
LEMMA OverNothing ==
  ASSUME NEW n \in Terminal
  PROVE  Over(n.now, {}) = n.now /\ [n EXCEPT !.now = Over(n.now, {})] = n
<1>1. n.now \in Rendition
  BY DEF Terminal
<1>2. Over(n.now, {}) \in Rendition /\ \A a \in Attributes : Over(n.now, {})[a] = n.now[a]
  BY <1>1, OverFacts
<1>3. Over(n.now, {}) = n.now
  BY <1>1, <1>2, SameRendition
<1>4. [n EXCEPT !.now = n.now] = n
  BY DEF Terminal
<1> QED
  BY <1>3, <1>4

(* What has the rendition n under a highlight. *)
LEMMA TracksIs ==
  ASSUME NEW n \in Terminal, NEW style, NEW q \in Seen
  PROVE  Tracks(n, style, q)
           <=> /\ q.own = n
               /\ q.terminal.now = Over(n.now, style)
               /\ q.terminal.saved = n.saved /\ q.terminal.alt = n.alt
               /\ q.faults \cap DrawingFaults = {}
<1>1. n.now \in Rendition
  BY DEF Terminal
<1>2. Over(n.now, style) \in Rendition
  BY <1>1, OverFacts
<1> DEFINE r == Over(n.now, style)
<1> HIDE DEF r
<1>4. r \in Rendition
  BY <1>2 DEF r
<1>5. [n EXCEPT !.now = r] \in Terminal
  BY <1>4 DEF Terminal
<1>7. q.terminal \in Terminal
  BY DEF Seen
<1>8. /\ [n EXCEPT !.now = r].now = r /\ [n EXCEPT !.now = r].saved = n.saved
      /\ [n EXCEPT !.now = r].alt = n.alt
  BY DEF Terminal
<1>9. Tracks(n, style, q)
        <=> /\ q.own = n /\ q.terminal = [n EXCEPT !.now = r]
            /\ q.faults \cap DrawingFaults = {}
  BY DEF Tracks, r
<1>10. (/\ q.terminal.now = r /\ q.terminal.saved = n.saved /\ q.terminal.alt = n.alt)
       => q.terminal = [n EXCEPT !.now = r]
  BY <1>5, <1>7, <1>8, SameTerminal
<1> QED
  BY <1>8, <1>9, <1>10 DEF r

(* The same, but a highlight's attributes may show anything.                 *)
Near(n, style, seen) ==
  /\ seen.own = n
  /\ \A a \in Attributes \ style : seen.terminal.now[a] = n.now[a]
  /\ seen.terminal.saved = n.saved /\ seen.terminal.alt = n.alt
  /\ seen.faults \cap DrawingFaults = {}

(* What tracks is near, and what is near with no highlight tracks.            *)
LEMMA NearFacts ==
  ASSUME NEW n \in Terminal, NEW style, NEW q \in Seen
  PROVE  /\ Tracks(n, style, q) => Near(n, style, q)
         /\ Near(n, {}, q) => Tracks(n, {}, q)
<1>1. ASSUME Tracks(n, style, q) PROVE Near(n, style, q)
  <2>1. n.now \in Rendition
    BY DEF Terminal
  <2>2. \A a \in Attributes : Over(n.now, style)[a] = IF a \in style THEN "hl" ELSE n.now[a]
    BY <2>1, OverFacts
  <2>3. /\ q.own = n /\ q.terminal.now = Over(n.now, style)
        /\ q.terminal.saved = n.saved /\ q.terminal.alt = n.alt
        /\ q.faults \cap DrawingFaults = {}
    BY <1>1, TracksIs
  <2> QED
    BY <2>2, <2>3 DEF Near
<1>2. ASSUME Near(n, {}, q) PROVE Tracks(n, {}, q)
  <2>1. q.terminal.now \in Rendition /\ n.now \in Rendition
    BY DEF Seen, Terminal
  <2>2. q.terminal.now = n.now
    BY <1>2, <2>1, SameRendition DEF Near
  <2>3. Over(n.now, {}) = n.now
    BY OverNothing
  <2>4. /\ q.own = n /\ q.terminal.now = Over(n.now, {})
        /\ q.terminal.saved = n.saved /\ q.terminal.alt = n.alt
        /\ q.faults \cap DrawingFaults = {}
    BY <1>2, <2>2, <2>3 DEF Near
  <2> QED
    BY <2>4, TracksIs
<1> QED
  BY <1>1, <1>2

(* A highlight that begins shows over what is near.                          *)
LEMMA StartSeen ==
  ASSUME NEW n \in Terminal, NEW style \in SUBSET Attributes, NEW q \in Seen, Near(n, style, q)
  PROVE  LET x == Start(style)
         IN /\ x \in Written /\ x.c = "sgr" /\ See(q, x) \in Seen
            /\ Tracks(n, style, See(q, x))
            /\ See(q, x).line.edited = q.line.edited
<1> DEFINE set == [a \in style |-> "hl"]
           x == Overlay(set)
           p == See(q, x)
<1>1. set \in Settings
  <2>1. set \in [style -> Values]
    BY DEF Values
  <2> QED
    BY <2>1, SettingFacts
<1>2. DOMAIN set = style /\ \A a \in style : set[a] = "hl"
  OBVIOUS
<1>3. Start(style) = x
  BY DEF Start
<1> HIDE DEF set
<1>4. /\ x \in Written /\ p \in Seen
      /\ p.terminal = [q.terminal EXCEPT !.now = Merge(q.terminal.now, set)]
      /\ p.own = q.own
      /\ p.faults \cap DrawingFaults = q.faults \cap DrawingFaults
      /\ p.line.edited = q.line.edited
  BY <1>1, SgrSeen
<1>5. x.c = "sgr"
  BY <1>1, OverlayItems
<1> HIDE DEF p, x
<1>6. q.terminal \in Terminal /\ q.terminal.now \in Rendition /\ n.now \in Rendition
  BY DEF Seen, Terminal
<1>7. /\ p.terminal.now = Merge(q.terminal.now, set)
      /\ p.terminal.saved = q.terminal.saved /\ p.terminal.alt = q.terminal.alt
  BY <1>4, <1>6 DEF Terminal
<1>8. Merge(q.terminal.now, set) = Over(n.now, style)
  <2>1. /\ Merge(q.terminal.now, set) \in Rendition
        /\ \A a \in Attributes : Merge(q.terminal.now, set)[a]
             = IF a \in style THEN set[a] ELSE q.terminal.now[a]
    BY <1>1, <1>2, <1>6, MergeFacts
  <2>2. /\ Over(n.now, style) \in Rendition
        /\ \A a \in Attributes : Over(n.now, style)[a] = IF a \in style THEN "hl" ELSE n.now[a]
    BY <1>6, OverFacts
  <2>3. \A a \in Attributes : a \notin style => q.terminal.now[a] = n.now[a]
    BY DEF Near
  <2> QED
    BY <1>2, <2>1, <2>2, <2>3, SameRendition
<1>9. Tracks(n, style, p)
  <2>1. /\ p.own = n /\ p.terminal.now = Over(n.now, style)
        /\ p.terminal.saved = n.saved /\ p.terminal.alt = n.alt
        /\ p.faults \cap DrawingFaults = {}
    BY <1>4, <1>7, <1>8 DEF Near
  <2> QED
    BY <1>4, <2>1, TracksIs
<1> QED
  BY <1>3, <1>4, <1>5, <1>9 DEF p

(* One that ends leaves the command's rendition.                             *)
LEMMA ResetSeen ==
  ASSUME NEW n \in Terminal, NEW style \in SUBSET Attributes, NEW m, NEW q \in Seen,
         Tracks(n, style, q)
  PROVE  LET x == Reset(style, n, m)
         IN /\ x \in Written /\ x.c = "sgr" /\ See(q, x) \in Seen
            /\ Tracks(n, {}, See(q, x))
            /\ See(q, x).line.edited = q.line.edited
<1> DEFINE set == IF m THEN n.now ELSE [a \in style |-> n.now[a]]
           x == Overlay(set)
           p == See(q, x)
<1>1. n.now \in Rendition /\ q.terminal \in Terminal /\ q.terminal.now \in Rendition
  BY DEF Seen, Terminal
<1>2. set \in Settings
  <2>1. n.now \in [Attributes -> Values]
    BY <1>1 DEF Rendition, Values
  <2>2. [a \in style |-> n.now[a]] \in [style -> Values]
    BY <2>1
  <2> QED
    BY <2>1, <2>2, SettingFacts
<1>3. /\ style \subseteq DOMAIN set
      /\ \A a \in Attributes : a \in DOMAIN set => set[a] = n.now[a]
  BY <1>1 DEF Rendition
<1>4. Reset(style, n, m) = x
  BY DEF Reset
<1> HIDE DEF set
<1>5. /\ x \in Written /\ p \in Seen
      /\ p.terminal = [q.terminal EXCEPT !.now = Merge(q.terminal.now, set)]
      /\ p.own = q.own
      /\ p.faults \cap DrawingFaults = q.faults \cap DrawingFaults
      /\ p.line.edited = q.line.edited
  BY <1>2, SgrSeen
<1>6. x.c = "sgr"
  BY <1>2, OverlayItems
<1> HIDE DEF p, x
<1>7. /\ p.terminal.now = Merge(q.terminal.now, set)
      /\ p.terminal.saved = q.terminal.saved /\ p.terminal.alt = q.terminal.alt
  BY <1>1, <1>5 DEF Terminal
<1>8. Near(n, style, q)
  BY NearFacts
<1>9. \A a \in Attributes : Merge(q.terminal.now, set)[a] = n.now[a]
  <2>1. \A a \in Attributes : Merge(q.terminal.now, set)[a]
             = IF a \in DOMAIN set THEN set[a] ELSE q.terminal.now[a]
    BY <1>1, <1>2, MergeFacts
  <2>2. \A a \in Attributes : a \notin style => q.terminal.now[a] = n.now[a]
    BY <1>8 DEF Near
  <2> QED
    BY <1>3, <2>1, <2>2
<1>10. Near(n, {}, p)
  BY <1>5, <1>7, <1>8, <1>9 DEF Near
<1>11. Tracks(n, {}, p)
  BY <1>5, <1>10, NearFacts
<1> QED
  BY <1>4, <1>5, <1>6, <1>11 DEF p

(* What an item may be written on.                                          *)
Suits(x, style) ==
  /\ IsText(x) => \/ x.style = style
                  \/ x.style = {} /\ x.c = " " /\ ~PaintsBlanks(style)
                  \/ x.c \in {"cr", "bs"}
                  \/ x.c = "lf" /\ ~PaintsBlanks(style)
  /\ x.c \in Fills => ~PaintsBlanks(style)

(* Then nothing goes wrong.                                                  *)
LEMMA SuitsIsQuiet ==
  ASSUME NEW n \in Terminal, NEW style \in SUBSET Attributes, NEW q \in Seen,
         Tracks(n, style, q), NEW x \in Drawn, Suits(x, style)
  PROVE  FaultsOf(q, x) \cap DrawingFaults = {}
<1> DEFINE shown == q.terminal.now
           meant == Over(n.now, x.style)
<1>1. /\ q.own = n /\ shown = Over(n.now, style)
  BY TracksIs
<1>2. n.now \in Rendition
  BY DEF Terminal
<1>3. \A a \in Attributes : shown[a] = IF a \in style THEN "hl" ELSE n.now[a]
  BY <1>1, <1>2, OverFacts
<1>4. \A a \in Attributes : meant[a] = IF a \in x.style THEN "hl" ELSE n.now[a]
  BY <1>2, OverFacts
<1>5. x.style # {} => x.c \in Words
  BY DEF Drawn, Written
<1> HIDE DEF shown, meant
<1>6. ~PaintsBlanks(style) => \A a \in Blanks : shown[a] = n.now[a]
  BY <1>3 DEF PaintsBlanks, Blanks
<1>7. ASSUME IsText(x), x.c \notin {"cr", "lf", "bs"}
      PROVE  Agree(shown, meant, IF x.c = " " THEN Blanks ELSE Attributes)
  <2>1. CASE x.style = style
    BY <1>3, <1>4, <2>1 DEF Agree, Blanks
  <2>2. CASE x.style = {} /\ x.c = " " /\ ~PaintsBlanks(style)
    BY <1>4, <1>6, <2>2 DEF Agree, Blanks
  <2> QED
    BY <1>7, <2>1, <2>2 DEF Suits
<1>8. ASSUME x.c \in Fills \cup {"lf"} PROVE Agree(shown, n.now, Blanks)
  <2>1. CASE ~PaintsBlanks(style)
    BY <1>6, <2>1 DEF Agree
  <2>2. CASE x.c = "lf" /\ x.style = style
    <3>1. style = {}
      BY <1>5, <2>2 DEF Words
    <3> QED
      BY <1>3, <3>1 DEF Agree, Blanks
  <2> QED
    BY <1>8, <2>1, <2>2 DEF Suits, IsText, TextClasses, Words, Fills
<1> QED
  BY <1>1, <1>7, <1>8 DEF FaultsOf, DrawingFaults, shown, meant

(* Items at which a terminal does not change, or only its screen. *)
Keeps(x) ==
  x.c \notin Saves \cup Restores \cup FromAlternate \cup {"sgr", "CSI !p", "ESC c"}

(* A command's item, seen: the command's own rendition is followed.            *)
LEMMA CommandSeen ==
  ASSUME NEW n \in Terminal, NEW style \in SUBSET Attributes, NEW q \in Seen,
         Tracks(n, style, q), NEW x \in Drawn, Suits(x, style)
  PROVE  /\ See(q, x) \in Seen /\ Apply(n, x) \in Terminal
         /\ Apply(n, x) = Obey(n, x)
         /\ See(q, x).own = Apply(n, x)
         /\ See(q, x).faults \cap DrawingFaults = {}
         /\ See(q, x).terminal = Obey(q.terminal, x)
         /\ See(q, x).line = LineWith(q.line, x, n.alt)
<1>1. x \in Written /\ x.by = "command"
  BY DEF Drawn
<1>2. q.own = n /\ q.faults \cap DrawingFaults = {}
  BY TracksIs
<1>3. FaultsOf(q, x) \cap DrawingFaults = {}
  BY SuitsIsQuiet
<1>4. /\ See(q, x) \in Seen
      /\ See(q, x).terminal = Obey(q.terminal, x)
      /\ See(q, x).own = Obey(q.own, x)
      /\ See(q, x).faults = q.faults \cup FaultsOf(q, x)
      /\ See(q, x).line = LineWith(q.line, x, q.own.alt)
  BY <1>1, SeeIs
<1>5. Apply(n, x) = Obey(n, x) /\ Obey(n, x) \in Terminal
  BY <1>1, ApplyIsObey, ObeyType
<1> QED
  BY <1>1, <1>2, <1>3, <1>4, <1>5

-----------------------------------------------------------------------------
(* What is written, by its classes. *)

Seeing(b, out) == InTurn(See, b, out)
Marked(r, items) == InTurn(Rewrites, r, items)
Same(a, d) == WithoutSgr(a) = WithoutSgr(d)

(* What is seen of what is written, one item after the other. *)
LEMMA SeenFacts ==
  ASSUME NEW b \in Seen
  PROVE  /\ Seeing(b, <<>>) = b
         /\ \A s \in Seq(Written) : Seeing(b, s) \in Seen
         /\ \A s \in Seq(Written), x \in Written :
              Seeing(b, Append(s, x)) = See(Seeing(b, s), x)
<1> DEFINE R(s) == Seeing(b, s)
           F == [x \in Written |-> [v \in Seen |-> See(v, x)]]
           Way(f, s) == f = [i \in 0 .. Len(s) |->
                               IF i = 0 THEN b ELSE See(f[i - 1], s[i])]
           G(s) == CHOOSE f : Way(f, s)
<1>8. \A v \in Seen, x \in Written : See(v, x) \in Seen
  BY SeeIs
<1>1. F \in [Written -> [Seen -> Seen]]
  BY <1>8
<1>2. \A x \in Written, v \in Seen : F[x][v] = See(v, x)
  OBVIOUS
<1>3. \A s : R(s) = G(s)[Len(s)]
  BY DEF Seeing, InTurn
<1> HIDE DEF F, R
<1>4. ASSUME NEW s \in Seq(Written) PROVE Folds(Seen, F, b, s, R(s))
  <2>1. Len(s) \in Nat /\ \A k \in 1 .. Len(s) : s[k] \in Written
    BY LenProperties, ElementOfSeq
  <2>2. PICK g : Works(Seen, b, Along(F, s), g, Len(s))
    BY <1>1, FoldExists
  <2>3. g \in [0 .. Len(s) -> Seen] /\ g[0] = b /\ \A k \in 1 .. Len(s) : g[k] = F[s[k]][g[k - 1]]
    <3>1. /\ Along(F, s) \in [1 .. Len(s) -> [Seen -> Seen]]
          /\ \A k \in 1 .. Len(s) : Along(F, s)[k] = F[s[k]]
          /\ Len(s) \in Nat
      BY <1>1, StepsOf, Zenon
    <3> QED
      BY <2>2, <3>1 DEF Works
  <2>4. Way(g, s)
    <3>1. \A k \in 1 .. Len(s) : k - 1 \in 0 .. Len(s)
      BY <2>1
    <3>2. \A k \in 1 .. Len(s) : g[k] = See(g[k - 1], s[k])
      BY <1>2, <2>1, <2>3, <3>1
    <3> QED
      BY <2>1, <2>3, <3>2
  <2>5. Way(G(s), s)
    <3> HIDE DEF Way
    <3> QED
      BY <2>4
  <2> HIDE DEF G
  <2>6. \A i \in 0 .. Len(s) : G(s)[i] = IF i = 0 THEN b ELSE See(G(s)[i - 1], s[i])
    BY <2>5
  <2>7. G(s)[0] = b
    BY <2>1, <2>6
  <2>8. \A k \in 1 .. Len(s) : G(s)[k - 1] \in Seen => G(s)[k] = F[s[k]][G(s)[k - 1]]
    BY <1>2, <2>1, <2>6
  <2> HIDE DEF Way
  <2>9. Folds(Seen, F, b, s, G(s)[Len(s)])
    BY <1>1, <2>7, <2>8, FoldIs
  <2> QED
    BY <1>3, <2>9
<1>5. R(<<>>) = b
  BY <1>1, <1>4, EmptySeq, FoldFacts
<1>6. \A s \in Seq(Written) : R(s) \in Seen
  BY <1>1, <1>4, FoldFacts
<1>7. ASSUME NEW s \in Seq(Written), NEW x \in Written PROVE R(Append(s, x)) = See(R(s), x)
  <2>1. Append(s, x) \in Seq(Written)
    BY AppendProperties
  <2> DEFINE u == R(s)
             w == R(Append(s, x))
  <2>3. Folds(Seen, F, b, s, u) /\ Folds(Seen, F, b, Append(s, x), w)
    BY <1>4, <2>1
  <2> HIDE DEF u, w
  <2>4. w = F[x][u]
    BY <1>1, <2>3, FoldFacts
  <2>2. R(Append(s, x)) = F[x][R(s)]
    BY <2>4 DEF u, w
  <2> QED
    BY <1>2, <1>6, <2>2
<1> QED
  BY <1>5, <1>6, <1>7 DEF R

(* The mark of an edit, one item after the other. *)
LEMMA MarkFacts ==
  ASSUME NEW r \in BOOLEAN
  PROVE  /\ Marked(r, <<>>) = r
         /\ \A s \in Seq(Written) : Marked(r, s) \in BOOLEAN
         /\ \A s \in Seq(Written), x \in Written :
              Marked(r, Append(s, x)) = Rewrites(Marked(r, s), x)
<1>1. \A v \in BOOLEAN, x \in Written : Rewrites(v, x) \in BOOLEAN
  BY RewritesIs
<1> QED
  BY <1>1, RewritesFolds DEF Marked

(* The classes of what is written. *)
LEMMA ClassFacts ==
  /\ WithoutSgr(<<>>) = <<>>
  /\ \A s \in Seq(Written) : WithoutSgr(s) \in Seq(Classes)
  /\ \A s \in Seq(Written), x \in Written :
       WithoutSgr(Append(s, x)) =
         IF x.c = "sgr" THEN WithoutSgr(s) ELSE Append(WithoutSgr(s), x.c)
<1>1. \A v \in Seq(Classes), x \in Written : KeepClass(v, x) \in Seq(Classes)
  <2>1. TAKE v \in Seq(Classes), x \in Written
  <2>2. x.c \in Classes
    BY DEF Written
  <2> QED
    BY <2>2, AppendProperties DEF KeepClass
<1>2. <<>> \in Seq(Classes)
  BY EmptySeq
<1> QED
  BY <1>1, <1>2, KeepClassFolds DEF WithoutSgr, KeepClass

(* Adding at the end of what is added. *)
LEMMA ConcatAppend ==
  ASSUME NEW S, NEW s \in Seq(S), NEW t \in Seq(S), NEW x \in S
  PROVE  s \o Append(t, x) = Append(s \o t, x)
<1>1. /\ s \o t \in Seq(S) /\ Len(s \o t) = Len(s) + Len(t)
      /\ \A i \in 1 .. Len(s) + Len(t) : (s \o t)[i] = IF i <= Len(s) THEN s[i] ELSE t[i - Len(s)]
  BY ConcatProperties
<1>2. /\ Append(t, x) \in Seq(S) /\ Len(Append(t, x)) = Len(t) + 1
      /\ \A i \in 1 .. Len(t) : Append(t, x)[i] = t[i]
      /\ Append(t, x)[Len(t) + 1] = x
  BY AppendProperties
<1> DEFINE u == Append(t, x)
           v == s \o t
<1>3. /\ s \o u \in Seq(S) /\ Len(s \o u) = Len(s) + Len(u)
      /\ \A i \in 1 .. Len(s) + Len(u) : (s \o u)[i] = IF i <= Len(s) THEN s[i] ELSE u[i - Len(s)]
  BY <1>2, ConcatProperties
<1>4. /\ Append(v, x) \in Seq(S) /\ Len(Append(v, x)) = Len(v) + 1
      /\ \A i \in 1 .. Len(v) : Append(v, x)[i] = v[i]
      /\ Append(v, x)[Len(v) + 1] = x
  BY <1>1, AppendProperties
<1>5. Len(s) \in Nat /\ Len(t) \in Nat
  BY LenProperties
<1> HIDE DEF u, v
<1>6. Len(u) = Len(t) + 1 /\ Len(v) = Len(s) + Len(t)
  BY <1>1, <1>2 DEF u, v
<1>7. ASSUME NEW i \in 1 .. Len(s) + Len(t) + 1 PROVE (s \o u)[i] = Append(v, x)[i]
  <2>1. CASE i <= Len(s)
    <3>1. (s \o u)[i] = s[i]
      BY <1>3, <1>5, <1>6, <2>1
    <3>2. Append(v, x)[i] = v[i] /\ v[i] = s[i]
      BY <1>1, <1>4, <1>5, <1>6, <2>1 DEF v
    <3> QED
      BY <3>1, <3>2
  <2>2. CASE i > Len(s) /\ i <= Len(s) + Len(t)
    <3>1. i - Len(s) \in 1 .. Len(t) /\ i \in 1 .. Len(s) + Len(t)
      BY <1>5, <2>2
    <3>2. (s \o u)[i] = u[i - Len(s)] /\ u[i - Len(s)] = t[i - Len(s)]
      BY <1>2, <1>3, <1>5, <1>6, <2>2, <3>1 DEF u
    <3>3. Append(v, x)[i] = v[i] /\ v[i] = t[i - Len(s)]
      BY <1>1, <1>4, <1>5, <1>6, <2>2, <3>1 DEF v
    <3> QED
      BY <3>2, <3>3
  <2>3. CASE i = Len(s) + Len(t) + 1
    <3>1. i - Len(s) = Len(t) + 1 /\ ~(i <= Len(s)) /\ i = Len(v) + 1
      BY <1>5, <1>6, <2>3
    <3>2. (s \o u)[i] = u[i - Len(s)]
      BY <1>3, <1>5, <1>6, <3>1
    <3>3. u[Len(t) + 1] = x
      BY <1>2 DEF u
    <3> QED
      BY <1>4, <3>1, <3>2, <3>3
  <2>4. i \in Nat /\ i <= Len(s) + Len(t) + 1
    BY <1>5
  <2>5. i <= Len(s) \/ (i > Len(s) /\ i <= Len(s) + Len(t)) \/ i = Len(s) + Len(t) + 1
    BY <1>5, <2>4
  <2> QED
    BY <2>1, <2>2, <2>3, <2>5
<1>8. s \o u = Append(v, x)
  <2>1. Len(s \o u) = Len(s) + Len(t) + 1 /\ Len(Append(v, x)) = Len(s) + Len(t) + 1
    BY <1>3, <1>4, <1>5, <1>6
  <2> QED
    BY <1>3, <1>4, <1>7, <2>1, SeqEqual
<1> QED
  BY <1>8 DEF u, v

(* The classes of one thing written after another. *)
LEMMA ClassConcat ==
  ASSUME NEW s \in Seq(Written), NEW t \in Seq(Written)
  PROVE  WithoutSgr(s \o t) = WithoutSgr(s) \o WithoutSgr(t)
<1> DEFINE P == {u \in Seq(Written) : WithoutSgr(s \o u) = WithoutSgr(s) \o WithoutSgr(u)}
<1>1. <<>> \in P
  <2>1. s \o <<>> = s
    BY ConcatEmptySeq
  <2>2. WithoutSgr(s) \o <<>> = WithoutSgr(s)
    BY ClassFacts, ConcatEmptySeq
  <2> QED
    BY <2>1, <2>2, ClassFacts, EmptySeq
<1>2. ASSUME NEW u \in Seq(Written), NEW x \in Written, u \in P PROVE Append(u, x) \in P
  <2>1. s \o Append(u, x) = Append(s \o u, x) /\ Append(u, x) \in Seq(Written)
    BY ConcatAppend, AppendProperties
  <2>2. s \o u \in Seq(Written)
    BY ConcatProperties
  <2>3. WithoutSgr(s \o Append(u, x))
          = IF x.c = "sgr" THEN WithoutSgr(s \o u) ELSE Append(WithoutSgr(s \o u), x.c)
    BY <2>1, <2>2, ClassFacts
  <2>4. WithoutSgr(Append(u, x))
          = IF x.c = "sgr" THEN WithoutSgr(u) ELSE Append(WithoutSgr(u), x.c)
    BY ClassFacts
  <2>5. WithoutSgr(s) \o Append(WithoutSgr(u), x.c) = Append(WithoutSgr(s) \o WithoutSgr(u), x.c)
    <3>1. x.c \in Classes /\ WithoutSgr(s) \in Seq(Classes) /\ WithoutSgr(u) \in Seq(Classes)
      BY ClassFacts DEF Written
    <3> QED
      BY <3>1, ConcatAppend
  <2>6. WithoutSgr(s \o u) = WithoutSgr(s) \o WithoutSgr(u)
    BY <1>2
  <2>7. WithoutSgr(s \o Append(u, x)) = WithoutSgr(s) \o WithoutSgr(Append(u, x))
    BY <2>3, <2>4, <2>5, <2>6
  <2> QED
    BY <2>1, <2>7
<1>3. t \in P
  <2> HIDE DEF P
  <2> QED
    BY <1>1, <1>2, EachSequence
<1> QED
  BY <1>3

(* What is written after the same is the same. *)
LEMMA SameConcat ==
  ASSUME NEW s \in Seq(Written), NEW t \in Seq(Written),
         NEW u \in Seq(Written), NEW v \in Seq(Written), Same(s, t), Same(u, v)
  PROVE  Same(s \o u, t \o v)
<1>1. WithoutSgr(s \o u) = WithoutSgr(s) \o WithoutSgr(u)
  BY ClassConcat
<1>2. WithoutSgr(t \o v) = WithoutSgr(t) \o WithoutSgr(v)
  BY ClassConcat
<1> QED
  BY <1>1, <1>2 DEF Same

(* Items of these classes. *)
Bare(classes) == [i \in 1 .. Len(classes) |-> Item(classes[i])]

(* Whether a line was edited is told by the classes. *)
LEMMA MarkBare ==
  ASSUME NEW r \in BOOLEAN, NEW s \in Seq(Written)
  PROVE  Marked(r, s) = Marked(r, Bare(WithoutSgr(s)))
<1> DEFINE P == {u \in Seq(Written) : Bare(WithoutSgr(u)) \in Seq(Written)
                                      /\ Marked(r, u) = Marked(r, Bare(WithoutSgr(u)))}
<1>1. <<>> \in P
  <2>1. Bare(<<>>) = <<>>
    BY DEF Bare
  <2> QED
    BY <2>1, ClassFacts, EmptySeq
<1>2. ASSUME NEW u \in Seq(Written), NEW x \in Written, u \in P PROVE Append(u, x) \in P
  <2> DEFINE k == WithoutSgr(u)
  <2>1. k \in Seq(Classes) /\ Append(u, x) \in Seq(Written)
    BY ClassFacts, AppendProperties
  <2>2. Marked(r, Append(u, x)) = Rewrites(Marked(r, u), x) /\ Marked(r, u) \in BOOLEAN
    BY MarkFacts
  <2>3. CASE x.c = "sgr"
    <3>1. WithoutSgr(Append(u, x)) = k
      BY <2>3, ClassFacts
    <3>2. Rewrites(Marked(r, u), x) = Marked(r, u)
      BY <2>2, <2>3, RewritesIs DEF InPlaceEdits
    <3> QED
      BY <1>2, <2>1, <2>2, <3>1, <3>2
  <2>4. CASE x.c # "sgr"
    <3>1. WithoutSgr(Append(u, x)) = Append(k, x.c)
      BY <2>4, ClassFacts
    <3>2. x.c \in Classes \ {"sgr"}
      BY <2>4 DEF Written
    <3>3. Item(x.c) \in Written /\ Item(x.c).c = x.c
      BY <3>2 DEF Written, Item
    <3>4. Bare(Append(k, x.c)) = Append(Bare(k), Item(x.c))
      <4> HIDE DEF k
      <4>1. /\ Append(k, x.c) \in Seq(Classes) /\ Len(Append(k, x.c)) = Len(k) + 1
            /\ \A i \in 1 .. Len(k) : Append(k, x.c)[i] = k[i]
            /\ Append(k, x.c)[Len(k) + 1] = x.c
        BY <2>1, <3>2, AppendProperties
      <4>2. Len(k) \in Nat
        BY <2>1, LenProperties
      <4>3. Bare(k) = [i \in 1 .. Len(k) |-> Item(k[i])]
        BY DEF Bare
      <4>4. Bare(Append(k, x.c)) = [i \in 1 .. Len(k) + 1 |-> Item(Append(k, x.c)[i])]
        BY <4>1 DEF Bare
      <4> DEFINE y == Item(x.c)
                 l == Bare(k)
                 g == Append(k, x.c)
                 z == [i \in 1 .. Len(k) + 1 |-> Item(g[i])]
      <4>5. Bare(k) \in Seq(Written) /\ Len(Bare(k)) = Len(k)
        <5>1. Bare(k) \in Seq(Written)
          BY <1>2 DEF k
        <5>2. DOMAIN Bare(k) = 1 .. Len(k)
          BY <4>3
        <5> QED
          BY <4>2, <5>1, <5>2, LenProperties
      <4>6. /\ Append(l, y) \in Seq(Written) /\ Len(Append(l, y)) = Len(l) + 1
            /\ \A i \in 1 .. Len(l) : Append(l, y)[i] = l[i]
            /\ Append(l, y)[Len(l) + 1] = y
        BY <3>3, <4>5, AppendProperties
      <4>7. DOMAIN Append(l, y) = 1 .. Len(k) + 1
        BY <4>5, <4>6, LenProperties
      <4>8. \A i \in 1 .. Len(k) : l[i] = Item(k[i])
        BY <4>3
      <4>9. \A i \in 1 .. Len(k) + 1 : z[i] = Append(l, y)[i]
        <5> HIDE DEF l, g
        <5> SUFFICES ASSUME NEW i \in 1 .. Len(k) + 1 PROVE z[i] = Append(l, y)[i]
          OBVIOUS
        <5>1. CASE i = Len(k) + 1
          BY <4>1, <4>5, <4>6, <5>1 DEF g, l
        <5>2. CASE i # Len(k) + 1
          <6>1. i \in 1 .. Len(k)
            BY <4>2, <5>2
          <6> QED
            BY <4>1, <4>5, <4>6, <4>8, <6>1 DEF g, l
        <5> QED
          BY <5>1, <5>2
      <4>10. Append(l, y) = [i \in 1 .. Len(k) + 1 |-> Append(l, y)[i]]
        <5> HIDE DEF l, y
        <5>1. Append(l, y) \in [1 .. Len(Append(l, y)) -> Written]
          BY <4>6, LenProperties
        <5> QED
          BY <4>5, <4>6, <5>1 DEF l
      <4> QED
        BY <4>4, <4>9, <4>10
    <3>5. Append(Bare(k), Item(x.c)) \in Seq(Written)
      BY <1>2, <3>3, AppendProperties
    <3>6. Marked(r, Append(Bare(k), Item(x.c))) = Rewrites(Marked(r, Bare(k)), Item(x.c))
      BY <1>2, <3>3, MarkFacts
    <3>7. Rewrites(Marked(r, Bare(k)), Item(x.c)) = Rewrites(Marked(r, u), x)
      BY <1>2, <3>3 DEF Rewrites
    <3> QED
      BY <2>1, <2>2, <3>1, <3>4, <3>5, <3>6, <3>7
  <2> QED
    BY <2>3, <2>4
<1>3. s \in P
  <2> HIDE DEF P
  <2> QED
    BY <1>1, <1>2, EachSequence
<1> QED
  BY <1>3

(* The same classes, the same edits and switches of the screen. *)
LEMMA SameMarks ==
  ASSUME NEW r \in BOOLEAN, NEW s \in Seq(Written), NEW t \in Seq(Written), Same(s, t)
  PROVE  Marked(r, s) = Marked(r, t)
<1>1. Marked(r, s) = Marked(r, Bare(WithoutSgr(s)))
  BY MarkBare
<1>2. Marked(r, t) = Marked(r, Bare(WithoutSgr(t)))
  BY MarkBare
<1> QED
  BY <1>1, <1>2 DEF Same

(* One item more switches the screen if it does, or one before it.           *)
LEMMA EnablesAppend ==
  ASSUME NEW S, NEW s \in Seq(S), NEW x \in S
  PROVE  Enables(Append(s, x)) <=> Enables(s) \/ x.c \in ToAlternate
<1>1. /\ Append(s, x) \in Seq(S) /\ Len(Append(s, x)) = Len(s) + 1
      /\ \A i \in 1 .. Len(s) : Append(s, x)[i] = s[i]
      /\ Append(s, x)[Len(s) + 1] = x
  BY AppendProperties
<1>2. Len(s) \in Nat /\ DOMAIN s = 1 .. Len(s)
  BY LenProperties
<1> DEFINE t == Append(s, x)
<1>3. DOMAIN t = 1 .. Len(s) + 1
  BY <1>1, LenProperties
<1>4. Enables(s) <=> \E i \in 1 .. Len(s) : s[i].c \in ToAlternate
  BY <1>2 DEF Enables
<1>5. Enables(t) <=> \E i \in 1 .. Len(s) + 1 : t[i].c \in ToAlternate
  BY <1>3 DEF Enables
<1> HIDE DEF t
<1>6. \A i \in 1 .. Len(s) + 1 : i = Len(s) + 1 \/ i \in 1 .. Len(s)
  BY <1>2
<1>7. \A i \in 1 .. Len(s) : i \in 1 .. Len(s) + 1
  BY <1>2
<1>8. Len(s) + 1 \in 1 .. Len(s) + 1
  BY <1>2
<1>9. (\A i \in 1 .. Len(s) : t[i] = s[i]) /\ t[Len(s) + 1] = x
  BY <1>1 DEF t
<1>10. Enables(t) <=> Enables(s) \/ x.c \in ToAlternate
  BY <1>4, <1>5, <1>6, <1>7, <1>8, <1>9
<1> QED
  BY <1>10 DEF t

(* Whether the screen is switched is told by the classes.                  *)
LEMMA EnablesSame ==
  ASSUME NEW s \in Seq(Written)
  PROVE  Enables(s) <=> Enables(Bare(WithoutSgr(s)))
<1> DEFINE P == {u \in Seq(Written) : Enables(u) <=> Enables(Bare(WithoutSgr(u)))}
<1>1. <<>> \in P
  <2>1. ~Enables(<<>>)
    BY DEF Enables
  <2>2. Bare(<<>>) = <<>>
    BY DEF Bare
  <2> QED
    BY <2>1, <2>2, ClassFacts, EmptySeq
<1>2. ASSUME NEW u \in Seq(Written), NEW x \in Written, u \in P PROVE Append(u, x) \in P
  <2> DEFINE k == WithoutSgr(u)
  <2>1. k \in Seq(Classes) /\ Append(u, x) \in Seq(Written)
    BY ClassFacts, AppendProperties
  <2>2. Enables(Append(u, x)) <=> Enables(u) \/ x.c \in ToAlternate
    BY EnablesAppend
  <2>3. CASE x.c = "sgr"
    <3>1. WithoutSgr(Append(u, x)) = k
      BY <2>3, ClassFacts
    <3> QED
      BY <1>2, <2>1, <2>2, <2>3, <3>1 DEF ToAlternate
  <2>4. CASE x.c # "sgr"
    <3>1. WithoutSgr(Append(u, x)) = Append(k, x.c)
      BY <2>4, ClassFacts
    <3> HIDE DEF k
    <3>2. x.c \in Classes
      BY DEF Written
    <3>3. /\ Append(k, x.c) \in Seq(Classes) /\ Len(Append(k, x.c)) = Len(k) + 1
          /\ \A i \in 1 .. Len(k) : Append(k, x.c)[i] = k[i]
          /\ Append(k, x.c)[Len(k) + 1] = x.c
      BY <2>1, <3>2, AppendProperties
    <3>4. Len(k) \in Nat
      BY <2>1, LenProperties
    <3> DEFINE g == Append(k, x.c)
    <3>5. Enables(Bare(k)) <=> \E i \in 1 .. Len(k) : k[i] \in ToAlternate
      BY DEF Enables, Bare, Item
    <3>6. Enables(Bare(g)) <=> \E i \in 1 .. Len(k) + 1 : g[i] \in ToAlternate
      BY <3>3 DEF Enables, Bare, Item
    <3> HIDE DEF g
    <3>7. (\A i \in 1 .. Len(k) : g[i] = k[i]) /\ g[Len(k) + 1] = x.c
      BY <3>3 DEF g
    <3>8. /\ \A i \in 1 .. Len(k) + 1 : i = Len(k) + 1 \/ i \in 1 .. Len(k)
          /\ \A i \in 1 .. Len(k) : i \in 1 .. Len(k) + 1
          /\ Len(k) + 1 \in 1 .. Len(k) + 1
      BY <3>4
    <3>9. Enables(Bare(g)) <=> Enables(Bare(k)) \/ x.c \in ToAlternate
      BY <3>5, <3>6, <3>7, <3>8
    <3> QED
      BY <1>2, <2>1, <2>2, <3>1, <3>9 DEF g, k
  <2> QED
    BY <2>3, <2>4
<1>3. s \in P
  <2> HIDE DEF P
  <2> QED
    BY <1>1, <1>2, EachSequence
<1> QED
  BY <1>3

(* So what is the same switches it or does not.                            *)
LEMMA SameEnables ==
  ASSUME NEW s \in Seq(Written), NEW t \in Seq(Written), Same(s, t)
  PROVE  Enables(s) <=> Enables(t)
<1>1. Enables(s) <=> Enables(Bare(WithoutSgr(s)))
  BY EnablesSame
<1>2. Enables(t) <=> Enables(Bare(WithoutSgr(t)))
  BY EnablesSame
<1> QED
  BY <1>1, <1>2 DEF Same

-----------------------------------------------------------------------------
(* What is written of what was read. *)

(* out is what a call, that began as from, has written of done: with its      *)
(* classes, and the mark of an edit where no screen is switched.             *)
Keeping(b, from, done, out, alternate) ==
  /\ out \in Seq(Written) /\ done \in Seq(Drawn)
  /\ Same(out, from.out \o done)
  /\ ~Enables(done) /\ ~from.alternate
     => ~alternate /\ (Marked(from.rewritten, done) => Seeing(b, out).line.edited)

(* And shows it in the rendition n, under the open highlight. *)
Showing(b, out, n, style, alternate) ==
  /\ out \in Seq(Written) /\ n \in Terminal /\ style \in SUBSET Attributes
  /\ Tracks(n, style, Seeing(b, out))
  /\ n.alt => alternate

(* Adding at the end of what is written after something. *)
LEMMA ConcatWritten ==
  \A s \in Seq(Written), t \in Seq(Written), x \in Written :
    s \o Append(t, x) = Append(s \o t, x)
BY ConcatAppend

(* A highlight's SGR is not of what was read. *)
LEMMA KeepingSgr ==
  ASSUME NEW b \in Seen, NEW from, from.out \in Seq(Written), NEW done, NEW out, NEW alternate,
         Keeping(b, from, done, out, alternate), NEW x \in Written, x.c = "sgr",
         See(Seeing(b, out), x).line.edited = Seeing(b, out).line.edited
  PROVE  Keeping(b, from, done, Append(out, x), alternate)
<1>1. out \in Seq(Written)
  BY DEF Keeping
<1>2. Append(out, x) \in Seq(Written) /\ Seeing(b, Append(out, x)) = See(Seeing(b, out), x)
  BY <1>1, AppendProperties, SeenFacts
<1>3. Same(Append(out, x), from.out \o done)
  <2>1. WithoutSgr(Append(out, x)) = WithoutSgr(out)
    BY <1>1, ClassFacts
  <2> QED
    BY <2>1 DEF Keeping, Same
<1> QED
  BY <1>2, <1>3 DEF Keeping

(* An item that was read, written. *)
LEMMA KeepingItem ==
  ASSUME NEW b \in Seen, NEW from, from.out \in Seq(Written), from.rewritten \in BOOLEAN,
         NEW done, NEW out, NEW alternate, Keeping(b, from, done, out, alternate),
         NEW n \in Terminal, n.alt => alternate, NEW x \in Drawn, NEW later,
         See(Seeing(b, out), x).line = LineWith(Seeing(b, out).line, x, n.alt),
         x.c \notin ToAlternate /\ ~alternate => ~later
  PROVE  Keeping(b, from, Append(done, x), Append(out, x), later)
<1> DEFINE q == Seeing(b, out)
<1>1. out \in Seq(Written) /\ done \in Seq(Drawn) /\ done \in Seq(Written) /\ x \in Written
  <2>1. Drawn \subseteq Written
    BY DEF Drawn
  <2>2. Seq(Drawn) \subseteq Seq(Written)
    BY <2>1, SeqMonotonic
  <2> QED
    BY <2>1, <2>2 DEF Keeping
<1>2. /\ Append(out, x) \in Seq(Written) /\ Append(done, x) \in Seq(Drawn)
      /\ Seeing(b, Append(out, x)) = See(q, x) /\ q \in Seen
  BY <1>1, AppendProperties, SeenFacts
<1>3. Same(Append(out, x), from.out \o Append(done, x))
  <2>1. from.out \o done \in Seq(Written)
    BY <1>1, ConcatProperties
  <2> DEFINE o == from.out
  <2> HIDE DEF o
  <2>5. o \in Seq(Written)
    BY DEF o
  <2>6. o \o Append(done, x) = Append(o \o done, x)
    BY <1>1, <2>5, ConcatWritten
  <2>2. from.out \o Append(done, x) = Append(from.out \o done, x)
    BY <2>6 DEF o
  <2>3. WithoutSgr(Append(from.out \o done, x))
          = IF x.c = "sgr" THEN WithoutSgr(from.out \o done)
            ELSE Append(WithoutSgr(from.out \o done), x.c)
    BY <1>1, <2>1, ClassFacts
  <2>4. WithoutSgr(Append(out, x))
          = IF x.c = "sgr" THEN WithoutSgr(out) ELSE Append(WithoutSgr(out), x.c)
    BY <1>1, ClassFacts
  <2> QED
    BY <2>2, <2>3, <2>4 DEF Keeping, Same
<1>4. ASSUME ~Enables(Append(done, x)), ~from.alternate
      PROVE  ~later /\ (Marked(from.rewritten, Append(done, x)) => See(q, x).line.edited)
  <2>1. ~Enables(done) /\ x.c \notin ToAlternate
    BY <1>1, <1>4, EnablesAppend
  <2>2. ~alternate /\ (Marked(from.rewritten, done) => q.line.edited)
    BY <1>4, <2>1 DEF Keeping
  <2>3. n.alt = FALSE
    BY <2>2 DEF Terminal
  <2>4. See(q, x).line.edited = Rewrites(q.line.edited, x)
    <3>1. q.line.edited \in BOOLEAN
      BY <1>2 DEF Seen
    <3>2. Rewrites(q.line.edited, x) \in BOOLEAN
      BY <3>1, RewritesIs
    <3>3. LineWith(q.line, x, n.alt).edited = Rewrites(q.line.edited, x)
      BY <2>1, <2>3, <3>2 DEF LineWith
    <3> QED
      BY <3>3
  <2>5. Marked(from.rewritten, Append(done, x)) = Rewrites(Marked(from.rewritten, done), x)
    BY <1>1, MarkFacts
  <2>6. Rewrites(Marked(from.rewritten, done), x) => Rewrites(q.line.edited, x)
    BY <2>2 DEF Rewrites
  <2> QED
    BY <2>1, <2>2, <2>4, <2>5, <2>6
<1> HIDE DEF q
<1> QED
  BY <1>2, <1>3, <1>4 DEF Keeping

(* Both. *)
Fits(b, from, done, out, n, style, alternate) ==
  Keeping(b, from, done, out, alternate) /\ Showing(b, out, n, style, alternate)

(* What a call begins with. *)
Begins(from) == from.out \in Seq(Written) /\ from.rewritten \in BOOLEAN

(* The end of the highlight, written. *)
LEMMA FitsReset ==
  ASSUME NEW b \in Seen, NEW from, Begins(from), NEW done, NEW out, NEW n, NEW style,
         NEW alternate, Fits(b, from, done, out, n, style, alternate), NEW m
  PROVE  Fits(b, from, done, Append(out, Reset(style, n, m)), n, {}, alternate)
<1> DEFINE q == Seeing(b, out)
           x == Reset(style, n, m)
<1>1. /\ out \in Seq(Written) /\ n \in Terminal /\ style \in SUBSET Attributes
      /\ Tracks(n, style, q) /\ (n.alt => alternate)
  BY DEF Fits, Showing
<1>2. q \in Seen
  BY <1>1, SeenFacts
<1> HIDE DEF q
<1>3. /\ x \in Written /\ x.c = "sgr" /\ See(q, x) \in Seen
      /\ Tracks(n, {}, See(q, x))
      /\ See(q, x).line.edited = q.line.edited
  BY <1>1, <1>2, ResetSeen
<1> HIDE DEF x
<1>4. Append(out, x) \in Seq(Written) /\ Seeing(b, Append(out, x)) = See(q, x)
  BY <1>1, <1>3, AppendProperties, SeenFacts DEF q
<1>5. Keeping(b, from, done, Append(out, x), alternate)
  BY <1>3, KeepingSgr DEF Fits, Begins, q
<1>6. Showing(b, Append(out, x), n, {}, alternate)
  BY <1>1, <1>3, <1>4 DEF Showing
<1> QED
  BY <1>5, <1>6 DEF Fits, x

(* The start of one that covers the one before it. *)
LEMMA FitsStart ==
  ASSUME NEW b \in Seen, NEW from, Begins(from), NEW done, NEW out, NEW n, NEW style,
         NEW alternate, Keeping(b, from, done, out, alternate), out \in Seq(Written),
         n \in Terminal, n.alt => alternate, style \in SUBSET Attributes,
         Near(n, style, Seeing(b, out))
  PROVE  Fits(b, from, done, Append(out, Start(style)), n, style, alternate)
<1> DEFINE q == Seeing(b, out)
           x == Start(style)
<1>2. q \in Seen
  BY SeenFacts
<1> HIDE DEF q
<1>3. /\ x \in Written /\ x.c = "sgr" /\ See(q, x) \in Seen
      /\ Tracks(n, style, See(q, x))
      /\ See(q, x).line.edited = q.line.edited
  BY <1>2, StartSeen DEF q
<1> HIDE DEF x
<1>4. Append(out, x) \in Seq(Written) /\ Seeing(b, Append(out, x)) = See(q, x)
  BY <1>3, AppendProperties, SeenFacts DEF q
<1>5. Keeping(b, from, done, Append(out, x), alternate)
  BY <1>3, KeepingSgr DEF Begins, q
<1>6. Showing(b, Append(out, x), n, style, alternate)
  BY <1>3, <1>4 DEF Showing
<1> QED
  BY <1>5, <1>6 DEF Fits, x

(* What is covered is near. *)
LEMMA NearMore ==
  ASSUME NEW n \in Terminal, NEW style, NEW next, style \subseteq next, NEW q \in Seen,
         Near(n, style, q)
  PROVE  Near(n, next, q)
BY DEF Near

(* The start of another highlight. *)
LEMMA FitsNext ==
  ASSUME NEW b \in Seen, NEW from, Begins(from), NEW done, NEW out, NEW n, NEW style,
         NEW alternate, Fits(b, from, done, out, n, style, alternate),
         NEW next \in SUBSET Attributes, style \subseteq next
  PROVE  Fits(b, from, done, Append(out, Start(next)), n, next, alternate)
<1>1. /\ out \in Seq(Written) /\ n \in Terminal /\ Tracks(n, style, Seeing(b, out))
      /\ (n.alt => alternate) /\ Keeping(b, from, done, out, alternate)
  BY DEF Fits, Showing
<1>2. Seeing(b, out) \in Seen
  BY <1>1, SeenFacts
<1>3. Near(n, next, Seeing(b, out))
  BY <1>1, <1>2, NearFacts, NearMore
<1> QED
  BY <1>1, <1>3, FitsStart

(* A text, and what else leaves the terminal alone. *)
LEMMA FitsItem ==
  ASSUME NEW b \in Seen, NEW from, Begins(from), NEW done, NEW out, NEW n, NEW style,
         NEW alternate, Fits(b, from, done, out, n, style, alternate),
         NEW x \in Drawn, Suits(x, style),
         NEW later, x.c \notin ToAlternate /\ ~alternate => ~later
  PROVE  /\ Keeping(b, from, Append(done, x), Append(out, x), later)
         /\ Append(out, x) \in Seq(Written)
         /\ Seeing(b, Append(out, x)) = See(Seeing(b, out), x)
         /\ See(Seeing(b, out), x) \in Seen /\ Apply(n, x) \in Terminal
         /\ Apply(n, x) = Obey(n, x)
         /\ See(Seeing(b, out), x).own = Apply(n, x)
         /\ See(Seeing(b, out), x).faults \cap DrawingFaults = {}
         /\ See(Seeing(b, out), x).terminal = Obey(Seeing(b, out).terminal, x)
<1> DEFINE q == Seeing(b, out)
<1>1. /\ out \in Seq(Written) /\ n \in Terminal /\ style \in SUBSET Attributes
      /\ Tracks(n, style, q) /\ (n.alt => alternate)
      /\ Keeping(b, from, done, out, alternate)
  BY DEF Fits, Showing
<1>2. q \in Seen /\ x \in Written
  BY <1>1, SeenFacts DEF Drawn
<1> HIDE DEF q
<1>3. /\ See(q, x) \in Seen /\ Apply(n, x) \in Terminal
      /\ Apply(n, x) = Obey(n, x)
      /\ See(q, x).own = Apply(n, x)
      /\ See(q, x).faults \cap DrawingFaults = {}
      /\ See(q, x).terminal = Obey(q.terminal, x)
      /\ See(q, x).line = LineWith(q.line, x, n.alt)
  <2>1. n \in Terminal /\ style \in SUBSET Attributes /\ q \in Seen /\ Tracks(n, style, q)
    BY <1>1, <1>2
  <2>2. x \in Drawn /\ Suits(x, style)
    OBVIOUS
  <2> QED
    BY <2>1, <2>2, CommandSeen, SMTT(60)
<1>4. Append(out, x) \in Seq(Written) /\ Seeing(b, Append(out, x)) = See(q, x)
  BY <1>1, <1>2, AppendProperties, SeenFacts DEF q
<1>5. Keeping(b, from, Append(done, x), Append(out, x), later)
  <2>1. from.out \in Seq(Written) /\ from.rewritten \in BOOLEAN
    BY DEF Begins
  <2>2. See(Seeing(b, out), x).line = LineWith(Seeing(b, out).line, x, n.alt)
    BY <1>3 DEF q
  <2>3. n \in Terminal /\ (n.alt => alternate) /\ Keeping(b, from, done, out, alternate)
    BY <1>1
  <2> QED
    BY <2>1, <2>2, <2>3, KeepingItem, Zenon
<1> QED
  BY <1>3, <1>4, <1>5 DEF q

(* Text leaves a terminal as it is. *)
LEMMA TextKeeps ==
  ASSUME NEW n \in Terminal, NEW x, IsText(x)
  PROVE  Obey(n, x) = n /\ x.c # "sgr" /\ x.c \notin ToAlternate \cup FromAlternate
<1>1. x.c \notin Saves \cup Restores \cup ToAlternate \cup FromAlternate
                 \cup {"sgr", "CSI !p", "ESC c"}
  BY DEF IsText, TextClasses, Words, Saves, Restores, ToAlternate, FromAlternate
<1> QED
  BY <1>1, ObeyIs

(* A text, written on what it may be written on. *)
LEMMA FitsText ==
  ASSUME NEW b \in Seen, NEW from, Begins(from), NEW done, NEW out, NEW n, NEW style,
         NEW alternate, Fits(b, from, done, out, n, style, alternate),
         NEW x \in Drawn, Suits(x, style), IsText(x)
  PROVE  Fits(b, from, Append(done, x), Append(out, x), n, style, alternate)
<1> DEFINE q == Seeing(b, out)
<1>1. /\ out \in Seq(Written) /\ n \in Terminal /\ style \in SUBSET Attributes
      /\ Tracks(n, style, q) /\ (n.alt => alternate) /\ q \in Seen
  BY SeenFacts DEF Fits, Showing
<1>2. x.c \notin ToAlternate /\ ~alternate => ~alternate
  OBVIOUS
<1>3. /\ Keeping(b, from, Append(done, x), Append(out, x), alternate)
      /\ Append(out, x) \in Seq(Written)
      /\ Seeing(b, Append(out, x)) = See(q, x)
      /\ See(q, x) \in Seen /\ Apply(n, x) \in Terminal
      /\ Apply(n, x) = Obey(n, x)
      /\ See(q, x).own = Apply(n, x)
      /\ See(q, x).faults \cap DrawingFaults = {}
      /\ See(q, x).terminal = Obey(q.terminal, x)
  BY FitsItem, <1>2, SMTT(60)
<1> HIDE DEF q
<1>4. Obey(n, x) = n /\ Obey(q.terminal, x) = q.terminal
  BY <1>1, TextKeeps DEF Seen
<1>5. Tracks(n, style, See(q, x))
  <2>1. /\ See(q, x).own = n /\ See(q, x).terminal = q.terminal
        /\ See(q, x).faults \cap DrawingFaults = {}
    BY <1>3, <1>4
  <2> QED
    BY <1>1, <2>1 DEF Tracks
<1>6. Showing(b, Append(out, x), n, style, alternate)
  BY <1>1, <1>3, <1>5 DEF Showing
<1> QED
  BY <1>3, <1>6 DEF Fits

(* What a command does to the screen it writes on. *)
LEMMA ScreenAfter ==
  ASSUME NEW n \in Terminal, NEW x
  PROVE  /\ x.c \in ToAlternate => Obey(n, x).alt = TRUE
         /\ x.c \in FromAlternate => Obey(n, x).alt = FALSE
         /\ x.c \notin ToAlternate => (Obey(n, x).alt => n.alt)
<1>1. n.alt \in BOOLEAN
  BY DEF Terminal
<1>2. CASE x.c = "?1049h"
  <2>1. Obey(n, x) = [n EXCEPT !.saved[n.alt] = n.now, !.alt = TRUE]
    BY <1>2, ObeyIs
  <2>2. Obey(n, x).alt = TRUE
    BY <2>1 DEF Terminal
  <2> QED
    BY <1>2, <2>2 DEF ToAlternate, FromAlternate
<1>3. CASE x.c = "?47h"
  <2>1. Obey(n, x) = [n EXCEPT !.alt = TRUE]
    BY <1>3, ObeyIs
  <2>2. Obey(n, x).alt = TRUE
    BY <2>1 DEF Terminal
  <2> QED
    BY <1>3, <2>2 DEF ToAlternate, FromAlternate
<1>4. CASE x.c \in FromAlternate
  <2>1. CASE x.c = "?1049l"
    <3>1. Obey(n, x) = [n EXCEPT !.now = n.saved[FALSE], !.alt = FALSE]
      BY <2>1, ObeyIs
    <3>2. Obey(n, x).alt = FALSE
      BY <3>1 DEF Terminal
    <3> QED
      BY <2>1, <3>2 DEF ToAlternate
  <2>2. CASE x.c = "?47l"
    <3>1. Obey(n, x) = [n EXCEPT !.alt = FALSE]
      BY <2>2, ObeyIs
    <3>2. Obey(n, x).alt = FALSE
      BY <3>1 DEF Terminal
    <3> QED
      BY <2>2, <3>2 DEF ToAlternate
  <2> QED
    BY <1>4, <2>1, <2>2 DEF FromAlternate
<1>5. CASE x.c \in {"ESC 7", "?1048h"} \cup Restores
  <2>1. CASE x.c \in {"ESC 7", "?1048h"}
    <3>1. Obey(n, x) = [n EXCEPT !.saved[n.alt] = n.now]
      BY <2>1, ObeyIs
    <3>2. Obey(n, x).alt = n.alt
      BY <3>1 DEF Terminal
    <3> QED
      BY <2>1, <3>2 DEF ToAlternate, FromAlternate
  <2>2. CASE x.c \in Restores
    <3>1. Obey(n, x) = [n EXCEPT !.now = n.saved[n.alt]]
      BY <2>2, ObeyIs DEF Restores
    <3>2. Obey(n, x).alt = n.alt
      BY <3>1 DEF Terminal
    <3> QED
      BY <2>2, <3>2 DEF ToAlternate, FromAlternate, Restores
  <2> QED
    BY <1>5, <2>1, <2>2
<1>6. CASE x.c = "CSI !p"
  <2>1. Obey(n, x) = [n EXCEPT !.now = Plain, !.saved[n.alt] = Plain]
    BY <1>6, ObeyIs
  <2>2. Obey(n, x).alt = n.alt
    BY <2>1 DEF Terminal
  <2> QED
    BY <1>6, <2>2 DEF ToAlternate, FromAlternate
<1>7. CASE x.c = "ESC c"
  <2>1. Obey(n, x) = NewTerminal
    BY <1>7, ObeyIs
  <2>2. NewTerminal.alt = FALSE
    BY DEF NewTerminal
  <2>3. Obey(n, x).alt = FALSE
    BY <2>1, <2>2
  <2> QED
    BY <1>7, <2>3 DEF ToAlternate, FromAlternate
<1>8. CASE x.c = "sgr"
  <2>1. Obey(n, x) = [n EXCEPT !.now = Merge(n.now, x.set)]
    BY <1>8, ObeyIs
  <2>2. Obey(n, x).alt = n.alt
    BY <2>1 DEF Terminal
  <2> QED
    BY <1>8, <2>2 DEF ToAlternate, FromAlternate
<1>9. CASE x.c \notin Saves \cup Restores \cup ToAlternate \cup FromAlternate
                      \cup {"sgr", "CSI !p", "ESC c"}
  BY <1>9, ObeyIs
<1> QED
  BY <1>2, <1>3, <1>4, <1>5, <1>6, <1>7, <1>8, <1>9 DEF Saves, ToAlternate

(* Anything, with no highlight open. *)
LEMMA FitsCommand ==
  ASSUME NEW b \in Seen, NEW from, Begins(from), NEW done, NEW out, NEW n,
         NEW alternate, Fits(b, from, done, out, n, {}, alternate),
         NEW x \in Drawn, x.style = {},
         NEW later, x.c \notin ToAlternate /\ ~alternate => ~later,
         Obey(n, x).alt => later
  PROVE  Fits(b, from, Append(done, x), Append(out, x), Apply(n, x), {}, later)
<1> DEFINE q == Seeing(b, out)
<1>1. /\ out \in Seq(Written) /\ n \in Terminal
      /\ Tracks(n, {}, q) /\ (n.alt => alternate) /\ q \in Seen
  BY SeenFacts DEF Fits, Showing
<1>2. Suits(x, {})
  BY DEF Suits, PaintsBlanks
<1>3. /\ Keeping(b, from, Append(done, x), Append(out, x), later)
      /\ Append(out, x) \in Seq(Written)
      /\ Seeing(b, Append(out, x)) = See(q, x)
      /\ See(q, x) \in Seen /\ Apply(n, x) \in Terminal
      /\ Apply(n, x) = Obey(n, x)
      /\ See(q, x).own = Apply(n, x)
      /\ See(q, x).faults \cap DrawingFaults = {}
      /\ See(q, x).terminal = Obey(q.terminal, x)
  BY FitsItem, <1>2, SMTT(60)
<1> HIDE DEF q
<1>4. q.terminal = n
  BY <1>1, OverNothing DEF Tracks
<1>5. Tracks(Apply(n, x), {}, See(q, x))
  <2>1. [Apply(n, x) EXCEPT !.now = Over(Apply(n, x).now, {})] = Apply(n, x)
    BY <1>3, OverNothing
  <2> QED
    BY <1>3, <1>4, <2>1 DEF Tracks
<1>6. Showing(b, Append(out, x), Apply(n, x), {}, later)
  BY <1>3, <1>5 DEF Showing
<1> QED
  BY <1>3, <1>6 DEF Fits

(* An item does to a terminal under a highlight what it does to the other.    *)
LEMMA NearObey ==
  ASSUME NEW n \in Terminal, NEW t \in Terminal, NEW style,
         \A a \in Attributes \ style : t.now[a] = n.now[a],
         t.saved = n.saved, t.alt = n.alt, NEW x \in Written, x.c \notin Saves
  PROVE  /\ \A a \in Attributes \ style : Obey(t, x).now[a] = Obey(n, x).now[a]
         /\ Obey(t, x).saved = Obey(n, x).saved /\ Obey(t, x).alt = Obey(n, x).alt
<1>1. n.now \in Rendition /\ t.now \in Rendition /\ n.alt \in BOOLEAN
  BY DEF Terminal
<1>2. CASE x.c = "sgr"
  <2>1. x.set \in Settings
    BY <1>2 DEF Written
  <2>2. \A a \in Attributes :
          /\ Merge(t.now, x.set)[a] = IF a \in DOMAIN x.set THEN x.set[a] ELSE t.now[a]
          /\ Merge(n.now, x.set)[a] = IF a \in DOMAIN x.set THEN x.set[a] ELSE n.now[a]
    BY <1>1, <2>1, MergeFacts
  <2>3. /\ Obey(t, x) = [t EXCEPT !.now = Merge(t.now, x.set)]
        /\ Obey(n, x) = [n EXCEPT !.now = Merge(n.now, x.set)]
    BY <1>2, ObeyIs
  <2>4. /\ Obey(t, x).now = Merge(t.now, x.set) /\ Obey(n, x).now = Merge(n.now, x.set)
        /\ Obey(t, x).saved = t.saved /\ Obey(n, x).saved = n.saved
        /\ Obey(t, x).alt = t.alt /\ Obey(n, x).alt = n.alt
    BY <2>3 DEF Terminal
  <2> QED
    BY <2>2, <2>4
<1>3. CASE x.c \in Restores
  <2>3. /\ Obey(t, x) = [t EXCEPT !.now = t.saved[t.alt]]
        /\ Obey(n, x) = [n EXCEPT !.now = n.saved[n.alt]]
    BY <1>3, ObeyIs DEF Restores
  <2>4. /\ Obey(t, x).now = t.saved[t.alt] /\ Obey(n, x).now = n.saved[n.alt]
        /\ Obey(t, x).saved = t.saved /\ Obey(n, x).saved = n.saved
        /\ Obey(t, x).alt = t.alt /\ Obey(n, x).alt = n.alt
    BY <2>3 DEF Terminal
  <2> QED
    BY <2>4
<1>4. CASE x.c = "?1049l"
  <2>3. /\ Obey(t, x) = [t EXCEPT !.now = t.saved[FALSE], !.alt = FALSE]
        /\ Obey(n, x) = [n EXCEPT !.now = n.saved[FALSE], !.alt = FALSE]
    BY <1>4, ObeyIs
  <2>4. /\ Obey(t, x).now = t.saved[FALSE] /\ Obey(n, x).now = n.saved[FALSE]
        /\ Obey(t, x).saved = t.saved /\ Obey(n, x).saved = n.saved
        /\ Obey(t, x).alt = FALSE /\ Obey(n, x).alt = FALSE
    BY <2>3 DEF Terminal
  <2> QED
    BY <2>4
<1>5. CASE x.c \in {"?47h", "?47l"}
  <2>1. CASE x.c = "?47h"
    <3>1. Obey(t, x) = [t EXCEPT !.alt = TRUE] /\ Obey(n, x) = [n EXCEPT !.alt = TRUE]
      BY <2>1, ObeyIs
    <3>2. /\ Obey(t, x).now = t.now /\ Obey(n, x).now = n.now
          /\ Obey(t, x).saved = t.saved /\ Obey(n, x).saved = n.saved
          /\ Obey(t, x).alt = TRUE /\ Obey(n, x).alt = TRUE
      BY <3>1 DEF Terminal
    <3> QED
      BY <3>2
  <2>2. CASE x.c = "?47l"
    <3>1. Obey(t, x) = [t EXCEPT !.alt = FALSE] /\ Obey(n, x) = [n EXCEPT !.alt = FALSE]
      BY <2>2, ObeyIs
    <3>2. /\ Obey(t, x).now = t.now /\ Obey(n, x).now = n.now
          /\ Obey(t, x).saved = t.saved /\ Obey(n, x).saved = n.saved
          /\ Obey(t, x).alt = FALSE /\ Obey(n, x).alt = FALSE
      BY <3>1 DEF Terminal
    <3> QED
      BY <3>2
  <2> QED
    BY <1>5, <2>1, <2>2
<1>6. CASE x.c = "CSI !p"
  <2> DEFINE k == [t.saved EXCEPT ![t.alt] = Plain]
             l == [n.saved EXCEPT ![n.alt] = Plain]
  <2>3. /\ Obey(t, x) = [t EXCEPT !.now = Plain, !.saved[t.alt] = Plain]
        /\ Obey(n, x) = [n EXCEPT !.now = Plain, !.saved[n.alt] = Plain]
    BY <1>6, ObeyIs
  <2>1. /\ t = [now |-> t.now, saved |-> t.saved, alt |-> t.alt]
        /\ n = [now |-> n.now, saved |-> n.saved, alt |-> n.alt]
    BY DEF Terminal
  <2>5. /\ Obey(t, x) = [now |-> Plain, saved |-> k, alt |-> t.alt]
        /\ Obey(n, x) = [now |-> Plain, saved |-> l, alt |-> n.alt]
    <3>1. Obey(t, x) = [now |-> Plain, saved |-> k, alt |-> t.alt]
      BY <2>1, <2>3
    <3>2. Obey(n, x) = [now |-> Plain, saved |-> l, alt |-> n.alt]
      BY <2>1, <2>3
    <3> QED
      BY <3>1, <3>2
  <2>6. k = l
    OBVIOUS
  <2> HIDE DEF k, l
  <2>4. /\ Obey(t, x).now = Plain /\ Obey(n, x).now = Plain
        /\ Obey(t, x).saved = k /\ Obey(n, x).saved = l
        /\ Obey(t, x).alt = t.alt /\ Obey(n, x).alt = n.alt
    BY <2>5
  <2> QED
    BY <2>4, <2>6
<1>7. CASE x.c = "ESC c"
  <2>1. Obey(t, x) = NewTerminal /\ Obey(n, x) = NewTerminal
    BY <1>7, ObeyIs
  <2> QED
    BY <2>1
<1>8. CASE x.c \notin Saves \cup Restores \cup ToAlternate \cup FromAlternate
                      \cup {"sgr", "CSI !p", "ESC c"}
  BY <1>8, ObeyIs
<1> QED
  BY <1>2, <1>3, <1>4, <1>5, <1>6, <1>7, <1>8 DEF Saves, ToAlternate, FromAlternate

(* A control, written under a highlight that then starts again.               *)
LEMMA NearAfter ==
  ASSUME NEW n \in Terminal, NEW style \in SUBSET Attributes, NEW q \in Seen,
         Tracks(n, style, q), NEW x \in Drawn, Suits(x, style), x.c \notin Saves
  PROVE  Near(Apply(n, x), style, See(q, x))
<1>1. /\ See(q, x) \in Seen /\ Apply(n, x) \in Terminal
      /\ Apply(n, x) = Obey(n, x)
      /\ See(q, x).own = Apply(n, x)
      /\ See(q, x).faults \cap DrawingFaults = {}
      /\ See(q, x).terminal = Obey(q.terminal, x)
      /\ See(q, x).line = LineWith(q.line, x, n.alt)
  <2>1. n \in Terminal /\ style \in SUBSET Attributes /\ q \in Seen /\ Tracks(n, style, q)
    OBVIOUS
  <2>2. x \in Drawn /\ Suits(x, style)
    OBVIOUS
  <2> QED
    BY <2>1, <2>2, CommandSeen, SMTT(60)
<1>2. Near(n, style, q)
  BY NearFacts
<1> DEFINE t == q.terminal
<1>3. t \in Terminal /\ x \in Written
  BY DEF Seen, Drawn
<1>4. /\ \A a \in Attributes \ style : t.now[a] = n.now[a]
      /\ t.saved = n.saved /\ t.alt = n.alt
  BY <1>2 DEF Near
<1> HIDE DEF t
<1>5. /\ \A a \in Attributes \ style : Obey(t, x).now[a] = Obey(n, x).now[a]
      /\ Obey(t, x).saved = Obey(n, x).saved /\ Obey(t, x).alt = Obey(n, x).alt
  BY <1>3, <1>4, NearObey
<1> QED
  BY <1>1, <1>5 DEF Near, t

(* One item after what is written. *)
LEMMA OneMore ==
  ASSUME NEW s \in Seq(Written)
  PROVE  /\ s \o <<>> = s
         /\ \A x \in Written : s \o <<x>> = Append(s, x) /\ Append(s, x) \in Seq(Written)
BY AppendIsConcat, ConcatEmptySeq, AppendProperties

(* What writes highlights. *)
Writers == [out : Seq(Written), active : SUBSET Attributes, native : Terminal]

FitsWriter(b, from, done, w, alternate) ==
  w \in Writers /\ Fits(b, from, done, w.out, w.native, w.active, alternate)

(* What a writer is made of, it is. *)
LEMMA WriterIs ==
  ASSUME NEW b \in Seen, NEW from, NEW done, NEW alternate, NEW w \in Writers,
         NEW out, NEW style, NEW n, Fits(b, from, done, out, n, style, alternate),
         NEW v, v = [w EXCEPT !.out = out, !.active = style, !.native = n]
  PROVE  FitsWriter(b, from, done, v, alternate)
<1>1. out \in Seq(Written) /\ n \in Terminal /\ style \in SUBSET Attributes
  BY DEF Fits, Showing
<1>2. v = [out |-> out, active |-> style, native |-> n]
  BY DEF Writers
<1>3. v \in Writers /\ v.out = out /\ v.active = style /\ v.native = n
  BY <1>1, <1>2 DEF Writers
<1> QED
  BY <1>3 DEF FitsWriter

(* A control between the end and the start of the highlight it is in. *)
LEMMA FitsControl ==
  ASSUME NEW b \in Seen, NEW from, Begins(from), NEW done, NEW w, NEW alternate,
         FitsWriter(b, from, done, w, alternate), NEW m,
         NEW x \in Drawn, x.style = {}, ~IsText(x), x.c \notin ToAlternate
  PROVE  FitsWriter(b, from, Append(done, x), WriteControl(w, x, m), alternate)
<1> DEFINE out == w.out
           style == w.active
           n == w.native
           r == Reset(style, n, m)
           y == Start(style)
           k == Apply(n, x)
           v == WriteControl(w, x, m)
           closing == IF style # {} /\ EndsFor(x, style) THEN <<r>> ELSE <<>>
           started == IF style # {} THEN <<y>> ELSE <<>>
           after == ((out \o closing) \o <<x>>) \o started
<1>1. /\ w \in Writers /\ Fits(b, from, done, out, n, style, alternate)
      /\ out \in Seq(Written) /\ n \in Terminal /\ style \in SUBSET Attributes
      /\ (n.alt => alternate) /\ Tracks(n, style, Seeing(b, out))
  BY DEF FitsWriter, Fits, Showing
<1>2. v = [w EXCEPT !.out = after, !.active = style, !.native = k]
  <2>1. w = [out |-> out, active |-> style, native |-> n]
    BY <1>1 DEF Writers
  <2>2. v = [w EXCEPT !.out = after, !.native = k]
    BY DEF WriteControl
  <2> HIDE DEF v, after, k
  <2> QED
    BY <1>1, <2>2 DEF Writers
<1>3. x \in Written
  BY DEF Drawn
<1>4. Obey(n, x).alt => alternate
  BY <1>1, ScreenAfter
<1>5. x.c \notin ToAlternate /\ ~alternate => ~alternate
  OBVIOUS
<1>13. ASSUME NEW o, NEW p, NEW e \in {<<>>, <<o>>}, NEW f \in {<<>>, <<p>>}, o \in Written,
              p \in Written
       PROVE  ((out \o e) \o <<x>>) \o f
                = LET a == IF e = <<>> THEN out ELSE Append(out, o)
                      c == Append(a, x)
                  IN IF f = <<>> THEN c ELSE Append(c, p)
  <2> DEFINE a == IF e = <<>> THEN out ELSE Append(out, o)
             c == Append(a, x)
  <2>1. out \o e = a /\ a \in Seq(Written)
    BY <1>1, <1>13, OneMore
  <2> HIDE DEF a
  <2>2. a \o <<x>> = c /\ c \in Seq(Written)
    BY <1>3, <2>1, OneMore
  <2> HIDE DEF c
  <2>3. c \o f = IF f = <<>> THEN c ELSE Append(c, p)
    BY <1>13, <2>2, OneMore
  <2> QED
    BY <2>1, <2>2, <2>3 DEF a, c
<1>14. <<r>> # <<>> /\ <<y>> # <<>>
  OBVIOUS
<1>15. r \in Written /\ y \in Written
  <2>1. Seeing(b, out) \in Seen
    BY <1>1, SeenFacts
  <2>2. Near(n, style, Seeing(b, out))
    BY <1>1, <2>1, NearFacts
  <2> QED
    BY <1>1, <2>1, <2>2, ResetSeen, StartSeen
<1>16. after = LET a == IF closing = <<>> THEN out ELSE Append(out, r)
                   c == Append(a, x)
               IN IF started = <<>> THEN c ELSE Append(c, y)
  <2>1. closing \in {<<>>, <<r>>} /\ started \in {<<>>, <<y>>}
    OBVIOUS
  <2> HIDE DEF closing, started, out, style, n, r, y
  <2> QED
    BY <1>13, <1>15, <2>1
<1> HIDE DEF v, r, y, after, k
<1>6. CASE style = {}
  <2>1. after = Append(out, x)
    BY <1>6, <1>16
  <2>2. Fits(b, from, done, out, n, {}, alternate)
    BY <1>1, <1>6
  <2> HIDE DEF out, style, n
  <2>3. Fits(b, from, Append(done, x), Append(out, x), k, {}, alternate)
    BY <2>2, <1>4, FitsCommand, SMTT(60) DEF k
  <2>4. Fits(b, from, Append(done, x), after, k, style, alternate)
    BY <1>6, <2>1, <2>3
  <2> QED
    BY <1>1, <1>2, <2>4, WriterIs DEF v
<1>7. CASE style # {} /\ EndsFor(x, style)
  <2> DEFINE a == Append(out, r)
             c == Append(a, x)
  <2>1. after = Append(c, y)
    BY <1>7, <1>14, <1>16
  <2>2. Fits(b, from, done, a, n, {}, alternate)
    BY <1>1, FitsReset DEF r
  <2> HIDE DEF a
  <2>3. Fits(b, from, Append(done, x), c, k, {}, alternate)
    BY <2>2, <1>4, FitsCommand, SMTT(60) DEF k
  <2> HIDE DEF c
  <2>4. Fits(b, from, Append(done, x), Append(c, y), k, style, alternate)
    BY <1>1, <2>3, FitsNext DEF y
  <2> HIDE DEF out, style, n
  <2> QED
    BY <1>1, <1>2, <2>1, <2>4, WriterIs DEF v
<1>8. CASE style # {} /\ ~EndsFor(x, style)
  <2> DEFINE c == Append(out, x)
  <2>1. after = Append(c, y)
    BY <1>8, <1>14, <1>16
  <2>2. x.c \notin Saves /\ Suits(x, style)
    BY <1>8 DEF EndsFor, Suits
  <2>3. /\ Keeping(b, from, Append(done, x), c, alternate)
        /\ c \in Seq(Written)
        /\ Seeing(b, c) = See(Seeing(b, out), x)
        /\ See(Seeing(b, out), x) \in Seen /\ k \in Terminal
        /\ k = Obey(n, x)
    <3>1. Fits(b, from, done, out, n, style, alternate)
      BY <1>1
    <3> QED
      BY <3>1, <2>2, FitsItem, SMTT(60) DEF k
  <2>4. Seeing(b, out) \in Seen
    BY <1>1, SeenFacts
  <2>5. Near(k, style, Seeing(b, c))
    BY <1>1, <2>2, <2>3, <2>4, NearAfter DEF k
  <2> HIDE DEF c
  <2>6. Fits(b, from, Append(done, x), Append(c, y), k, style, alternate)
    BY <1>1, <1>4, <2>3, <2>5, FitsStart DEF y
  <2> HIDE DEF out, style, n
  <2> QED
    BY <1>1, <1>2, <2>1, <2>6, WriterIs DEF v
<1> QED
  BY <1>6, <1>7, <1>8

(* Text after a change of highlights, or none. *)
Changed(w, close, change, next, x, m) ==
  [w EXCEPT !.out = @ \o (IF close THEN <<Reset(w.active, w.native, m)>> ELSE <<>>)
                      \o (IF change THEN <<Start(next)>> ELSE <<>>) \o <<x>>,
            !.active = next]

(* A text after the end of a highlight, the start of another, or both.     *)
LEMMA FitsChanged ==
  ASSUME NEW b \in Seen, NEW from, Begins(from), NEW done, NEW w, NEW alternate,
         FitsWriter(b, from, done, w, alternate), NEW m,
         NEW close \in BOOLEAN, NEW change \in BOOLEAN, NEW next \in SUBSET Attributes,
         change => (close \/ w.active \subseteq next),
         ~change => next = IF close THEN {} ELSE w.active,
         NEW x \in Drawn, IsText(x), Suits(x, next)
  PROVE  FitsWriter(b, from, Append(done, x), Changed(w, close, change, next, x, m), alternate)
<1> DEFINE out == w.out
           style == w.active
           n == w.native
           r == Reset(style, n, m)
           y == Start(next)
           v == Changed(w, close, change, next, x, m)
           closing == IF close THEN <<r>> ELSE <<>>
           started == IF change THEN <<y>> ELSE <<>>
           after == ((out \o closing) \o started) \o <<x>>
           mid == IF close THEN {} ELSE style
           a == IF close THEN Append(out, r) ELSE out
           c == IF change THEN Append(a, y) ELSE a
<1>1. /\ w \in Writers /\ Fits(b, from, done, out, n, style, alternate)
      /\ out \in Seq(Written) /\ n \in Terminal /\ style \in SUBSET Attributes
      /\ (n.alt => alternate) /\ Tracks(n, style, Seeing(b, out))
  BY DEF FitsWriter, Fits, Showing
<1>2. v = [w EXCEPT !.out = after, !.active = next, !.native = n]
  <2>1. w = [out |-> out, active |-> style, native |-> n]
    BY <1>1 DEF Writers
  <2>2. v = [w EXCEPT !.out = after, !.active = next]
    BY DEF Changed
  <2> HIDE DEF v, after
  <2> QED
    BY <1>1, <2>2 DEF Writers
<1>3. Fits(b, from, done, a, n, mid, alternate)
  <2>1. Fits(b, from, done, Append(out, r), n, {}, alternate)
    BY <1>1, FitsReset
  <2> QED
    BY <1>1, <2>1
<1>4. out \o closing = a
  <2>1. Seeing(b, out) \in Seen
    BY <1>1, SeenFacts
  <2>2. r \in Written
    BY <1>1, <2>1, ResetSeen
  <2> HIDE DEF r
  <2> QED
    BY <1>1, <2>2, OneMore
<1> HIDE DEF a, closing, r
<1>5. a \in Seq(Written) /\ Tracks(n, mid, Seeing(b, a)) /\ Seeing(b, a) \in Seen
  BY <1>3, SeenFacts DEF Fits, Showing
<1>6. change => mid \subseteq next
  OBVIOUS
<1>7. Fits(b, from, done, c, n, next, alternate)
  <2>1. CASE change
    <3> HIDE DEF mid, n
    <3>1. Fits(b, from, done, Append(a, y), n, next, alternate)
      BY <1>3, <1>6, <2>1, FitsNext
    <3> QED
      BY <2>1, <3>1
  <2>2. CASE ~change
    BY <1>3, <2>2
  <2> QED
    BY <2>1, <2>2
<1>8. a \o started = c
  <2>1. CASE change
    <3> HIDE DEF mid, n
    <3>1. Near(n, next, Seeing(b, a))
      BY <1>1, <1>5, <1>6, <2>1, NearFacts, NearMore
    <3>2. y \in Written
      BY <1>1, <1>5, <3>1, StartSeen
    <3> HIDE DEF y
    <3> QED
      BY <1>5, <2>1, <3>2, OneMore
  <2>2. CASE ~change
    BY <1>5, <2>2, OneMore
  <2> QED
    BY <2>1, <2>2
<1> HIDE DEF c, started
<1>9. after = Append(c, x)
  <2>1. c \in Seq(Written) /\ x \in Written
    BY <1>7 DEF Fits, Showing, Drawn
  <2> QED
    BY <1>4, <1>8, <2>1, OneMore
<1>10. Fits(b, from, Append(done, x), Append(c, x), n, next, alternate)
  <2> HIDE DEF n
  <2> QED
    BY <1>7, FitsText, SMTT(60)
<1>11. Fits(b, from, Append(done, x), after, n, next, alternate)
  BY <1>9, <1>10
<1> HIDE DEF out, style, n, after, v
<1>12. FitsWriter(b, from, Append(done, x), v, alternate)
  BY <1>1, <1>2, <1>11, WriterIs
<1> QED
  BY <1>12 DEF v

(* A text in a stream. *)
LEMMA FitsWriteText ==
  ASSUME NEW b \in Seen, NEW from, Begins(from), NEW done, NEW w, NEW alternate,
         FitsWriter(b, from, done, w, alternate), NEW m,
         NEW x \in Drawn, IsText(x)
  PROVE  FitsWriter(b, from, Append(done, x), WriteText(w, x, m), alternate)
<1> DEFINE change == x.style # w.active
           close == (change /\ w.active # {})
           start == (change /\ x.style # {})
<1>1. w.active \in SUBSET Attributes /\ x.style \in SUBSET Attributes
  BY DEF FitsWriter, Writers, Drawn, Written
<1>2. WriteText(w, x, m) = Changed(w, close, start, x.style, x, m)
  BY DEF WriteText, Changed
<1>3. close \in BOOLEAN /\ start \in BOOLEAN
  OBVIOUS
<1>4. start => (close \/ w.active \subseteq x.style)
  OBVIOUS
<1>5. ~start => x.style = IF close THEN {} ELSE w.active
  OBVIOUS
<1>6. Suits(x, x.style)
  BY DEF Suits, IsText, TextClasses, Words, Fills
<1> HIDE DEF close, start
<1>7. FitsWriter(b, from, Append(done, x), Changed(w, close, start, x.style, x, m), alternate)
  BY <1>1, <1>3, <1>4, <1>5, <1>6, FitsChanged, SMTT(60)
<1> QED
  BY <1>2, <1>7

(* And in an interactive session. *)
LEMMA FitsWriteOverlay ==
  ASSUME NEW b \in Seen, NEW from, Begins(from), NEW done, NEW w, NEW alternate,
         FitsWriter(b, from, done, w, alternate), NEW m,
         NEW x \in Drawn, IsText(x)
  PROVE  FitsWriter(b, from, Append(done, x), WriteOverlay(w, x, m), alternate)
<1> DEFINE change == (x.style # {} /\ x.style # w.active)
           close == /\ w.active # {}
                    /\ IF x.style # {} THEN change /\ Outlasts(w.active, x.style)
                       ELSE x.c # " " \/ PaintsBlanks(w.active)
           next == IF x.style # {} THEN x.style ELSE IF close THEN {} ELSE w.active
<1>1. w.active \in SUBSET Attributes /\ x.style \in SUBSET Attributes
  BY DEF FitsWriter, Writers, Drawn, Written
<1>2. WriteOverlay(w, x, m) = Changed(w, close, change, next, x, m)
  <2>1. change => next = x.style
    OBVIOUS
  <2>2. (IF change THEN <<Start(x.style)>> ELSE <<>>) = (IF change THEN <<Start(next)>> ELSE <<>>)
    BY <2>1
  <2> QED
    BY <2>2 DEF WriteOverlay, Changed
<1>3. close \in BOOLEAN /\ change \in BOOLEAN /\ next \in SUBSET Attributes
  BY <1>1
<1>4. change => (close \/ w.active \subseteq next)
  BY DEF Outlasts
<1>5. ~change => next = IF close THEN {} ELSE w.active
  OBVIOUS
<1>6. Suits(x, next)
  BY DEF Suits, IsText, TextClasses, Words, Fills
<1> HIDE DEF close, change, next
<1>7. FitsWriter(b, from, Append(done, x), Changed(w, close, change, next, x, m), alternate)
  BY <1>3, <1>4, <1>5, <1>6, FitsChanged, SMTT(60)
<1> QED
  BY <1>2, <1>7

(* What is highlighted: everything but what switches to the other screen. *)
Held == {x \in Drawn : x.c \notin ToAlternate}

(* An item written in an interactive session, or in a stream. *)
LEMMA FitsItems ==
  ASSUME NEW b \in Seen, NEW from, Begins(from), NEW done, NEW w, NEW alternate,
         FitsWriter(b, from, done, w, alternate), NEW m, NEW x \in Held
  PROVE  /\ FitsWriter(b, from, Append(done, x), OverlayItem(w, x, m), alternate)
         /\ FitsWriter(b, from, Append(done, x), WriteItem(w, x, m), alternate)
<1>1. x \in Drawn /\ x.c \notin ToAlternate
  BY DEF Held
<1>2. CASE IsText(x)
  BY <1>1, <1>2, FitsWriteText, FitsWriteOverlay DEF OverlayItem, WriteItem
<1>3. CASE ~IsText(x)
  <2>1. x.style = {}
    BY <1>1, <1>3 DEF Drawn, Written, IsText, TextClasses
  <2>2. FitsWriter(b, from, Append(done, x), WriteControl(w, x, m), alternate)
    BY <1>1, <1>3, <2>1, FitsControl
  <2> QED
    BY <1>3, <2>2 DEF OverlayItem, WriteItem
<1> QED
  BY <1>2, <1>3

(* What is done has been read. *)
LEMMA DoneIsDrawn ==
  ASSUME NEW b, NEW from, NEW done, NEW w, NEW alternate, FitsWriter(b, from, done, w, alternate)
  PROVE  done \in Seq(Drawn) /\ w \in Writers
BY DEF FitsWriter, Fits, Keeping

(* Some of what may be written, after what was. *)
LEMMA DrawnConcat ==
  /\ Held \subseteq Drawn /\ Drawn \subseteq Written
  /\ Seq(Held) \subseteq Seq(Drawn) /\ Seq(Drawn) \subseteq Seq(Written)
  /\ \A s \in Seq(Drawn), t \in Seq(Drawn) : s \o t \in Seq(Drawn)
  /\ \A s \in Seq(Drawn), t \in Seq(Drawn), x \in Drawn :
       s \o Append(t, x) = Append(s \o t, x)
<1>1. Held \subseteq Drawn /\ Drawn \subseteq Written
  BY DEF Held, Drawn
<1>2. Seq(Held) \subseteq Seq(Drawn) /\ Seq(Drawn) \subseteq Seq(Written)
  BY <1>1, SeqMonotonic
<1>3. \A s \in Seq(Drawn), t \in Seq(Drawn) : s \o t \in Seq(Drawn)
  BY ConcatProperties
<1>4. \A s \in Seq(Drawn), t \in Seq(Drawn), x \in Drawn :
       s \o Append(t, x) = Append(s \o t, x)
  BY ConcatAppend
<1> QED
  BY <1>1, <1>2, <1>3, <1>4

(* All items of a token, in an interactive session. *)
LEMMA FitsInteractive ==
  ASSUME NEW b \in Seen, NEW from, Begins(from), NEW done, NEW w, NEW alternate,
         FitsWriter(b, from, done, w, alternate), NEW m, NEW items \in Seq(Held)
  PROVE  FitsWriter(b, from, done \o items, EmitInteractive(w, items, m), alternate)
<1> DEFINE V == {v \in Writers : \E d : FitsWriter(b, from, d, v, alternate)}
           R(s) == EmitInteractive(w, s, m)
           P == {s \in Seq(Held) : FitsWriter(b, from, done \o s, R(s), alternate)}
<1>1. w \in V
  BY DoneIsDrawn
<1>2. \A v \in V, x \in Held : OverlayItem(v, x, m) \in V
  <2>1. SUFFICES ASSUME NEW v \in V, NEW x \in Held PROVE OverlayItem(v, x, m) \in V
    OBVIOUS
  <2>2. PICK d : FitsWriter(b, from, d, v, alternate)
    OBVIOUS
  <2>3. FitsWriter(b, from, Append(d, x), OverlayItem(v, x, m), alternate)
    BY <2>2, FitsItems
  <2> QED
    BY <2>3, DoneIsDrawn
<1> HIDE DEF V
<1>3. /\ R(<<>>) = w
      /\ \A s \in Seq(Held), x \in Held : R(Append(s, x)) = OverlayItem(R(s), x, m)
  BY <1>1, <1>2, OverlayFolds
<1> HIDE DEF R
<1>4. done \in Seq(Drawn)
  BY DoneIsDrawn
<1>5. <<>> \in P
  <2>1. done \o <<>> = done
    BY <1>4, ConcatEmptySeq
  <2> QED
    BY <1>3, <2>1, EmptySeq
<1>6. ASSUME NEW s \in Seq(Held), NEW x \in Held, s \in P PROVE Append(s, x) \in P
  <2>1. done \o Append(s, x) = Append(done \o s, x)
    BY <1>4, DrawnConcat
  <2>2. FitsWriter(b, from, done \o s, R(s), alternate)
    BY <1>6
  <2>3. FitsWriter(b, from, Append(done \o s, x), OverlayItem(R(s), x, m), alternate)
    BY <2>2, FitsItems
  <2> QED
    BY <1>3, <2>1, <2>3, AppendProperties
<1>7. items \in P
  <2> HIDE DEF P
  <2> QED
    BY <1>5, <1>6, EachSequence
<1> QED
  BY <1>7 DEF R

(* And in a stream: no highlight is left open. *)
LEMMA FitsStream ==
  ASSUME NEW b \in Seen, NEW from, Begins(from), NEW done, NEW w, NEW alternate,
         FitsWriter(b, from, done, w, alternate), NEW m, NEW items \in Seq(Held)
  PROVE  /\ FitsWriter(b, from, done \o items, Emit(w, items, m), alternate)
         /\ Emit(w, items, m).active = {}
<1> DEFINE V == {v \in Writers : \E d : FitsWriter(b, from, d, v, alternate)}
           R(s) == WriteAll(w, s, m)
           P == {s \in Seq(Held) : FitsWriter(b, from, done \o s, R(s), alternate)}
<1>1. w \in V
  BY DoneIsDrawn
<1>2. \A v \in V, x \in Held : WriteItem(v, x, m) \in V
  <2>1. SUFFICES ASSUME NEW v \in V, NEW x \in Held PROVE WriteItem(v, x, m) \in V
    OBVIOUS
  <2>2. PICK d : FitsWriter(b, from, d, v, alternate)
    OBVIOUS
  <2>3. FitsWriter(b, from, Append(d, x), WriteItem(v, x, m), alternate)
    BY <2>2, FitsItems
  <2> QED
    BY <2>3, DoneIsDrawn
<1> HIDE DEF V
<1>3. /\ R(<<>>) = w
      /\ \A s \in Seq(Held), x \in Held : R(Append(s, x)) = WriteItem(R(s), x, m)
  BY <1>1, <1>2, WriteFolds
<1> HIDE DEF R
<1>4. done \in Seq(Drawn)
  BY DoneIsDrawn
<1>5. <<>> \in P
  <2>1. done \o <<>> = done
    BY <1>4, ConcatEmptySeq
  <2> QED
    BY <1>3, <2>1, EmptySeq
<1>6. ASSUME NEW s \in Seq(Held), NEW x \in Held, s \in P PROVE Append(s, x) \in P
  <2>1. done \o Append(s, x) = Append(done \o s, x)
    BY <1>4, DrawnConcat
  <2>2. FitsWriter(b, from, done \o s, R(s), alternate)
    BY <1>6
  <2>3. FitsWriter(b, from, Append(done \o s, x), WriteItem(R(s), x, m), alternate)
    BY <2>2, FitsItems
  <2> QED
    BY <1>3, <2>1, <2>3, AppendProperties
<1>7. items \in P
  <2> HIDE DEF P
  <2> QED
    BY <1>5, <1>6, EachSequence
<1> DEFINE v == R(items)
<1>8. FitsWriter(b, from, done \o items, v, alternate) /\ v \in Writers
  BY <1>7, DoneIsDrawn
<1>9. Emit(w, items, m) = Ended(v, m)
  BY DEF Emit, R
<1> HIDE DEF v
<1>10. CASE v.active = {}
  BY <1>8, <1>9, <1>10 DEF Ended
<1>11. CASE v.active # {}
  <2> DEFINE o == Append(v.out, Reset(v.active, v.native, m))
             u == Ended(v, m)
  <2>1. Fits(b, from, done \o items, o, v.native, {}, alternate)
    BY <1>8, FitsReset DEF FitsWriter
  <2> HIDE DEF o
  <2>2. u = [v EXCEPT !.out = o, !.active = {}]
    BY <1>11 DEF Ended, o
  <2>3. u = [v EXCEPT !.out = o, !.active = {}, !.native = v.native] /\ u.active = {}
    BY <1>8, <2>2 DEF Writers
  <2> HIDE DEF u
  <2>4. FitsWriter(b, from, done \o items, u, alternate)
    BY <1>8, <2>1, <2>3, WriterIs
  <2> QED
    BY <1>9, <2>3, <2>4 DEF u
<1> QED
  BY <1>10, <1>11

-----------------------------------------------------------------------------
(* The highlighter in a call. *)

WordItems == {Item(c) : c \in Words}

States ==
  [pending : Seq(WordItems),
   remainder : BOOLEAN, split : BOOLEAN,
   rewritten : BOOLEAN, alternate : BOOLEAN, echoing : BOOLEAN,
   tail : Line, native : Terminal, overlay : SUBSET Attributes, disabled : SUBSET Rule,
   out : Seq(Written), errors : SUBSET Rule]

(* A state in which something was written. *)
Redrawn(s, out, n, style) == [s EXCEPT !.out = out, !.native = n, !.overlay = style]

(* Its parts. *)
LEMMA RedrawnIs ==
  ASSUME NEW s \in States, NEW out \in Seq(Written), NEW n \in Terminal,
         NEW style \in SUBSET Attributes
  PROVE  LET v == Redrawn(s, out, n, style)
         IN /\ v \in States /\ v.out = out /\ v.native = n /\ v.overlay = style
            /\ v.pending = s.pending /\ v.remainder = s.remainder /\ v.split = s.split
            /\ v.rewritten = s.rewritten /\ v.alternate = s.alternate /\ v.echoing = s.echoing
            /\ v.tail = s.tail /\ v.disabled = s.disabled /\ v.errors = s.errors
BY DEF Redrawn, States

(* What a call has drawn of what it has read. *)
Draws(b, from, done, s) ==
  /\ s \in States /\ s.pending = from.pending
  /\ Fits(b, from, done, s.out, s.native, s.overlay, s.alternate)
  /\ s.overlay # {} => interactive
  /\ s.errors \cap failed = {} /\ s.errors \cup failed \subseteq s.disabled
  /\ s.rewritten => from.rewritten /\ interactive /\ ~s.alternate /\ ~Enables(done)

(* What is written next. *)
LEMMA DrawsMore ==
  ASSUME NEW b, NEW from, NEW done, NEW s, Draws(b, from, done, s),
         NEW more, NEW out, NEW n, NEW style, Fits(b, from, more, out, n, style, s.alternate),
         style # {} => interactive, Enables(more) => Enables(done) \/ ~s.rewritten
  PROVE  Draws(b, from, more, Redrawn(s, out, n, style))
<1>1. s \in States /\ out \in Seq(Written) /\ n \in Terminal /\ style \in SUBSET Attributes
  BY DEF Draws, Fits, Showing
<1> DEFINE v == Redrawn(s, out, n, style)
<1> HIDE DEF v
<1>2. /\ v \in States /\ v.out = out /\ v.native = n /\ v.overlay = style
      /\ v.pending = s.pending /\ v.remainder = s.remainder /\ v.split = s.split
      /\ v.rewritten = s.rewritten /\ v.alternate = s.alternate /\ v.echoing = s.echoing
      /\ v.tail = s.tail /\ v.disabled = s.disabled /\ v.errors = s.errors
  BY <1>1, RedrawnIs DEF v
<1>3. Draws(b, from, more, v)
  BY <1>2 DEF Draws
<1> QED
  BY <1>3 DEF v

(* A highlight is ended. *)
LEMMA DrawsClose ==
  ASSUME NEW b \in Seen, NEW from, Begins(from), NEW done, NEW s, Draws(b, from, done, s)
  PROVE  LET v == CloseOverlay(s)
         IN /\ Draws(b, from, done, v) /\ v.overlay = {} /\ v.native = s.native
            /\ v.pending = s.pending /\ v.remainder = s.remainder /\ v.split = s.split
            /\ v.rewritten = s.rewritten /\ v.alternate = s.alternate /\ v.echoing = s.echoing
            /\ v.tail = s.tail /\ v.disabled = s.disabled /\ v.errors = s.errors
<1> DEFINE v == CloseOverlay(s)
           r == Reset(s.overlay, s.native, full)
           u == Redrawn(s, Append(s.out, r), s.native, {})
<1>1. s \in States /\ Fits(b, from, done, s.out, s.native, s.overlay, s.alternate)
  BY DEF Draws
<1>2. CASE s.overlay = {}
  BY <1>2 DEF CloseOverlay
<1>3. CASE s.overlay # {}
  <2>1. Fits(b, from, done, Append(s.out, r), s.native, {}, s.alternate)
    BY <1>1, FitsReset
  <2> DEFINE o == Append(s.out, r)
  <2>2. s.out \o <<r>> = o
    <3>1. /\ s.out \in Seq(Written) /\ s.native \in Terminal /\ s.overlay \in SUBSET Attributes
          /\ Tracks(s.native, s.overlay, Seeing(b, s.out))
      BY <1>1 DEF Fits, Showing
    <3>2. Seeing(b, s.out) \in Seen
      BY <3>1, SeenFacts
    <3>3. r \in Written
      BY <3>1, <3>2, ResetSeen
    <3> HIDE DEF r
    <3> QED
      BY <3>1, <3>3, OneMore
  <2>3. v = [[s EXCEPT !.out = s.out \o <<r>>] EXCEPT !.overlay = {}]
    BY <1>3 DEF CloseOverlay, Write
  <2> HIDE DEF r, o
  <2>4. v = u
    BY <1>1, <2>2, <2>3 DEF Redrawn, States, o
  <2>5. o \in Seq(Written) /\ s.native \in Terminal
    BY <2>1 DEF Fits, Showing, o
  <2>6. Draws(b, from, done, u)
    <3>1. Fits(b, from, done, o, s.native, {}, s.alternate)
      BY <2>1 DEF o
    <3>2. Draws(b, from, done, Redrawn(s, o, s.native, {}))
      BY <3>1, DrawsMore
    <3> QED
      BY <3>2 DEF o
  <2>7. /\ u.overlay = {} /\ u.native = s.native
        /\ u.pending = s.pending /\ u.remainder = s.remainder /\ u.split = s.split
        /\ u.rewritten = s.rewritten /\ u.alternate = s.alternate /\ u.echoing = s.echoing
        /\ u.tail = s.tail /\ u.disabled = s.disabled /\ u.errors = s.errors
    <3>1. {} \in SUBSET Attributes
      OBVIOUS
    <3>2. u = Redrawn(s, o, s.native, {})
      BY DEF o
    <3> HIDE DEF u
    <3> QED
      BY <1>1, <2>5, <3>1, <3>2, RedrawnIs
  <2> QED
    BY <2>4, <2>6, <2>7
<1> QED
  BY <1>2, <1>3

(* The same, said in one word. *)
Closed(b, from, done, s, v) ==
  /\ Draws(b, from, done, v) /\ v.overlay = {} /\ v.native = s.native
  /\ v.pending = s.pending /\ v.remainder = s.remainder /\ v.split = s.split
  /\ v.rewritten = s.rewritten /\ v.alternate = s.alternate /\ v.echoing = s.echoing
  /\ v.tail = s.tail /\ v.disabled = s.disabled /\ v.errors = s.errors

(* CloseOverlay, in these words.                                           *)
LEMMA ClosesDraws ==
  ASSUME NEW b \in Seen, NEW from, Begins(from), NEW done, NEW s, Draws(b, from, done, s)
  PROVE  Closed(b, from, done, s, CloseOverlay(s))
BY DrawsClose DEF Closed

(* The least of a set of positions. *)
LEMMA MinFacts ==
  ASSUME NEW S \in SUBSET Nat, S # {}
  PROVE  Min(S) \in S /\ \A n \in S : Min(S) <= n
BY LeastNatural DEF Min

(* What is read item for item in the same classes. *)
LEMMA SameClasses ==
  ASSUME NEW s \in Seq(Written), NEW t \in Seq(Written), Len(s) = Len(t),
         \A i \in 1 .. Len(s) : s[i].c = t[i].c
  PROVE  Same(s, t)
<1> DEFINE Like(u, v) == Len(v) = Len(u) /\ \A i \in 1 .. Len(u) : u[i].c = v[i].c
           P == {u \in Seq(Written) : \A v \in Seq(Written) : Like(u, v) => Same(u, v)}
<1>1. <<>> \in P
  <2>1. ASSUME NEW v \in Seq(Written), Like(<<>>, v) PROVE Same(<<>>, v)
    <3>1. v = <<>>
      BY <2>1, EmptySeq
    <3> QED
      BY <3>1 DEF Same
  <2> QED
    BY <2>1, EmptySeq
<1>2. ASSUME NEW u \in Seq(Written), NEW x \in Written, u \in P PROVE Append(u, x) \in P
  <2> DEFINE z == Append(u, x)
  <2>1. /\ z \in Seq(Written) /\ Len(z) = Len(u) + 1
        /\ \A i \in 1 .. Len(u) : z[i] = u[i]
        /\ z[Len(u) + 1] = x
    BY AppendProperties
  <2>2. Len(u) \in Nat
    BY LenProperties
  <2> HIDE DEF z
  <2>3. ASSUME NEW v \in Seq(Written), Like(z, v) PROVE Same(z, v)
    <3>1. v # <<>>
      BY <2>1, <2>2, <2>3, EmptySeq
    <3>2. PICK f \in Seq(Written), y \in Written : v = Append(f, y)
      BY <3>1, SequenceEmptyOrAppend
    <3>3. /\ Len(v) = Len(f) + 1
          /\ \A i \in 1 .. Len(f) : v[i] = f[i]
          /\ v[Len(f) + 1] = y
          /\ Len(f) \in Nat
      BY <3>2, AppendProperties, LenProperties
    <3>4. Len(f) = Len(u)
      BY <2>1, <2>2, <2>3, <3>3
    <3>5. \A i \in 1 .. Len(u) : i \in 1 .. Len(z)
      BY <2>1, <2>2
    <3>6. \A i \in 1 .. Len(u) : u[i].c = f[i].c
      BY <2>1, <2>3, <3>3, <3>4, <3>5
    <3>7. x.c = y.c
      <4>1. Len(u) + 1 \in 1 .. Len(z)
        BY <2>1, <2>2
      <4>2. z[Len(u) + 1].c = v[Len(u) + 1].c
        BY <2>3, <4>1
      <4> QED
        BY <2>1, <3>3, <3>4, <4>2
    <3>8. WithoutSgr(u) = WithoutSgr(f)
      BY <1>2, <3>4, <3>6 DEF Same
    <3>9. WithoutSgr(Append(u, x)) =
            IF x.c = "sgr" THEN WithoutSgr(u) ELSE Append(WithoutSgr(u), x.c)
      BY ClassFacts
    <3>10. WithoutSgr(Append(f, y)) =
             IF y.c = "sgr" THEN WithoutSgr(f) ELSE Append(WithoutSgr(f), y.c)
      BY ClassFacts
    <3>11. WithoutSgr(Append(u, x)) = WithoutSgr(Append(f, y))
      BY <3>7, <3>8, <3>9, <3>10
    <3> QED
      BY <3>2, <3>11 DEF Same, z
  <2> QED
    BY <2>1, <2>3 DEF z
<1>3. s \in P
  <2> HIDE DEF P
  <2> QED
    BY <1>1, <1>2, EachSequence
<1>4. Like(s, t)
  OBVIOUS
<1> HIDE DEF Like
<1> QED
  BY <1>3, <1>4

(* The rules in use. *)
LEMMA RuleFacts ==
  ASSUME rules \in RuleSets
  PROVE  /\ rules \in Seq(Rule) /\ DOMAIN rules \subseteq Nat
         /\ \A i \in DOMAIN rules : /\ rules[i] \in Rule /\ rules[i].on \subseteq Words
                                    /\ rules[i].style \subseteq Attributes
<1>1. rules \in Seq(Rule)
  BY HighlighterAssumption
<1>2. DOMAIN rules = 1 .. Len(rules) /\ Len(rules) \in Nat
  BY <1>1, LenProperties
<1>3. \A i \in DOMAIN rules : rules[i] \in Rule
  BY <1>1, <1>2, ElementOfSeq
<1> QED
  BY <1>1, <1>2, <1>3 DEF Rule

(* A rule gives a style to words only. *)
LEMMA StyleFacts ==
  ASSUME rules \in RuleSets, NEW items, NEW live \in SUBSET DOMAIN rules, NEW p
  PROVE  /\ StyleOf(items, live, p) \subseteq Attributes
         /\ StyleOf(items, live, p) # {} => items[p].c \in Words
<1> DEFINE hit == {i \in live : p \in Matches(rules[i], items)}
           alone == {i \in hit : rules[i].exclusive}
<1>1. \A i \in hit : rules[i].style \subseteq Attributes /\ items[p].c \in Words
  BY RuleFacts DEF Matches
<1>2. CASE alone = {}
  <2>1. StyleOf(items, live, p) = UNION {rules[i].style : i \in hit}
    BY <1>2 DEF StyleOf
  <2> HIDE DEF hit, alone
  <2> QED
    BY <1>1, <2>1
<1>3. CASE alone # {}
  <2>1. StyleOf(items, live, p) = rules[Min(alone)].style
    BY <1>3 DEF StyleOf
  <2>2. alone \in SUBSET Nat
    BY RuleFacts
  <2>3. Min(alone) \in hit
    BY <1>3, <2>2, MinFacts
  <2> HIDE DEF hit, alone
  <2> QED
    BY <1>1, <2>1, <2>3
<1> QED
  BY <1>2, <1>3

(* What was read and is not styled yet. *)
Unstyled == {x \in Drawn : x.style = {}}

(* Styles change nothing else. *)
LEMMA StyledFacts ==
  ASSUME rules \in RuleSets, NEW s, NEW items \in Seq(Held \cap Unstyled)
  PROVE  Styled(s, items) \in Seq(Held) /\ Same(Styled(s, items), items)
<1> DEFINE t == Styled(s, items)
           St(i) == Wanted(StyleOf(items, Live(s), i), full \/ ~interactive)
<1>1. /\ DOMAIN items = 1 .. Len(items) /\ Len(items) \in Nat
      /\ \A i \in 1 .. Len(items) : items[i] \in Held \cap Unstyled
  BY LenProperties, ElementOfSeq
<1>2. \A i \in 1 .. Len(items) : t[i] = IF IsText(items[i]) THEN [items[i] EXCEPT !.style = St(i)]
                                       ELSE items[i]
  BY <1>1 DEF Styled
<1>3. t = [i \in 1 .. Len(items) |-> t[i]]
  BY <1>1 DEF Styled
<1> HIDE DEF t
<1>4. ASSUME NEW i \in 1 .. Len(items) PROVE t[i] \in Held /\ t[i].c = items[i].c
  <2> DEFINE x == items[i]
             y == St(i)
  <2>1. x \in Held /\ x \in Drawn /\ x.style = {}
    BY <1>1 DEF Unstyled
  <2>2. y \subseteq Attributes /\ (y # {} => x.c \in Words)
    <3>1. Live(s) \in SUBSET DOMAIN rules
      BY DEF Live
    <3> DEFINE z == StyleOf(items, Live(s), i)
    <3>2. z \subseteq Attributes /\ (z # {} => x.c \in Words)
      BY <3>1, StyleFacts
    <3> HIDE DEF z
    <3> QED
      BY <3>2 DEF Wanted, z
  <2> HIDE DEF x, y
  <2>3. [x EXCEPT !.style = y] \in Held /\ [x EXCEPT !.style = y].c = x.c
    BY <2>1, <2>2 DEF Held, Drawn, Written
  <2> QED
    BY <1>2, <2>1, <2>3 DEF x, y
<1>5. t \in Seq(Held) /\ Len(t) = Len(items)
  <2>1. t \in [1 .. Len(items) -> Held]
    BY <1>3, <1>4
  <2>2. t \in Seq(Held)
    BY <1>1, <2>1, IsASeq
  <2>3. Len(t) = Len(items)
    BY <1>1, <2>1, <2>2, LenProperties
  <2> QED
    BY <2>2, <2>3
<1>6. t \in Seq(Written) /\ items \in Seq(Written)
  <2>1. Held \cap Unstyled \subseteq Written
    BY DrawnConcat
  <2>2. items \in Seq(Written)
    BY <2>1, SeqMonotonic
  <2> QED
    BY <1>5, <2>2, DrawnConcat
<1>7. Same(t, items)
  BY <1>4, <1>5, <1>6, SameClasses
<1> QED
  BY <1>5, <1>7 DEF t

(* Read is read, in a style or not. *)
LEMMA KeepingSame ==
  ASSUME NEW b, NEW from, Begins(from), NEW done, NEW out, NEW alternate,
         Keeping(b, from, done, out, alternate), NEW more \in Seq(Drawn), Same(done, more)
  PROVE  Keeping(b, from, more, out, alternate)
<1> DEFINE o == from.out
<1>1. /\ o \in Seq(Written) /\ from.rewritten \in BOOLEAN
      /\ done \in Seq(Written) /\ more \in Seq(Written)
  BY DrawnConcat DEF Begins, Keeping
<1> HIDE DEF o
<1>2. Same(o \o done, o \o more)
  <2>1. Same(o, o)
    BY DEF Same
  <2> QED
    BY <1>1, <2>1, SameConcat
<1>3. Same(out, from.out \o more)
  BY <1>2 DEF Keeping, Same, o
<1>4. Enables(done) <=> Enables(more)
  BY <1>1, SameEnables
<1>5. Marked(from.rewritten, done) = Marked(from.rewritten, more)
  BY <1>1, SameMarks
<1> QED
  BY <1>3, <1>4, <1>5 DEF Keeping

(* Some of what is read switches the screen. *)
LEMMA EnablesConcat ==
  ASSUME NEW s \in Seq(Written), NEW t \in Seq(Written)
  PROVE  Enables(s \o t) <=> Enables(s) \/ Enables(t)
<1> DEFINE P == {u \in Seq(Written) : Enables(s \o u) <=> Enables(s) \/ Enables(u)}
<1>1. <<>> \in P
  <2>1. s \o <<>> = s
    BY ConcatEmptySeq
  <2>2. ~Enables(<<>>)
    BY DEF Enables
  <2> QED
    BY <2>1, <2>2, EmptySeq
<1>2. ASSUME NEW u \in Seq(Written), NEW x \in Written, u \in P PROVE Append(u, x) \in P
  <2>1. s \o Append(u, x) = Append(s \o u, x) /\ s \o u \in Seq(Written)
    BY ConcatWritten, ConcatProperties
  <2>2. Enables(Append(s \o u, x)) <=> Enables(s \o u) \/ x.c \in ToAlternate
    BY <2>1, EnablesAppend
  <2>3. Enables(Append(u, x)) <=> Enables(u) \/ x.c \in ToAlternate
    BY EnablesAppend
  <2> QED
    BY <1>2, <2>1, <2>2, <2>3, AppendProperties
<1>3. t \in P
  <2> HIDE DEF P
  <2> QED
    BY <1>1, <1>2, EachSequence
<1> QED
  BY <1>3

(* What is highlighted does not. *)
LEMMA HeldStays ==
  ASSUME NEW items \in Seq(Held)
  PROVE  ~Enables(items)
<1>1. \A i \in DOMAIN items : items[i] \in Held
  BY LenProperties, ElementOfSeq
<1> QED
  BY <1>1 DEF Enables, Held

(* Rules that fail are taken out. *)
LEMMA DrawsQuarantine ==
  ASSUME NEW b, NEW from, NEW done, NEW s, Draws(b, from, done, s), rules \in RuleSets,
         NEW items
  PROVE  LET v == Quarantine(s, items)
         IN /\ Draws(b, from, done, v) /\ v.out = s.out /\ v.overlay = s.overlay
            /\ v.native = s.native
            /\ v.pending = s.pending /\ v.remainder = s.remainder /\ v.split = s.split
            /\ v.rewritten = s.rewritten /\ v.alternate = s.alternate /\ v.echoing = s.echoing
            /\ v.tail = s.tail
<1> DEFINE bad == {rules[i] : i \in {j \in Live(s) : Fails(rules[j], items) # {}}}
           v == Quarantine(s, items)
<1>1. s \in States
  BY DEF Draws
<1>2. bad \subseteq Rule /\ bad \cap s.disabled = {}
  BY RuleFacts DEF Live
<1>3. v = [s EXCEPT !.disabled = s.disabled \cup bad, !.errors = s.errors \cup bad]
  BY DEF Quarantine
<1> HIDE DEF v, bad
<1>4. /\ v \in States /\ v.out = s.out /\ v.overlay = s.overlay /\ v.native = s.native
      /\ v.pending = s.pending /\ v.remainder = s.remainder /\ v.split = s.split
      /\ v.rewritten = s.rewritten /\ v.alternate = s.alternate /\ v.echoing = s.echoing
      /\ v.tail = s.tail
      /\ v.disabled = s.disabled \cup bad /\ v.errors = s.errors \cup bad
  BY <1>1, <1>2, <1>3 DEF States
<1>5. v.errors \cap failed = {} /\ v.errors \cup failed \subseteq v.disabled
  BY <1>2, <1>4 DEF Draws
<1>6. Draws(b, from, done, v)
  BY <1>4, <1>5 DEF Draws
<1> QED
  BY <1>4, <1>6 DEF v

(* Items with their styles, written. *)
LEMMA DrawsStyled ==
  ASSUME NEW b \in Seen, NEW from, Begins(from), NEW done, NEW s, Draws(b, from, done, s),
         NEW styled \in Seq(Held)
  PROVE  LET v == EmitStyled(s, styled)
         IN /\ Draws(b, from, done \o styled, v)
            /\ v.pending = s.pending /\ v.remainder = s.remainder /\ v.split = s.split
            /\ v.rewritten = s.rewritten /\ v.alternate = s.alternate /\ v.echoing = s.echoing
            /\ v.tail = s.tail
<1> DEFINE w == [out |-> s.out, active |-> s.overlay, native |-> s.native]
           u == IF interactive THEN EmitInteractive(w, styled, full) ELSE Emit(w, styled, TRUE)
           v == EmitStyled(s, styled)
           more == done \o styled
<1>1. /\ s \in States /\ Fits(b, from, done, s.out, s.native, s.overlay, s.alternate)
      /\ s.out \in Seq(Written) /\ s.native \in Terminal /\ s.overlay \in SUBSET Attributes
  BY DEF Draws, States
<1>2. FitsWriter(b, from, done, w, s.alternate)
  <2>1. w \in Writers
    BY <1>1 DEF Writers
  <2> QED
    BY <1>1, <2>1 DEF FitsWriter
<1>3. v = Redrawn(s, u.out, u.native, u.active)
  <2>1. v = Wrote(s, u)
    BY DEF EmitStyled
  <2> HIDE DEF u, v
  <2> QED
    BY <2>1 DEF Wrote, Redrawn
<1> HIDE DEF w, v
<1>4. FitsWriter(b, from, more, u, s.alternate) /\ (u.active # {} => interactive)
  <2>1. CASE interactive
    <3>1. u = EmitInteractive(w, styled, full)
      BY <2>1
    <3>2. FitsWriter(b, from, more, EmitInteractive(w, styled, full), s.alternate)
      BY <1>2, FitsInteractive
    <3> QED
      BY <2>1, <3>1, <3>2
  <2>2. CASE ~interactive
    <3>1. u = Emit(w, styled, TRUE)
      BY <2>2
    <3>2. /\ FitsWriter(b, from, more, Emit(w, styled, TRUE), s.alternate)
          /\ Emit(w, styled, TRUE).active = {}
      BY <1>2, FitsStream
    <3> QED
      BY <3>1, <3>2
  <2> QED
    BY <2>1, <2>2
<1> HIDE DEF u
<1>5. Enables(more) => Enables(done)
  <2>1. done \in Seq(Written) /\ styled \in Seq(Written)
    BY <1>1, DrawnConcat DEF Fits, Keeping
  <2> QED
    BY <2>1, EnablesConcat, HeldStays
<1> HIDE DEF more
<1>6. Fits(b, from, more, u.out, u.native, u.active, s.alternate)
  BY <1>4 DEF FitsWriter
<1>7. Draws(b, from, more, v)
  BY <1>3, <1>4, <1>5, <1>6, DrawsMore
<1>8. u.out \in Seq(Written) /\ u.native \in Terminal /\ u.active \in SUBSET Attributes
  BY <1>6 DEF Fits, Showing
<1>9. /\ v.pending = s.pending /\ v.remainder = s.remainder /\ v.split = s.split
      /\ v.rewritten = s.rewritten /\ v.alternate = s.alternate /\ v.echoing = s.echoing
      /\ v.tail = s.tail
  BY <1>1, <1>3, <1>8, RedrawnIs
<1> QED
  BY <1>7, <1>9 DEF v, more

(* What is collected is highlighted. *)
LEMMA DrawsPrepared ==
  ASSUME NEW b \in Seen, NEW from, Begins(from), NEW done, NEW s, Draws(b, from, done, s),
         rules \in RuleSets, NEW items \in Seq(Held \cap Unstyled)
  PROVE  LET v == Prepared(s, items)
         IN /\ Draws(b, from, done \o items, v)
            /\ v.pending = s.pending /\ v.remainder = s.remainder /\ v.split = s.split
            /\ v.rewritten = s.rewritten /\ v.alternate = s.alternate /\ v.echoing = s.echoing
            /\ v.tail = s.tail
<1> DEFINE q == Quarantine(s, items)
           styled == Styled(s, items)
           v == EmitStyled(q, styled)
<1>1. /\ Draws(b, from, done, q)
      /\ q.pending = s.pending /\ q.remainder = s.remainder /\ q.split = s.split
      /\ q.rewritten = s.rewritten /\ q.alternate = s.alternate /\ q.echoing = s.echoing
      /\ q.tail = s.tail
  BY DrawsQuarantine
<1>2. styled \in Seq(Held) /\ Same(styled, items)
  BY StyledFacts
<1>3. Prepared(s, items) = v
  BY DEF Prepared
<1> HIDE DEF q, styled
<1>4. /\ Draws(b, from, done \o styled, v)
      /\ v.pending = q.pending /\ v.remainder = q.remainder /\ v.split = q.split
      /\ v.rewritten = q.rewritten /\ v.alternate = q.alternate /\ v.echoing = q.echoing
      /\ v.tail = q.tail
  BY <1>1, <1>2, DrawsStyled
<1> HIDE DEF v
<1>5. done \in Seq(Drawn) /\ items \in Seq(Drawn) /\ styled \in Seq(Drawn)
  <2>1. Held \cap Unstyled \subseteq Drawn
    BY DrawnConcat
  <2>2. items \in Seq(Drawn)
    BY <2>1, SeqMonotonic
  <2> QED
    BY <1>1, <1>2, <2>2, DrawnConcat DEF Draws, Fits, Keeping
<1>6. Same(done \o styled, done \o items) /\ done \o items \in Seq(Drawn)
  <2>1. Same(done, done)
    BY DEF Same
  <2>2. done \in Seq(Written) /\ items \in Seq(Written) /\ styled \in Seq(Written)
    BY <1>5, DrawnConcat
  <2> QED
    BY <1>2, <1>5, <2>1, <2>2, SameConcat, DrawnConcat
<1>7. Enables(done \o styled) <=> Enables(done \o items)
  <2>1. done \o styled \in Seq(Written) /\ done \o items \in Seq(Written)
    BY <1>5, DrawnConcat
  <2> QED
    BY <1>6, <2>1, SameEnables
<1> DEFINE d == done \o styled
           e == done \o items
<1> HIDE DEF d, e
<1>8. Keeping(b, from, d, v.out, v.alternate) => Keeping(b, from, e, v.out, v.alternate)
  BY <1>6, KeepingSame DEF d, e
<1>9. Draws(b, from, e, v)
  <2>1. Draws(b, from, d, v)
    BY <1>4 DEF d
  <2>2. Enables(d) <=> Enables(e)
    BY <1>7 DEF d, e
  <2> QED
    BY <1>8, <2>1, <2>2 DEF Draws, Fits
<1> QED
  BY <1>1, <1>3, <1>4, <1>9 DEF e

(* The rendition, item by item. *)
LEMMA ApplyFacts ==
  ASSUME NEW n \in Terminal
  PROVE  /\ ApplyAll(n, <<>>) = n
         /\ \A s \in Seq(Written) : ApplyAll(n, s) \in Terminal
         /\ \A s \in Seq(Written), x \in Written :
              ApplyAll(n, Append(s, x)) = Apply(ApplyAll(n, s), x)
         /\ \A x \in Written : ApplyAll(n, <<x>>) = Apply(n, x) /\ Apply(n, x) \in Terminal
<1>1. \A v \in Terminal, x \in Written : Apply(v, x) \in Terminal
  BY ApplyIsObey, ObeyType
<1>2. /\ ApplyAll(n, <<>>) = n
      /\ \A s \in Seq(Written) : ApplyAll(n, s) \in Terminal
      /\ \A s \in Seq(Written), x \in Written :
           ApplyAll(n, Append(s, x)) = Apply(ApplyAll(n, s), x)
  BY <1>1, ApplyFolds
<1>3. ASSUME NEW x \in Written PROVE ApplyAll(n, <<x>>) = Apply(n, x)
  <2>1. <<x>> = Append(<<>>, x) /\ <<>> \in Seq(Written)
    BY EmptySeq
  <2> QED
    BY <1>2, <2>1
<1> QED
  BY <1>1, <1>2, <1>3

(* Mode 47 leaves an open highlight as it is. *)
LEMMA FitsSwitch ==
  ASSUME NEW b \in Seen, NEW from, Begins(from), NEW done, NEW out, NEW n, NEW style,
         NEW alternate, Fits(b, from, done, out, n, style, alternate),
         NEW x \in Unstyled, x.c = "?47h"
  PROVE  Fits(b, from, Append(done, x), Append(out, x), Apply(n, x), style, TRUE)
<1> DEFINE q == Seeing(b, out)
<1>1. /\ out \in Seq(Written) /\ n \in Terminal /\ style \in SUBSET Attributes
      /\ Tracks(n, style, q) /\ (n.alt => alternate) /\ q \in Seen
  BY SeenFacts DEF Fits, Showing
<1>2. Suits(x, style) /\ x \in Drawn /\ x.c \in ToAlternate
  BY DEF Suits, IsText, TextClasses, Words, Fills, ToAlternate, Unstyled
<1>3. x.c \notin ToAlternate /\ ~alternate => ~TRUE
  BY <1>2
<1>4. /\ Keeping(b, from, Append(done, x), Append(out, x), TRUE)
      /\ Append(out, x) \in Seq(Written)
      /\ Seeing(b, Append(out, x)) = See(q, x)
      /\ See(q, x) \in Seen /\ Apply(n, x) \in Terminal
      /\ Apply(n, x) = Obey(n, x)
      /\ See(q, x).own = Apply(n, x)
      /\ See(q, x).faults \cap DrawingFaults = {}
      /\ See(q, x).terminal = Obey(q.terminal, x)
  <2> DEFINE later == TRUE
  <2>1. x.c \notin ToAlternate /\ ~alternate => ~later
    BY <1>2
  <2> HIDE DEF later
  <2>2. Keeping(b, from, Append(done, x), Append(out, x), later)
    BY <1>2, <2>1, FitsItem, SMTT(60)
  <2>3. /\ Append(out, x) \in Seq(Written)
        /\ Seeing(b, Append(out, x)) = See(q, x)
        /\ See(q, x) \in Seen /\ Apply(n, x) \in Terminal
        /\ Apply(n, x) = Obey(n, x)
        /\ See(q, x).own = Apply(n, x)
        /\ See(q, x).faults \cap DrawingFaults = {}
        /\ See(q, x).terminal = Obey(q.terminal, x)
    BY <1>2, <2>1, FitsItem, SMTT(60)
  <2> QED
    BY <2>2, <2>3 DEF later
<1> HIDE DEF q
<1> DEFINE t == q.terminal
           u == Obey(t, x)
           k == Apply(n, x)
<1>5. t \in Terminal
  BY <1>1 DEF Seen
<1>6. u = [t EXCEPT !.alt = TRUE] /\ k = [n EXCEPT !.alt = TRUE]
  BY <1>1, <1>4, <1>5, ObeyIs
<1>7. t.now = Over(n.now, style) /\ t.saved = n.saved
  BY <1>1, TracksIs
<1> HIDE DEF t, u, k
<1>8. /\ u.now = t.now /\ u.saved = t.saved /\ u.alt = TRUE
      /\ k.now = n.now /\ k.saved = n.saved /\ k.alt = TRUE /\ k \in Terminal
  BY <1>1, <1>5, <1>6 DEF Terminal
<1> DEFINE p == See(q, x)
<1>9. p.own = k /\ p.terminal = u /\ p.faults \cap DrawingFaults = {} /\ p \in Seen
  BY <1>4 DEF u, k, t
<1> HIDE DEF p
<1>10. /\ p.terminal.now = Over(k.now, style)
       /\ p.terminal.saved = k.saved /\ p.terminal.alt = k.alt
  BY <1>7, <1>8, <1>9
<1>11. Tracks(k, style, p)
  BY <1>8, <1>9, <1>10, TracksIs
<1>12. Showing(b, Append(out, x), k, style, TRUE)
  BY <1>1, <1>4, <1>8, <1>11 DEF Showing, p
<1> QED
  BY <1>4, <1>12 DEF Fits, k

(* What a state is after the line is left for an item outside of the           *)
(* highlighting.                                                            *)
Leaving(b, from, done, s, x, z) ==
  /\ z \in States /\ z.pending = from.pending
  /\ Fits(b, from, done, z.out, z.native, z.overlay, s.alternate)
  /\ z.overlay # {} => interactive /\ x.c = "?47h"
  /\ z.errors \cap failed = {} /\ z.errors \cup failed \subseteq z.disabled
  /\ x.c \in ToAlternate => z.alternate = TRUE /\ z.rewritten = FALSE
  /\ x.c \in FromAlternate => z.alternate = FALSE /\ z.rewritten = FALSE
  /\ x.c \notin ToAlternate \cup FromAlternate
     => z.alternate = s.alternate /\ z.rewritten = s.rewritten

(* OutsideLine leaves the line so.                                         *)
LEMMA OutsideLineFacts ==
  ASSUME NEW b \in Seen, NEW from, Begins(from), NEW done, NEW s, Draws(b, from, done, s),
         NEW x
  PROVE  Leaving(b, from, done, s, x, OutsideLine(s, x))
<1> DEFINE fresh == [s EXCEPT !.tail = NoLine, !.rewritten = FALSE]
           z == OutsideLine(s, x)
<1>1. s \in States /\ NoLine \in Line
  BY DEF Draws, NoLine, Line
<1>2. /\ fresh \in States /\ fresh.pending = s.pending /\ fresh.out = s.out
      /\ fresh.native = s.native /\ fresh.overlay = s.overlay /\ fresh.alternate = s.alternate
      /\ fresh.errors = s.errors /\ fresh.disabled = s.disabled /\ fresh.rewritten = FALSE
  BY <1>1 DEF States
<1> HIDE DEF fresh
<1>3. Draws(b, from, done, fresh)
  BY <1>2 DEF Draws
<1>4. ToAlternate \cap FromAlternate = {}
  BY DEF ToAlternate, FromAlternate
<1> DEFINE Well(y) ==
      /\ y \in States /\ y.pending = from.pending
      /\ Fits(b, from, done, y.out, y.native, y.overlay, s.alternate)
      /\ y.overlay # {} => interactive
      /\ y.errors \cap failed = {} /\ y.errors \cup failed \subseteq y.disabled
<1>5. Well(fresh) /\ Well(CloseOverlay(fresh)) /\ CloseOverlay(fresh).overlay = {}
      /\ CloseOverlay(fresh).rewritten = FALSE
  <2>1. Well(fresh)
    BY <1>2, <1>3 DEF Draws
  <2> DEFINE v == CloseOverlay(fresh)
  <2>2. /\ Draws(b, from, done, v) /\ v.overlay = {}
        /\ v.rewritten = fresh.rewritten /\ v.alternate = fresh.alternate
    BY <1>3, DrawsClose
  <2> HIDE DEF v
  <2>3. Well(v)
    BY <1>2, <2>2 DEF Draws
  <2> QED
    BY <1>2, <2>1, <2>2, <2>3 DEF v
<1>6. CASE x.c \in ToAlternate
  <2> DEFINE y == IF x.c \in Saves THEN CloseOverlay(fresh) ELSE fresh
  <2>1. z = [y EXCEPT !.alternate = TRUE, !.echoing = FALSE]
    BY <1>4, <1>6 DEF OutsideLine, fresh
  <2>2. Well(y) /\ y.rewritten = FALSE /\ (y.overlay # {} => x.c = "?47h")
    <3>1. x.c \notin Saves => x.c = "?47h"
      BY <1>6 DEF ToAlternate, Saves
    <3> HIDE DEF Well
    <3> QED
      BY <1>2, <1>5, <3>1
  <2> HIDE DEF y, z
  <2>3. /\ z \in States /\ z.pending = y.pending /\ z.out = y.out
        /\ z.native = y.native /\ z.overlay = y.overlay /\ z.alternate = TRUE
        /\ z.errors = y.errors /\ z.disabled = y.disabled /\ z.rewritten = y.rewritten
    BY <2>1, <2>2 DEF States
  <2> QED
    BY <1>4, <1>6, <2>2, <2>3 DEF z, Leaving
<1>7. CASE x.c \in FromAlternate
  <2> DEFINE y == CloseOverlay(fresh)
  <2>1. z = [y EXCEPT !.alternate = FALSE]
    BY <1>4, <1>7 DEF OutsideLine, fresh
  <2>2. Well(y) /\ y.rewritten = FALSE /\ y.overlay = {}
    BY <1>5
  <2> HIDE DEF y, z
  <2>3. /\ z \in States /\ z.pending = y.pending /\ z.out = y.out
        /\ z.native = y.native /\ z.overlay = y.overlay /\ z.alternate = FALSE
        /\ z.errors = y.errors /\ z.disabled = y.disabled /\ z.rewritten = y.rewritten
    BY <2>1, <2>2 DEF States
  <2> QED
    BY <1>4, <1>7, <2>2, <2>3 DEF z, Leaving
<1>8. CASE x.c \notin ToAlternate \cup FromAlternate
  <2>1. z = CloseOverlay(s)
    BY <1>8 DEF OutsideLine
  <2> DEFINE v == CloseOverlay(s)
  <2>2. /\ Draws(b, from, done, v) /\ v.overlay = {}
        /\ v.rewritten = s.rewritten /\ v.alternate = s.alternate
    BY DrawsClose
  <2> HIDE DEF v, z
  <2>3. z = v
    BY <2>1 DEF v
  <2>4. /\ v \in States /\ v.pending = from.pending
        /\ Fits(b, from, done, v.out, v.native, v.overlay, s.alternate)
        /\ v.errors \cap failed = {} /\ v.errors \cup failed \subseteq v.disabled
    BY <2>2 DEF Draws
  <2> QED
    BY <1>8, <2>2, <2>3, <2>4 DEF z, Leaving
<1> QED
  BY <1>6, <1>7, <1>8

(* An item outside of the highlighting, written. *)
LEMMA DrawsOutside ==
  ASSUME NEW b \in Seen, NEW from, Begins(from), NEW done, NEW s, Draws(b, from, done, s),
         NEW x \in Unstyled
  PROVE  Draws(b, from, Append(done, x), Outside(s, x))
<1> DEFINE z == OutsideLine(s, x)
<1>1. /\ z \in States /\ z.pending = from.pending
      /\ Fits(b, from, done, z.out, z.native, z.overlay, s.alternate)
      /\ z.overlay # {} => interactive /\ x.c = "?47h"
      /\ z.errors \cap failed = {} /\ z.errors \cup failed \subseteq z.disabled
      /\ x.c \in ToAlternate => z.alternate = TRUE /\ z.rewritten = FALSE
      /\ x.c \in FromAlternate => z.alternate = FALSE /\ z.rewritten = FALSE
      /\ x.c \notin ToAlternate \cup FromAlternate
         => z.alternate = s.alternate /\ z.rewritten = s.rewritten
  <2>1. Leaving(b, from, done, s, x, z)
    BY OutsideLineFacts
  <2> HIDE DEF z
  <2> QED
    BY <2>1 DEF Leaving
<1> DEFINE n == z.native
           o == Append(z.out, x)
           k == Apply(n, x)
           v == Outside(s, x)
           more == Append(done, x)
<1>2. x \in Drawn /\ x.style = {} /\ x \in Written
  BY DrawnConcat DEF Unstyled
<1>3. v = Redrawn(z, o, k, z.overlay)
  <2>1. v = [[z EXCEPT !.native = ApplyAll(z.native, <<x>>)] EXCEPT !.out = @ \o <<x>>]
    BY DEF Outside, Observed, Write
  <2> HIDE DEF z
  <2>2. z.native \in Terminal /\ z.out \in Seq(Written)
    BY <1>1 DEF States
  <2>3. ApplyAll(z.native, <<x>>) = k
    BY <1>2, <2>2, ApplyFacts
  <2>4. z.out \o <<x>> = o
    BY <1>2, <2>2, OneMore
  <2> HIDE DEF k, o, v
  <2> QED
    BY <1>1, <2>1, <2>3, <2>4 DEF Redrawn, States
<1> HIDE DEF z, v
<1>4. s.alternate \in BOOLEAN /\ n \in Terminal /\ (n.alt => s.alternate)
  BY <1>1 DEF Draws, Fits, Showing, States
<1>5. Obey(n, x).alt => z.alternate
  BY <1>1, <1>4, ScreenAfter
<1>6. x.c \notin ToAlternate /\ ~s.alternate => ~z.alternate
  BY <1>1
<1>7. Fits(b, from, more, o, k, z.overlay, z.alternate)
  <2>1. CASE z.overlay = {}
    <3>1. Fits(b, from, done, z.out, n, {}, s.alternate)
      BY <1>1, <2>1
    <3> DEFINE y == z.out
               late == z.alternate
               ear == s.alternate
    <3>3. /\ Fits(b, from, done, y, n, {}, ear) /\ (Obey(n, x).alt => late)
          /\ (x.c \notin ToAlternate /\ ~ear => ~late)
      BY <1>5, <1>6, <3>1
    <3> HIDE DEF n, y, late, ear
    <3>2. Fits(b, from, more, Append(y, x), k, {}, late)
      BY <1>2, <3>3, FitsCommand, SMTT(60)
    <3> QED
      BY <2>1, <3>2 DEF y, late
  <2>2. CASE z.overlay # {}
    <3>1. x.c = "?47h" /\ z.alternate = TRUE
      BY <1>1, <2>2 DEF ToAlternate
    <3>2. Fits(b, from, more, o, k, z.overlay, TRUE)
      BY <1>1, <3>1, FitsSwitch
    <3> QED
      BY <3>1, <3>2
  <2> QED
    BY <2>1, <2>2
<1>8. o \in Seq(Written) /\ k \in Terminal /\ z.overlay \in SUBSET Attributes
  BY <1>7 DEF Fits, Showing
<1> HIDE DEF o, k, more
<1>9. /\ v \in States /\ v.out = o /\ v.native = k /\ v.overlay = z.overlay
      /\ v.pending = z.pending
      /\ v.rewritten = z.rewritten /\ v.alternate = z.alternate
      /\ v.disabled = z.disabled /\ v.errors = z.errors
  BY <1>1, <1>3, <1>8, RedrawnIs
<1>10. z.rewritten => from.rewritten /\ interactive /\ ~z.alternate /\ ~Enables(more)
  <2>1. done \in Seq(Drawn)
    BY DEF Draws, Fits, Keeping
  <2>2. Enables(more) <=> Enables(done) \/ x.c \in ToAlternate
    BY <1>2, <2>1, EnablesAppend DEF more
  <2> QED
    BY <1>1, <2>2 DEF Draws
<1>11. Draws(b, from, more, v)
  BY <1>1, <1>7, <1>9, <1>10 DEF Draws
<1> QED
  BY <1>11 DEF v, more

(* A read that moves the cursor is passed through, item for item.            *)
LEMMA FitsPassed ==
  ASSUME NEW b \in Seen, NEW from, Begins(from), NEW done, NEW out, NEW n,
         Fits(b, from, done, out, n, {}, FALSE), NEW items \in Seq(Unstyled), ~Enables(items)
  PROVE  Fits(b, from, done \o items, out \o items, ApplyAll(n, items), {}, FALSE)
<1> DEFINE Good(t) == Fits(b, from, done \o t, out \o t, ApplyAll(n, t), {}, FALSE)
           P == {t \in Seq(Unstyled) : Enables(t) \/ Good(t)}
<1>1. n \in Terminal /\ out \in Seq(Written) /\ done \in Seq(Drawn)
  BY DEF Fits, Keeping, Showing
<1>2. Unstyled \subseteq Drawn /\ Unstyled \subseteq Written /\ Drawn \subseteq Written
  BY DrawnConcat DEF Unstyled
<1>3. Seq(Unstyled) \subseteq Seq(Drawn) /\ Seq(Unstyled) \subseteq Seq(Written)
  BY <1>2
<1>4. <<>> \in P
  <2>1. done \o <<>> = done /\ out \o <<>> = out /\ ApplyAll(n, <<>>) = n
    BY <1>1, ApplyFacts, OneMore
  <2>2. <<>> \in Seq(Unstyled)
    OBVIOUS
  <2> QED
    BY <2>1, <2>2
<1>5. ASSUME NEW t \in Seq(Unstyled), NEW x \in Unstyled, t \in P
      PROVE  Append(t, x) \in P
  <2>1. /\ Append(t, x) \in Seq(Unstyled)
        /\ Enables(Append(t, x)) <=> Enables(t) \/ x.c \in ToAlternate
    BY EnablesAppend
  <2>2. CASE ~Enables(t) /\ x.c \notin ToAlternate
    <3> DEFINE k == ApplyAll(n, t)
               d == done \o t
               o == out \o t
               later == FALSE
    <3>1. Fits(b, from, d, o, k, {}, later)
      BY <1>5, <2>2
    <3>2. k \in Terminal /\ ~k.alt
      BY <3>1 DEF Fits, Showing
    <3>3. x \in Drawn /\ x.style = {}
      BY <1>2 DEF Unstyled
    <3>4. Obey(k, x).alt => later
      BY <2>2, <3>2, ScreenAfter
    <3>5. x.c \notin ToAlternate /\ ~later => ~later
      OBVIOUS
    <3>6. ApplyAll(n, Append(t, x)) = Apply(k, x)
      BY <1>1, <1>2, <1>3, ApplyFacts
    <3>7. done \o Append(t, x) = Append(d, x) /\ out \o Append(t, x) = Append(o, x)
      BY <1>1, <1>2, <1>3, ConcatAppend
    <3> HIDE DEF k, d, o, later
    <3>8. Fits(b, from, Append(d, x), Append(o, x), Apply(k, x), {}, later)
      BY <3>1, <3>3, <3>4, <3>5, FitsCommand, SMTT(60)
    <3> QED
      BY <2>1, <3>6, <3>7, <3>8 DEF later
  <2> QED
    BY <2>1, <2>2
<1> HIDE DEF P
<1>6. Seq(Unstyled) \subseteq P
  BY <1>4, <1>5, EachSequence
<1> QED
  BY <1>6 DEF P

(* Then no highlight is open.                                              *)
LEMMA DrawsPassthrough ==
  ASSUME NEW b \in Seen, NEW from, Begins(from), NEW done, NEW s, Draws(b, from, done, s),
         NEW items \in Seq(Unstyled), ~Enables(items), ~s.alternate
  PROVE  /\ Draws(b, from, done \o items, Passthrough(s, items))
         /\ Passthrough(s, items).overlay = {}
<1> DEFINE v == CloseOverlay(s)
<1>1. /\ Draws(b, from, done, v) /\ v.overlay = {}
      /\ v.rewritten = s.rewritten /\ v.alternate = s.alternate
  BY DrawsClose, SMTT(60)
<1> DEFINE n == ApplyAll(v.native, items)
           o == v.out \o items
           more == done \o items
           w == Passthrough(s, items)
<1> HIDE DEF v
<1>2. v \in States /\ v.alternate = FALSE /\ Fits(b, from, done, v.out, v.native, {}, FALSE)
  <2>1. v \in States /\ Fits(b, from, done, v.out, v.native, v.overlay, v.alternate)
    BY <1>1 DEF Draws
  <2>2. v.alternate = FALSE
    BY <1>1, <2>1 DEF States
  <2> QED
    BY <1>1, <2>1, <2>2
<1>3. Fits(b, from, more, o, n, {}, FALSE)
  BY <1>2, FitsPassed
<1>4. w = [[v EXCEPT !.native = n] EXCEPT !.out = o]
  <2>1. w = [[v EXCEPT !.native = ApplyAll(@, items)] EXCEPT !.out = @ \o items]
    BY DEF Passthrough, Observed, Write, v
  <2> QED
    BY <1>2, <2>1 DEF States
<1> HIDE DEF w, n, o
<1>5. w = Redrawn(v, o, n, {})
  BY <1>1, <1>2, <1>4 DEF Redrawn, States
<1>6. Enables(more) => Enables(done) \/ ~v.rewritten
  <2>1. done \in Seq(Written) /\ items \in Seq(Written)
    BY <1>2, DrawnConcat DEF Fits, Keeping, Unstyled
  <2> QED
    BY <2>1, EnablesConcat
<1> HIDE DEF more
<1>7. Draws(b, from, more, Redrawn(v, o, n, {}))
  BY <1>1, <1>2, <1>3, <1>6, DrawsMore
<1>8. w.overlay = {}
  BY <1>2, <1>3, <1>5, RedrawnIs DEF Fits, Showing
<1> QED
  BY <1>5, <1>7, <1>8 DEF more, w

(* One after the other after a third. *)
LEMMA ConcatAssoc ==
  ASSUME NEW S, NEW s \in Seq(S), NEW t \in Seq(S), NEW u \in Seq(S)
  PROVE  (s \o t) \o u = s \o (t \o u)
OBVIOUS

(* What is collected of the items t, that come after what is done.            *)
Collects(b, from, done, t, now) ==
  /\ now \in [s : States, held : Seq(Held \cap Unstyled)]
  /\ \E f \in Seq(Drawn) : t = f \o now.held /\ Draws(b, from, done \o f, now.s)

(* One item more, highlighted or not. *)
LEMMA CollectsItem ==
  ASSUME NEW b \in Seen, NEW from, Begins(from), NEW done \in Seq(Drawn), NEW t \in Seq(Unstyled),
         NEW now, Collects(b, from, done, t, now), rules \in RuleSets, NEW x \in Unstyled
  PROVE  Collects(b, from, done, Append(t, x), Token(now, x))
<1> DEFINE X == Held \cap Unstyled
           s == now.s
           held == now.held
<1>1. s \in States /\ held \in Seq(X) /\ now = [s |-> s, held |-> held]
  BY DEF Collects
<1>2. PICK f \in Seq(Drawn) : t = f \o held /\ Draws(b, from, done \o f, s)
  BY DEF Collects
<1>3. /\ X \subseteq Drawn /\ Unstyled \subseteq Drawn /\ Drawn \subseteq Written
      /\ Seq(X) \subseteq Seq(Drawn) /\ Seq(Unstyled) \subseteq Seq(Drawn)
  BY DrawnConcat DEF Unstyled
<1>4. done \o f \in Seq(Drawn) /\ t \in Seq(Drawn) /\ done \o t \in Seq(Drawn)
  BY <1>3, DrawnConcat
<1>5. (done \o f) \o held = done \o t
  BY <1>1, <1>2, <1>3
<1>6. done \o Append(t, x) = Append(done \o t, x) /\ Append(t, x) \in Seq(Drawn)
  BY <1>3, <1>4, ConcatAppend
<1>7. CASE Leaves(s, x)
  <2> DEFINE p == Prepared(s, held)
             v == Outside(p, x)
             d == done \o f
  <2>1. Draws(b, from, d \o held, p)
    <3> HIDE DEF d
    <3>1. Draws(b, from, d, s)
      BY <1>2 DEF d
    <3> HIDE DEF s, held, X
    <3>2. held \in Seq(Held \cap Unstyled)
      BY <1>1 DEF X
    <3> QED
      BY <3>1, <3>2, DrawsPrepared, SMTT(60)
  <2>2. Draws(b, from, done \o t, p)
    BY <1>5, <2>1
  <2> HIDE DEF p
  <2>3. Draws(b, from, Append(done \o t, x), v)
    BY <2>2, DrawsOutside
  <2> HIDE DEF v
  <2>4. Token(now, x) = [s |-> v, held |-> <<>>]
    BY <1>7 DEF Token, v, p
  <2>5. v \in States /\ <<>> \in Seq(X)
    BY <2>3 DEF Draws
  <2>6. Append(t, x) = Append(t, x) \o <<>>
    BY <1>6
  <2>7. Draws(b, from, done \o Append(t, x), v)
    BY <1>6, <2>3
  <2> HIDE DEF X
  <2>8. Collects(b, from, done, Append(t, x), [s |-> v, held |-> <<>>])
    BY <1>6, <2>5, <2>6, <2>7 DEF Collects, X
  <2> QED
    BY <2>4, <2>8
<1>8. CASE ~Leaves(s, x)
  <2>1. x \in X
    BY <1>3, <1>8 DEF Leaves, Held
  <2> DEFINE more == Append(held, x)
  <2>2. more \in Seq(X)
    BY <1>1, <2>1
  <2>3. Token(now, x) = [s |-> s, held |-> more]
    <3>1. Token(now, x) = [now EXCEPT !.held = Append(@, x)]
      BY <1>8 DEF Token
    <3> HIDE DEF s, held
    <3>2. now.held = held /\ now.s = s
      BY DEF held, s
    <3> QED
      BY <1>1, <3>1, <3>2
  <2>4. Append(t, x) = f \o more
    <3>1. held \in Seq(Drawn) /\ x \in Drawn
      BY <1>1, <1>3
    <3> HIDE DEF held, X
    <3>2. Append(t, x) = Append(f \o held, x)
      BY <1>2
    <3>3. f \o Append(held, x) = Append(f \o held, x)
      BY <3>1, ConcatAppend
    <3> QED
      BY <3>2, <3>3
  <2> HIDE DEF s, more, X
  <2>5. Collects(b, from, done, Append(t, x), [s |-> s, held |-> more])
    BY <1>1, <1>2, <2>2, <2>4 DEF Collects, X
  <2> QED
    BY <2>3, <2>5
<1> QED
  BY <1>7, <1>8

(* And all of them: what is left over is highlighted at the end.              *)
LEMMA DrawsTokens ==
  ASSUME NEW b \in Seen, NEW from, Begins(from), NEW done, NEW s, Draws(b, from, done, s),
         rules \in RuleSets, NEW items \in Seq(Unstyled)
  PROVE  Draws(b, from, done \o items, Tokens(s, items))
<1> DEFINE X == Held \cap Unstyled
           start == [s |-> s, held |-> <<>>]
           V == {v \in [s : States, held : Seq(X)] :
                   \E t \in Seq(Unstyled) : Collects(b, from, done, t, v)}
           P == {t \in Seq(Unstyled) : Collects(b, from, done, t, Collected(start, t))}
<1>1. done \in Seq(Drawn) /\ s \in States
  BY DEF Draws, Fits, Keeping
<1>2. Collects(b, from, done, <<>>, start)
  <2>1. start \in [s : States, held : Seq(X)] /\ start.s = s /\ start.held = <<>>
    BY <1>1
  <2>2. <<>> \in Seq(Drawn) /\ done \o <<>> = done /\ <<>> = <<>> \o <<>>
    BY <1>1
  <2> HIDE DEF start
  <2>3. Draws(b, from, done \o <<>>, start.s) /\ <<>> = <<>> \o start.held
    BY <2>1, <2>2
  <2> QED
    BY <2>1, <2>2, <2>3 DEF Collects
<1> HIDE DEF start
<1>3. start \in V
  <2>1. <<>> \in Seq(Unstyled) /\ start \in [s : States, held : Seq(X)]
    BY <1>2 DEF Collects
  <2> QED
    BY <1>2, <2>1
<1>4. ASSUME NEW v \in V, NEW x \in Unstyled PROVE Token(v, x) \in V
  <2>1. PICK t \in Seq(Unstyled) : Collects(b, from, done, t, v)
    OBVIOUS
  <2>2. Collects(b, from, done, Append(t, x), Token(v, x))
    BY <1>1, <2>1, CollectsItem
  <2>3. Append(t, x) \in Seq(Unstyled)
    OBVIOUS
  <2>4. Token(v, x) \in [s : States, held : Seq(Held \cap Unstyled)]
    BY <2>2 DEF Collects
  <2> QED
    BY <2>2, <2>3, <2>4
<1> HIDE DEF V
<1>5. /\ Collected(start, <<>>) = start
      /\ \A t \in Seq(Unstyled), x \in Unstyled :
           Collected(start, Append(t, x)) = Token(Collected(start, t), x)
  BY <1>3, <1>4, TokenFolds
<1>6. <<>> \in P
  BY <1>2, <1>5
<1>7. ASSUME NEW t \in Seq(Unstyled), NEW x \in Unstyled, t \in P PROVE Append(t, x) \in P
  <2> DEFINE now == Collected(start, t)
  <2>1. Collects(b, from, done, t, now)
    BY <1>7
  <2> HIDE DEF now
  <2>2. Collects(b, from, done, Append(t, x), Token(now, x))
    BY <1>1, <2>1, CollectsItem
  <2>3. Append(t, x) \in Seq(Unstyled)
    OBVIOUS
  <2> QED
    BY <1>5, <2>2, <2>3 DEF now
<1> HIDE DEF P
<1>8. items \in P
  BY <1>6, <1>7, EachSequence
<1> DEFINE end == Collected(start, items)
<1>9. Collects(b, from, done, items, end)
  BY <1>8 DEF P
<1>10. Tokens(s, items) = Prepared(end.s, end.held)
  BY DEF Tokens, Collected, start
<1> HIDE DEF end
<1>11. PICK f \in Seq(Drawn) : items = f \o end.held /\ Draws(b, from, done \o f, end.s)
  BY <1>9 DEF Collects
<1>12. end.held \in Seq(Held \cap Unstyled) /\ end.held \in Seq(Drawn)
  <2>1. end.held \in Seq(Held \cap Unstyled)
    BY <1>9 DEF Collects
  <2>2. Held \cap Unstyled \subseteq Drawn
    BY DEF Unstyled
  <2> QED
    BY <2>1, <2>2
<1> DEFINE g == end.held
<1>13. (done \o f) \o g = done \o items
  <2>1. done \in Seq(Drawn) /\ f \in Seq(Drawn) /\ g \in Seq(Drawn) /\ items = f \o g
    BY <1>1, <1>11, <1>12
  <2> HIDE DEF g
  <2>2. (done \o f) \o g = done \o (f \o g)
    BY <2>1, ConcatAssoc
  <2> QED
    BY <2>1, <2>2
<1> DEFINE d == done \o f
           e == end.s
<1>14. Draws(b, from, d, e) /\ g \in Seq(Held \cap Unstyled)
  BY <1>11, <1>12
<1>15. d \o g = done \o items /\ Tokens(s, items) = Prepared(e, g)
  BY <1>10, <1>13
<1> HIDE DEF d, e, g
<1>16. Draws(b, from, d \o g, Prepared(e, g))
  BY <1>14, DrawsPrepared, SMTT(60)
<1> QED
  BY <1>15, <1>16

(* A stream, in one or the other way. *)
LEMMA DrawsStreamed ==
  ASSUME NEW b \in Seen, NEW from, Begins(from), NEW done, NEW s, Draws(b, from, done, s),
         rules \in RuleSets, NEW items \in Seq(Unstyled)
  PROVE  Draws(b, from, done \o items, Streamed(s, items))
<1>1. CASE interactive /\ PassesCursor(s, items)
  <2>1. ~s.alternate /\ ~Enables(items) /\ Streamed(s, items) = Passthrough(s, items)
    BY <1>1 DEF PassesCursor, Streamed
  <2> QED
    BY <2>1, DrawsPassthrough
<1>2. CASE ~(interactive /\ PassesCursor(s, items))
  <2>1. Streamed(s, items) = Tokens(s, items)
    BY <1>2 DEF Streamed
  <2> QED
    BY <2>1, DrawsTokens
<1> QED
  BY <1>1, <1>2

-----------------------------------------------------------------------------
(* The lines of a read. *)

(* A line, the break of which comes last; one that has its break.            *)
IsBreak(x) == x.c \in LineBreaks
APiece ==
  {p \in Seq(Unstyled) : \A j, k \in 1 .. Len(p) : j < k /\ IsBreak(p[j]) => IsBreak(p[k])}
Whole == {p \in APiece : Len(p) > 0 /\ IsBreak(p[Len(p)])}

(* The next item of a read. *)
LineStep(items, k, v) ==
  IF EndsLine(items, k - 1)
  THEN [whole |-> Append(v.whole, v.last), last |-> <<items[k]>>]
  ELSE [v EXCEPT !.last = Append(@, items[k])]

(* The lines are made item by item. *)
LEMMA LinesFacts ==
  ASSUME NEW items \in Seq(Unstyled)
  PROVE  LET f == LinesUpTo(items)
         IN /\ f[0] = [whole |-> <<>>, last |-> <<>>]
            /\ \A k \in 1 .. Len(items) : f[k] = LineStep(items, k, f[k - 1])
<1> DEFINE N == Len(items)
           V == [whole : Seq(Seq(Unstyled)), last : Seq(Unstyled)]
           T == [k \in 1 .. N |-> [v \in V |-> LineStep(items, k, v)]]
           b == [whole |-> <<>>, last |-> <<>>]
           Way(f) == f = [n \in 0 .. N |->
                 IF n = 0 THEN [whole |-> <<>>, last |-> <<>>]
                 ELSE IF EndsLine(items, n - 1)
                 THEN [whole |-> Append(f[n - 1].whole, f[n - 1].last), last |-> <<items[n]>>]
                 ELSE [f[n - 1] EXCEPT !.last = Append(@, items[n])]]
           f == LinesUpTo(items)
<1>1. N \in Nat /\ \A k \in 1 .. N : items[k] \in Unstyled
  OBVIOUS
<1>2. ASSUME NEW k \in 1 .. N, NEW v \in V PROVE LineStep(items, k, v) \in V
  <2> DEFINE x == items[k]
  <2>2. x \in Unstyled
    BY <1>1
  <2> HIDE DEF x
  <2>3. /\ v.whole \in Seq(Seq(Unstyled)) /\ v.last \in Seq(Unstyled)
        /\ v = [whole |-> v.whole, last |-> v.last]
    OBVIOUS
  <2>4. /\ Append(v.whole, v.last) \in Seq(Seq(Unstyled)) /\ <<x>> \in Seq(Unstyled)
        /\ Append(v.last, x) \in Seq(Unstyled)
    <3>1. ASSUME NEW A, NEW B, NEW S, A \in Seq(S), B \in S PROVE Append(A, B) \in Seq(S)
      BY <3>1
    <3> QED
      BY <2>2, <2>3, <3>1
  <2>5. [v EXCEPT !.last = Append(@, x)] = [whole |-> v.whole, last |-> Append(v.last, x)]
    <3> DEFINE w == v.whole
               l == v.last
               more == Append(l, x)
    <3>1. v = [whole |-> w, last |-> l]
      BY <2>3
    <3> HIDE DEF w, l, more
    <3>2. [[whole |-> w, last |-> l] EXCEPT !.last = more] = [whole |-> w, last |-> more]
      OBVIOUS
    <3>3. [v EXCEPT !.last = more] = [whole |-> w, last |-> more]
      BY <3>1, <3>2
    <3> QED
      BY <3>3 DEF w, l, more
  <2> QED
    BY <2>3, <2>4, <2>5 DEF LineStep, x
<1>3. b \in V /\ T \in [1 .. N -> [V -> V]]
  BY <1>2
<1>4. \A k \in 1 .. N, v \in V : T[k][v] = LineStep(items, k, v)
  OBVIOUS
<1>5. PICK g : Works(V, b, T, g, N)
  <2> HIDE DEF N, V, T, b
  <2> QED
    BY <1>1, <1>3, StepByStep
<1>6. /\ g \in [0 .. N -> V] /\ g[0] = b
      /\ \A k \in 1 .. N : g[k] = LineStep(items, k, g[k - 1])
  <2> HIDE DEF b, T, V
  <2>1. g \in [0 .. N -> V] /\ g[0] = b /\ \A k \in 1 .. N : g[k] = T[k][g[k - 1]]
    BY <1>5 DEF Works
  <2>2. \A k \in 1 .. N : k - 1 \in 0 .. N
    BY <1>1
  <2> QED
    BY <1>4, <2>1, <2>2
<1>7. Way(g)
  <2> DEFINE w == [n \in 0 .. N |->
                 IF n = 0 THEN [whole |-> <<>>, last |-> <<>>]
                 ELSE IF EndsLine(items, n - 1)
                 THEN [whole |-> Append(g[n - 1].whole, g[n - 1].last), last |-> <<items[n]>>]
                 ELSE [g[n - 1] EXCEPT !.last = Append(@, items[n])]]
  <2>1. ASSUME NEW n \in 0 .. N PROVE g[n] = w[n]
    <3>1. CASE n = 0
      BY <1>6, <3>1
    <3>2. CASE n # 0
      <4>1. n \in 1 .. N
        BY <1>1, <3>2
      <4>2. g[n] = LineStep(items, n, g[n - 1])
        BY <1>6, <4>1
      <4> QED
        BY <3>2, <4>2 DEF LineStep
    <3> QED
      BY <3>1, <3>2
  <2>2. w = [n \in 0 .. N |-> w[n]] /\ g = [n \in 0 .. N |-> g[n]]
    BY <1>6
  <2> HIDE DEF w, N
  <2>3. g = w
    BY <2>1, <2>2
  <2> QED
    BY <2>3 DEF w, N
<1>8. f = CHOOSE y : Way(y)
  BY DEF LinesUpTo
<1> HIDE DEF f
<1>9. Way(f)
  <2> HIDE DEF Way
  <2> QED
    BY <1>7, <1>8
<1>10. \A n \in 0 .. N : f[n] =
         IF n = 0 THEN [whole |-> <<>>, last |-> <<>>]
         ELSE IF EndsLine(items, n - 1)
         THEN [whole |-> Append(f[n - 1].whole, f[n - 1].last), last |-> <<items[n]>>]
         ELSE [f[n - 1] EXCEPT !.last = Append(@, items[n])]
  BY <1>9, Zenon
<1>11. /\ f[0] = b
       /\ \A k \in 1 .. N : f[k] = LineStep(items, k, f[k - 1])
  <2>1. f[0] = b
    <3>1. 0 \in 0 .. N
      BY <1>1
    <3> QED
      BY <1>10, <3>1, Zenon
  <2>2. ASSUME NEW k \in 1 .. N PROVE f[k] = LineStep(items, k, f[k - 1])
    <3>1. k \in 0 .. N /\ k # 0
      BY <1>1
    <3> QED
      BY <1>10, <3>1 DEF LineStep
  <2> QED
    BY <2>1, <2>2
<1> QED
  BY <1>11 DEF f

(* The line that item n of a read is in, up to there. *)
OpenLine(items, n, q) ==
  /\ q \in Seq(Unstyled)
  /\ n > 0 => Len(q) > 0 /\ q[Len(q)] = items[n]
  /\ \A j \in 1 .. Len(q) : j < Len(q) /\ IsBreak(q[j]) => j = Len(q) - 1 /\ items[n].c = "lf"

(* Such a line is a piece, and so is one that ended. *)
LEMMA OpenIsPiece ==
  ASSUME NEW items, NEW n \in Nat, NEW q, OpenLine(items, n, q), n > 0 \/ q = <<>>
  PROVE  q \in APiece /\ (n > 0 /\ IsBreak(items[n]) => q \in Whole)
<1>1. q \in Seq(Unstyled) /\ Len(q) \in Nat
  BY DEF OpenLine
<1>2. ASSUME NEW j \in 1 .. Len(q), NEW k \in 1 .. Len(q), j < k, IsBreak(q[j])
      PROVE  IsBreak(q[k])
  <2>1. j < Len(q)
    BY <1>1, <1>2
  <2>2. j = Len(q) - 1 /\ items[n].c = "lf"
    BY <1>2, <2>1 DEF OpenLine
  <2>3. k = Len(q) /\ n > 0
    BY <1>1, <1>2, <2>2
  <2>4. q[k] = items[n]
    BY <2>3 DEF OpenLine
  <2> QED
    BY <2>2, <2>4 DEF IsBreak, LineBreaks
<1>3. q \in APiece
  BY <1>1, <1>2 DEF APiece
<1> QED
  BY <1>3 DEF OpenLine, Whole

(* The line of the next item. *)
LEMMA OpenNext ==
  ASSUME NEW items \in Seq(Unstyled), NEW n \in Nat, n < Len(items), NEW q,
         OpenLine(items, n, q), n > 0 \/ q = <<>>
  PROVE  LET x == items[n + 1]
         IN /\ x \in Unstyled
            /\ EndsLine(items, n) => n > 0 /\ q \in Whole /\ OpenLine(items, n + 1, <<x>>)
            /\ ~EndsLine(items, n) => OpenLine(items, n + 1, Append(q, x))
<1> DEFINE x == items[n + 1]
<1>1. x \in Unstyled /\ n + 1 \in DOMAIN items
  OBVIOUS
<1>2. ASSUME EndsLine(items, n)
      PROVE  n > 0 /\ q \in Whole /\ OpenLine(items, n + 1, <<x>>)
  <2>1. n \in DOMAIN items /\ IsBreak(items[n])
    BY <1>2 DEF EndsLine, Is, IsBreak, LineBreaks
  <2>2. n > 0 /\ q \in Whole
    BY <2>1, OpenIsPiece
  <2>3. OpenLine(items, n + 1, <<x>>)
    BY <1>1 DEF OpenLine
  <2> QED
    BY <2>2, <2>3
<1>3. ASSUME ~EndsLine(items, n)
      PROVE  OpenLine(items, n + 1, Append(q, x))
  <2> DEFINE t == Append(q, x)
  <2>1. /\ q \in Seq(Unstyled) /\ t \in Seq(Unstyled) /\ Len(t) = Len(q) + 1 /\ t[Len(q) + 1] = x
        /\ \A j \in 1 .. Len(q) : t[j] = q[j]
        /\ Len(q) \in Nat
    BY <1>1 DEF OpenLine
  <2> HIDE DEF t
  <2>2. ASSUME NEW j \in 1 .. Len(t), j < Len(t), IsBreak(t[j])
        PROVE  j = Len(t) - 1 /\ items[n + 1].c = "lf"
    <3>1. j \in 1 .. Len(q) /\ t[j] = q[j] /\ q # <<>>
      BY <2>1, <2>2
    <3>2. n > 0 /\ n \in DOMAIN items /\ q[Len(q)] = items[n]
      BY <3>1 DEF OpenLine
    <3>3. items[n].c # "lf" /\ (items[n].c = "cr" => items[n + 1].c = "lf")
      BY <1>3, <3>2 DEF EndsLine, Is
    <3>4. j = Len(q)
      BY <2>1, <2>2, <3>1, <3>3 DEF OpenLine
    <3>5. items[n].c = "cr"
      BY <2>2, <3>1, <3>2, <3>3, <3>4 DEF IsBreak, LineBreaks
    <3> QED
      BY <2>1, <3>3, <3>4, <3>5
  <2>3. n + 1 > 0 => Len(t) > 0 /\ t[Len(t)] = items[n + 1]
    BY <2>1
  <2> QED
    BY <2>1, <2>2, <2>3 DEF OpenLine, t
<1> QED
  BY <1>1, <1>2, <1>3

(* What holds of no lines, and goes on to hold with each whole one, holds of   *)
(* those of a read before the last.                                          *)
LEMMA PiecesInduct ==
  ASSUME NEW items \in Seq(Unstyled), NEW S, <<(<<>>), (<<>>)>> \in S,
         \A w \in Seq(APiece), d \in Seq(Unstyled), p \in Whole :
           <<w, d>> \in S => <<Append(w, p), d \o p>> \in S
  PROVE  \E w \in Seq(APiece), d \in Seq(Unstyled), p \in APiece :
           <<w, d>> \in S /\ Pieces(items) = Append(w, p) /\ items = d \o p
<1> DEFINE f == LinesUpTo(items)
           N == Len(items)
           Reaches(n) ==
             \E d \in Seq(Unstyled) :
               /\ f[n].whole \in Seq(APiece) /\ <<f[n].whole, d>> \in S
               /\ SubSeq(items, 1, n) = d \o f[n].last
               /\ OpenLine(items, n, f[n].last) /\ (n > 0 \/ f[n].last = <<>>)
           T == {n \in 0 .. N : Reaches(n)}
<1>1. N \in Nat /\ 0 \in 0 .. N
  OBVIOUS
<1>2. /\ f[0] = [whole |-> <<>>, last |-> <<>>]
      /\ \A k \in 1 .. N : f[k] = LineStep(items, k, f[k - 1])
  BY LinesFacts, Zenon
<1> HIDE DEF f
<1>3. 0 \in T
  <2>1. f[0].whole = <<>> /\ f[0].last = <<>>
    BY <1>2
  <2>2. SubSeq(items, 1, 0) = <<>> /\ <<>> = <<>> \o <<>>
    OBVIOUS
  <2>3. OpenLine(items, 0, <<>>)
    BY DEF OpenLine
  <2>4. <<>> \in Seq(APiece) /\ <<>> \in Seq(Unstyled)
    OBVIOUS
  <2>5. Reaches(0)
    BY <2>1, <2>2, <2>3, <2>4
  <2> QED
    BY <1>1, <2>5
<1>4. ASSUME NEW n \in 0 .. N, n < N, n \in T PROVE n + 1 \in T
  <2> DEFINE q == f[n].last
             w == f[n].whole
             x == items[n + 1]
             m == n + 1
  <2>1. PICK d \in Seq(Unstyled) :
          /\ w \in Seq(APiece) /\ <<w, d>> \in S /\ SubSeq(items, 1, n) = d \o q
          /\ OpenLine(items, n, q) /\ (n > 0 \/ q = <<>>)
    BY <1>4
  <2>2. m \in 1 .. N /\ m - 1 = n /\ m \in 0 .. N /\ m > 0 /\ n \in Nat
    BY <1>1, <1>4
  <2>3. f[m] = LineStep(items, m, f[n])
    BY <1>2, <2>2
  <2>4. SubSeq(items, 1, m) = Append(SubSeq(items, 1, n), x)
    BY <1>4, <2>2
  <2>5. q \in Seq(Unstyled) /\ x \in Unstyled /\ q \in APiece
    BY <1>4, <2>1, <2>2, OpenIsPiece DEF OpenLine
  <2>6. CASE EndsLine(items, n)
    <3>1. q \in Whole /\ OpenLine(items, m, <<x>>)
      BY <1>4, <2>1, <2>2, <2>6, OpenNext
    <3>2. f[m] = [whole |-> Append(w, q), last |-> <<x>>]
      BY <2>2, <2>3, <2>6 DEF LineStep
    <3>3. f[m].whole = Append(w, q) /\ f[m].last = <<x>>
      BY <3>2
    <3>4. Append(w, q) \in Seq(APiece) /\ <<Append(w, q), d \o q>> \in S /\ d \o q \in Seq(Unstyled)
      <4>0. SubSeq(items, 1, n) = d \o q
        BY <2>1
      <4> HIDE DEF q, w
      <4>1. <<Append(w, q), d \o q>> \in S
        BY <2>1, <3>1
      <4>2. Append(w, q) \in Seq(APiece)
        BY <2>1, <2>5
      <4>3. d \o q \in Seq(Unstyled)
        BY <2>5
      <4> QED
        BY <4>1, <4>2, <4>3
    <3>5. SubSeq(items, 1, m) = (d \o q) \o <<x>>
      <4> DEFINE y == d \o q
      <4>1. y \in Seq(Unstyled) /\ SubSeq(items, 1, m) = Append(y, x)
        BY <2>1, <2>4, <3>4
      <4> HIDE DEF y, x
      <4>2. Append(y, x) = y \o <<x>>
        BY <2>5, <4>1, AppendIsConcat
      <4> QED
        BY <4>1, <4>2 DEF y
    <3> HIDE DEF q, w, x, m
    <3>6. Reaches(m)
      BY <2>2, <3>1, <3>3, <3>4, <3>5
    <3> QED
      BY <2>2, <3>6 DEF m
  <2>7. CASE ~EndsLine(items, n)
    <3> DEFINE t == Append(q, x)
    <3>1. OpenLine(items, m, t)
      BY <1>4, <2>1, <2>2, <2>7, OpenNext
    <3>2. f[m] = [f[n] EXCEPT !.last = Append(@, x)]
      BY <2>2, <2>3, <2>7 DEF LineStep
    <3>3. f[m].whole = w /\ f[m].last = t
      BY <3>2
    <3>5. SubSeq(items, 1, m) = d \o t
      <4>1. SubSeq(items, 1, m) = Append(d \o q, x)
        BY <2>1, <2>4
      <4> HIDE DEF q, x
      <4>2. d \o Append(q, x) = Append(d \o q, x)
        BY <2>5, ConcatAppend
      <4> QED
        BY <4>1, <4>2
    <3> HIDE DEF q, w, x, m, t
    <3>6. Reaches(m)
      BY <2>1, <2>2, <3>1, <3>3, <3>5
    <3> QED
      BY <2>2, <3>6 DEF m
  <2> QED
    BY <2>6, <2>7
<1> HIDE DEF T
<1>5. N \in T
  <2> HIDE DEF N
  <2>1. 0 .. N \subseteq T
    BY <1>1, <1>3, <1>4, CountingUp
  <2> QED
    BY <1>1, <2>1
<1>6. PICK d \in Seq(Unstyled) :
        /\ f[N].whole \in Seq(APiece) /\ <<f[N].whole, d>> \in S
        /\ SubSeq(items, 1, N) = d \o f[N].last
        /\ OpenLine(items, N, f[N].last) /\ (N > 0 \/ f[N].last = <<>>)
  BY <1>5 DEF T
<1>7. f[N].last \in APiece
  BY <1>1, <1>6, OpenIsPiece
<1>8. SubSeq(items, 1, N) = items
  OBVIOUS
<1>9. Pieces(items) = Append(f[N].whole, f[N].last)
  BY DEF Pieces, f
<1> QED
  BY <1>6, <1>7, <1>8, <1>9

BreakItems == {x \in Unstyled : IsBreak(x)}

(* A break, written as it is. *)
LEMMA FitsBreak ==
  ASSUME NEW b \in Seen, NEW from, Begins(from), NEW done, NEW out, NEW n, NEW style,
         NEW alternate, Fits(b, from, done, out, n, style, alternate), ~PaintsBlanks(style),
         NEW break \in Seq(BreakItems)
  PROVE  Fits(b, from, done \o break, out \o break, n, style, alternate)
<1> DEFINE P == {t \in Seq(BreakItems) :
                   Fits(b, from, done \o t, out \o t, n, style, alternate)}
<1>1. out \in Seq(Written) /\ done \in Seq(Drawn)
  BY DEF Fits, Keeping, Showing
<1>2. BreakItems \subseteq Drawn /\ Drawn \subseteq Written
  BY DrawnConcat DEF Unstyled, BreakItems
<1>3. <<>> \in P
  <2>1. done \o <<>> = done /\ out \o <<>> = out /\ <<>> \in Seq(BreakItems)
    BY <1>1
  <2> QED
    BY <2>1
<1>4. ASSUME NEW t \in Seq(BreakItems), NEW x \in BreakItems, t \in P PROVE Append(t, x) \in P
  <2> DEFINE d == done \o t
             o == out \o t
  <2>1. Fits(b, from, d, o, n, style, alternate)
    BY <1>4
  <2>2. x \in Drawn /\ IsText(x) /\ Suits(x, style)
    BY DEF BreakItems, IsBreak, LineBreaks, IsText, TextClasses, Suits, Unstyled, Fills
  <2>3. t \in Seq(Drawn) /\ t \in Seq(Written) /\ x \in Written
    BY <1>2
  <2>4. done \o Append(t, x) = Append(d, x) /\ out \o Append(t, x) = Append(o, x)
    BY <1>1, <2>2, <2>3, ConcatAppend
  <2> HIDE DEF d, o
  <2>5. Fits(b, from, Append(d, x), Append(o, x), n, style, alternate)
    BY <2>1, <2>2, FitsText, SMTT(60)
  <2>6. Append(t, x) \in Seq(BreakItems)
    OBVIOUS
  <2> QED
    BY <2>4, <2>5, <2>6
<1> HIDE DEF P
<1>5. break \in P
  BY <1>3, <1>4, EachSequence
<1> QED
  BY <1>5 DEF P

(* After a highlight that shows on blank cells was ended.                  *)
LEMMA DrawsBroken ==
  ASSUME NEW b \in Seen, NEW from, Begins(from), NEW done, NEW s, Draws(b, from, done, s),
         NEW break \in Seq(BreakItems)
  PROVE  Draws(b, from, done \o break, Broken(s, break))
<1>1. CASE break = <<>>
  BY <1>1 DEF Broken, Draws, Fits, Keeping
<1>2. CASE break # <<>>
  <2> DEFINE v == BeforeBreak(s)
             o == v.out \o break
             more == done \o break
  <2>1. Draws(b, from, done, v) /\ ~PaintsBlanks(v.overlay)
    <3>1. CASE PaintsBlanks(s.overlay)
      <4> DEFINE u == CloseOverlay(s)
      <4>2. v = u /\ Closed(b, from, done, s, u)
        BY <3>1, ClosesDraws DEF BeforeBreak
      <4> HIDE DEF u, v
      <4>1. Draws(b, from, done, u) /\ u.overlay = {}
        BY <4>2 DEF Closed
      <4> QED
        BY <4>1, <4>2 DEF PaintsBlanks
    <3>2. CASE ~PaintsBlanks(s.overlay)
      BY <3>2 DEF BeforeBreak
    <3> QED
      BY <3>1, <3>2
  <2>2. Broken(s, break) = [v EXCEPT !.out = o]
    BY <1>2 DEF Broken, Write
  <2> HIDE DEF v
  <2>3. v \in States /\ Fits(b, from, done, v.out, v.native, v.overlay, v.alternate)
    BY <2>1 DEF Draws
  <2>4. Fits(b, from, more, o, v.native, v.overlay, v.alternate)
    <3> DEFINE y == v.out
               n == v.native
               style == v.overlay
               a == v.alternate
    <3>1. Fits(b, from, done, y, n, style, a) /\ ~PaintsBlanks(style)
      BY <2>1, <2>3
    <3> HIDE DEF y, n, style, a
    <3>2. Fits(b, from, done \o break, y \o break, n, style, a)
      BY <3>1, FitsBreak, SMTT(60)
    <3> QED
      BY <3>2 DEF y, n, style, a
  <2>5. Broken(s, break) = Redrawn(v, o, v.native, v.overlay)
    BY <2>2, <2>3 DEF Redrawn, States
  <2>6. Enables(more) => Enables(done) \/ ~v.rewritten
    <3>1. done \in Seq(Written) /\ break \in Seq(Written) /\ break \in Seq(Held)
      <4>1. BreakItems \subseteq Held
        BY DEF BreakItems, Held, Unstyled, IsBreak, LineBreaks, ToAlternate
      <4>2. done \in Seq(Drawn)
        BY <2>3 DEF Fits, Keeping
      <4>3. Held \subseteq Written /\ Drawn \subseteq Written
        BY DrawnConcat
      <4> QED
        BY <4>1, <4>2, <4>3
    <3>2. ~Enables(break)
      BY <3>1, HeldStays
    <3> QED
      BY <3>1, <3>2, EnablesConcat
  <2> HIDE DEF o, more
  <2>7. v.overlay # {} => interactive
    BY <2>1 DEF Draws
  <2> DEFINE n == v.native
             style == v.overlay
  <2>8. /\ Draws(b, from, done, v) /\ Fits(b, from, more, o, n, style, v.alternate)
        /\ (style # {} => interactive)
    BY <2>1, <2>4, <2>7
  <2>9. Broken(s, break) = Redrawn(v, o, n, style)
    BY <2>5
  <2> HIDE DEF n, style
  <2>10. Draws(b, from, more, Redrawn(v, o, n, style))
    BY <2>6, <2>8, DrawsMore, SMTT(60)
  <2> QED
    BY <2>9, <2>10 DEF more
<1> QED
  BY <1>1, <1>2

(* A sequence is what comes up to a position and what comes after it. *)
LEMMA CutInTwo ==
  ASSUME NEW S, NEW s \in Seq(S), NEW n \in 0 .. Len(s)
  PROVE  /\ SubSeq(s, 1, n) \in Seq(S) /\ SubSeq(s, n + 1, Len(s)) \in Seq(S)
         /\ s = SubSeq(s, 1, n) \o SubSeq(s, n + 1, Len(s))
<1>1. Len(s) \in Nat
  OBVIOUS
<1>2. 1 \in 1 .. Len(s) + 1 /\ n \in (1 - 1) .. Len(s) /\ Len(s) \in n .. Len(s)
  BY <1>1
<1>3. SubSeq(s, 1, n) \o SubSeq(s, n + 1, Len(s)) = SubSeq(s, 1, Len(s))
  BY <1>2, ConcatAdjacentSubSeq
<1>4. SubSeq(s, 1, Len(s)) = s
  BY SubSeqFull
<1>5. SubSeq(s, 1, n) \in Seq(S) /\ SubSeq(s, n + 1, Len(s)) \in Seq(S)
  OBVIOUS
<1> QED
  BY <1>3, <1>4, <1>5

(* A line, and its break. *)
LEMMA PieceParts ==
  ASSUME NEW p \in APiece
  PROVE  LET text == Min({Len(p) + 1} \cup Breaks(p)) - 1
         IN /\ text \in 0 .. Len(p)
            /\ SubSeq(p, 1, text) \in Seq(Unstyled)
            /\ SubSeq(p, text + 1, Len(p)) \in Seq(BreakItems)
            /\ p = SubSeq(p, 1, text) \o SubSeq(p, text + 1, Len(p))
<1> DEFINE S == {Len(p) + 1} \cup Breaks(p)
           m == Min(S)
           t == m - 1
           B == SubSeq(p, m, Len(p))
<1>1. p \in Seq(Unstyled) /\ Len(p) \in Nat /\ DOMAIN p = 1 .. Len(p)
  BY DEF APiece
<1>2. S \in SUBSET Nat /\ S # {} /\ \A n \in S : n \in 1 .. Len(p) + 1
  BY <1>1 DEF Breaks
<1>3. m \in S /\ m \in 1 .. Len(p) + 1 /\ (m # Len(p) + 1 => m \in Breaks(p))
  <2> HIDE DEF S
  <2>1. m \in S
    BY <1>2, MinFacts
  <2> QED
    BY <1>2, <2>1 DEF S
<1> HIDE DEF m
<1>4. t \in 0 .. Len(p) /\ t + 1 = m
  BY <1>1, <1>3
<1>5. ASSUME NEW k \in m .. Len(p) PROVE p[k] \in BreakItems
  <2>1. k \in 1 .. Len(p) /\ m \in Breaks(p) /\ m \in 1 .. Len(p)
    BY <1>1, <1>3
  <2>2. IsBreak(p[m])
    BY <2>1 DEF Breaks, IsBreak
  <2>3. IsBreak(p[k])
    BY <2>1, <2>2 DEF APiece
  <2>4. p[k] \in Unstyled
    BY <1>1, <2>1
  <2> QED
    BY <2>3, <2>4 DEF BreakItems
<1>6. B \in Seq(BreakItems)
  <2>1. m \in Int /\ Len(p) \in Int
    BY <1>1, <1>3
  <2> QED
    BY <1>5, <2>1, SubSeqProperties
<1>7. SubSeq(p, 1, t) \in Seq(Unstyled) /\ p = SubSeq(p, 1, t) \o SubSeq(p, t + 1, Len(p))
  BY <1>1, <1>4, CutInTwo
<1> QED
  BY <1>4, <1>6, <1>7 DEF m

(* A line in an interactive session. *)
LEMMA DrawsSegment ==
  ASSUME NEW b \in Seen, NEW from, Begins(from), NEW done, NEW s, Draws(b, from, done, s),
         rules \in RuleSets, NEW p \in APiece
  PROVE  Draws(b, from, done \o p, Segment(s, p))
<1> DEFINE text == Min({Len(p) + 1} \cup Breaks(p)) - 1
           t == SubSeq(p, 1, text)
           u == SubSeq(p, text + 1, Len(p))
           v == Streamed(s, t)
<1>1. t \in Seq(Unstyled) /\ u \in Seq(BreakItems) /\ p = t \o u
  BY PieceParts, Zenon
<1>2. Segment(s, p) = Broken(v, u)
  BY DEF Segment
<1> HIDE DEF t, u, v
<1>3. Draws(b, from, done \o t, v)
  BY <1>1, DrawsStreamed DEF v
<1>4. Draws(b, from, (done \o t) \o u, Broken(v, u))
  <2> DEFINE d == done \o t
  <2>1. Draws(b, from, d, v)
    BY <1>3
  <2> HIDE DEF d
  <2>2. Draws(b, from, d \o u, Broken(v, u))
    BY <1>1, <2>1, DrawsBroken
  <2> QED
    BY <2>2 DEF d
<1>5. (done \o t) \o u = done \o p
  <2>1. done \in Seq(Drawn)
    BY DEF Draws, Fits, Keeping
  <2>2. Unstyled \subseteq Drawn /\ BreakItems \subseteq Drawn
    BY DEF Unstyled, BreakItems
  <2>3. t \in Seq(Drawn) /\ u \in Seq(Drawn)
    BY <1>1, <2>2
  <2>4. (done \o t) \o u = done \o (t \o u)
    BY <2>1, <2>3, ConcatAssociative
  <2> QED
    BY <1>1, <2>4
<1> QED
  BY <1>2, <1>4, <1>5

(* The states in which a call has drawn something. *)
DrawnStates(b, from) == {v \in States : \E d \in Seq(Drawn) : Draws(b, from, d, v)}

(* Lines are written one after the other.                                  *)
LEMMA SegmentedFacts ==
  ASSUME NEW V, NEW s, s \in V /\ \A v \in V, p \in APiece : Segment(v, p) \in V
  PROVE  /\ Segmented(s, <<>>) = s
         /\ \A w \in Seq(APiece) : Segmented(s, w) \in V
         /\ \A w \in Seq(APiece), p \in APiece :
              Segmented(s, Append(w, p)) = Segment(Segmented(s, w), p)
BY SegmentFolds

(* From a state in which something was drawn.                              *)
LEMMA SegmentedIs ==
  ASSUME NEW b \in Seen, NEW from, Begins(from), NEW s \in DrawnStates(b, from),
         rules \in RuleSets
  PROVE  /\ Segmented(s, <<>>) = s
         /\ \A w \in Seq(APiece), p \in APiece :
              Segmented(s, Append(w, p)) = Segment(Segmented(s, w), p)
<1> DEFINE V == DrawnStates(b, from)
<1>1. ASSUME NEW v \in V, NEW p \in APiece PROVE Segment(v, p) \in V
  <2>1. PICK d \in Seq(Drawn) : Draws(b, from, d, v)
    BY DEF DrawnStates
  <2> DEFINE u == Segment(v, p)
  <2>2. Draws(b, from, d \o p, u)
    BY <2>1, DrawsSegment
  <2> HIDE DEF u
  <2>3. u \in States /\ d \o p \in Seq(Drawn)
    BY <2>2 DEF Draws, Fits, Keeping
  <2> QED
    BY <2>2, <2>3 DEF u, DrawnStates
<1>2. s \in V
  OBVIOUS
<1> HIDE DEF V
<1>3. s \in V /\ \A v \in V, p \in APiece : Segment(v, p) \in V
  BY <1>1, <1>2
<1>4. /\ Segmented(s, <<>>) = s
      /\ \A w \in Seq(APiece) : Segmented(s, w) \in V
      /\ \A w \in Seq(APiece), p \in APiece :
           Segmented(s, Append(w, p)) = Segment(Segmented(s, w), p)
  BY <1>3, SegmentedFacts
<1> QED
  BY <1>4

(* And all of them. *)
LEMMA DrawsSegmented ==
  ASSUME NEW b \in Seen, NEW from, Begins(from), NEW done, NEW s, Draws(b, from, done, s),
         rules \in RuleSets, NEW items \in Seq(Unstyled)
  PROVE  Draws(b, from, done \o items, Segmented(s, Pieces(items)))
<1> DEFINE S == {<<w, d>> : w \in Seq(APiece), d \in Seq(Unstyled)}
           Fine(w, d) == Draws(b, from, done \o d, Segmented(s, w))
           R == {e \in S : Fine(e[1], e[2])}
<1>1. done \in Seq(Drawn) /\ s \in States /\ Unstyled \subseteq Drawn
  BY DEF Draws, Fits, Keeping, Unstyled
<1>2. s \in DrawnStates(b, from)
  BY <1>1 DEF DrawnStates
<1> HIDE DEF S, Fine, R
<1>4. /\ Segmented(s, <<>>) = s
      /\ \A w \in Seq(APiece), p \in APiece :
           Segmented(s, Append(w, p)) = Segment(Segmented(s, w), p)
  BY <1>2, SegmentedIs
<1>11. ASSUME NEW w \in Seq(APiece), NEW d \in Seq(Unstyled)
       PROVE  <<w, d>> \in R <=> Fine(w, d)
  <2>1. <<w, d>> \in S /\ <<w, d>>[1] = w /\ <<w, d>>[2] = d
    BY DEF S
  <2> QED
    BY <2>1 DEF R
<1>5. <<(<<>>), (<<>>)>> \in R
  <2>1. done \o <<>> = done /\ <<>> \in Seq(APiece) /\ <<>> \in Seq(Unstyled)
    BY <1>1
  <2>2. Fine(<<>>, <<>>)
    BY <1>4, <2>1 DEF Fine
  <2> QED
    BY <1>11, <2>1, <2>2
<1>6. ASSUME NEW w \in Seq(APiece), NEW d \in Seq(Unstyled), NEW p \in APiece, Fine(w, d)
      PROVE  Fine(Append(w, p), d \o p)
  <2> DEFINE v == Segmented(s, w)
             m == done \o d
  <2>1. Draws(b, from, m, v)
    BY <1>6 DEF Fine
  <2>2. Segmented(s, Append(w, p)) = Segment(v, p)
    BY <1>4
  <2>3. m \o p = done \o (d \o p)
    <3>1. done \in Seq(Drawn) /\ p \in Seq(Drawn) /\ d \in Seq(Drawn)
      BY <1>1 DEF APiece
    <3>2. (done \o d) \o p = done \o (d \o p)
      BY <3>1, ConcatAssociative
    <3> QED
      BY <3>2
  <2> HIDE DEF v, m
  <2>4. Draws(b, from, m \o p, Segment(v, p))
    BY <2>1, DrawsSegment
  <2> QED
    BY <2>2, <2>3, <2>4 DEF Fine
<1>7. ASSUME NEW w \in Seq(APiece), NEW d \in Seq(Unstyled), NEW p \in Whole, <<w, d>> \in R
      PROVE  <<Append(w, p), d \o p>> \in R
  <2>1. p \in APiece /\ p \in Seq(Unstyled)
    BY DEF APiece, Whole
  <2>2. Fine(w, d)
    BY <1>7, <1>11
  <2>3. Fine(Append(w, p), d \o p)
    BY <1>6, <2>1, <2>2
  <2>4. Append(w, p) \in Seq(APiece) /\ d \o p \in Seq(Unstyled)
    BY <2>1
  <2> QED
    BY <1>11, <2>3, <2>4
<1>8. PICK w \in Seq(APiece), d \in Seq(Unstyled), p \in APiece :
        <<w, d>> \in R /\ Pieces(items) = Append(w, p) /\ items = d \o p
  BY <1>5, <1>7, PiecesInduct
<1>9. Fine(w, d)
  BY <1>8, <1>11
<1>10. Fine(Append(w, p), d \o p)
  BY <1>6, <1>9
<1> QED
  BY <1>8, <1>10 DEF Fine

(* What is not held back, drawn. *)
LEMMA DrawsHighlighted ==
  ASSUME NEW b \in Seen, NEW from, Begins(from), NEW done, NEW s, Draws(b, from, done, s),
         rules \in RuleSets, NEW items \in Seq(Unstyled)
  PROVE  Draws(b, from, done \o items, Highlighted(s, items))
<1>1. \/ Highlighted(s, items) = Segmented(s, Pieces(items))
      \/ Highlighted(s, items) = Streamed(s, items)
  BY DEF Highlighted, Segmented
<1> QED
  BY <1>1, DrawsSegmented, DrawsStreamed

-----------------------------------------------------------------------------
(* Following what was drawn. *)

(* A mark of an edit that was there stays, where one that was not comes.      *)
LEMMA MarkMore ==
  ASSUME NEW r \in BOOLEAN, NEW q \in BOOLEAN, r => q, NEW items \in Seq(Written)
  PROVE  Marked(r, items) => Marked(q, items)
<1> DEFINE P == {t \in Seq(Written) : Marked(r, t) => Marked(q, t)}
<1>1. /\ Marked(r, <<>>) = r /\ Marked(q, <<>>) = q
      /\ \A s \in Seq(Written) : Marked(r, s) \in BOOLEAN /\ Marked(q, s) \in BOOLEAN
      /\ \A s \in Seq(Written), x \in Written :
           /\ Marked(r, Append(s, x)) = Rewrites(Marked(r, s), x)
           /\ Marked(q, Append(s, x)) = Rewrites(Marked(q, s), x)
  BY MarkFacts
<1>2. <<>> \in P
  BY <1>1
<1>3. ASSUME NEW t \in Seq(Written), NEW x \in Written, t \in P PROVE Append(t, x) \in P
  <2> DEFINE m == Marked(r, t)
             n == Marked(q, t)
  <2>1. m \in BOOLEAN /\ n \in BOOLEAN /\ (m => n)
    BY <1>1, <1>3
  <2>2. Append(t, x) \in Seq(Written)
    OBVIOUS
  <2>3. Marked(r, Append(t, x)) = Rewrites(m, x) /\ Marked(q, Append(t, x)) = Rewrites(n, x)
    BY <1>1
  <2> HIDE DEF m, n
  <2>4. Rewrites(m, x) => Rewrites(n, x)
    BY <2>1, RewritesIs
  <2> QED
    BY <2>2, <2>3, <2>4
<1> HIDE DEF P
<1>4. items \in P
  BY <1>2, <1>3, EachSequence
<1> QED
  BY <1>4 DEF P

(* Words are no edits. *)
LEMMA MarkWords ==
  ASSUME NEW r \in BOOLEAN, NEW items \in Seq(WordItems)
  PROVE  Marked(r, items) = r
<1> DEFINE P == {t \in Seq(WordItems) : Marked(r, t) = r}
<1>1. WordItems \subseteq Written /\ \A x \in WordItems : x.c \in Words
  <2>1. ASSUME NEW c \in Words PROVE Item(c) \in Reading /\ Item(c).c = c
    BY DEF Reading, TextClasses, Item
  <2> QED
    BY <2>1, ReadingItems, DrawnConcat DEF WordItems
<1>2. <<>> \in P
  BY MarkFacts
<1>3. ASSUME NEW t \in Seq(WordItems), NEW x \in WordItems, t \in P PROVE Append(t, x) \in P
  <2>1. t \in Seq(Written) /\ x \in Written /\ x.c \in Words
    BY <1>1
  <2>2. Marked(r, Append(t, x)) = Rewrites(r, x)
    BY <1>3, <2>1, MarkFacts
  <2>3. x.c \notin InPlaceEdits \cup {"bs", "cr", "lf"}
    BY <2>1 DEF Words, InPlaceEdits
  <2>4. Append(t, x) \in Seq(WordItems)
    OBVIOUS
  <2> QED
    BY <2>2, <2>3, <2>4, RewritesIs
<1> HIDE DEF P
<1>4. items \in P
  BY <1>2, <1>3, EachSequence
<1> QED
  BY <1>4 DEF P

(* A state with another line and echo. *)
Alike(s, v) ==
  /\ v \in States /\ v.pending = s.pending /\ v.remainder = s.remainder /\ v.split = s.split
  /\ v.rewritten = s.rewritten /\ v.alternate = s.alternate
  /\ v.native = s.native /\ v.overlay = s.overlay /\ v.disabled = s.disabled
  /\ v.out = s.out /\ v.errors = s.errors

OnLine(v, line, echo) == [v EXCEPT !.tail = line, !.echoing = echo]

(* It stays one on another line.                                           *)
LEMMA AlikeIs ==
  ASSUME NEW s, NEW u, Alike(s, u), NEW line \in Line, NEW echo \in BOOLEAN
  PROVE  Alike(s, OnLine(u, line, echo))
BY DEF Alike, States, OnLine

(* A state is on the line it is on. *)
LEMMA OnLineIs ==
  ASSUME NEW v \in States
  PROVE  /\ \A line : [v EXCEPT !.tail = line] = OnLine(v, line, v.echoing)
         /\ \A echo : [v EXCEPT !.echoing = echo] = OnLine(v, v.tail, echo)
         /\ v.tail \in Line /\ v.echoing \in BOOLEAN
BY DEF States, OnLine

(* What follows the line, follows no more than it. *)
LEMMA FollowedIs ==
  ASSUME NEW s \in States, NEW items \in Seq(Written)
  PROVE  Alike(s, Followed(s, items))
<1> DEFINE V == {v \in States : Alike(s, v)}
<1>1. s \in V
  BY DEF Alike
<1>2. ASSUME NEW v \in V, NEW x \in Written PROVE FollowByte(v, x) \in V
  <2>1. Alike(s, v) /\ v \in States /\ v.tail \in Line /\ v.echoing \in BOOLEAN
    BY DEF States
  <2>2. NoLine \in Line /\ Extend(v.tail, x) \in Line
    BY <2>1, ExtendType DEF NoLine, Line
  <2>4. Alike(s, FollowByte(v, x))
    <3>1. CASE x.c = "cr"
      <4> DEFINE e == v.echoing /\ ~v.tail.echo
      <4>3. FollowByte(v, x) = [v EXCEPT !.tail = NoLine, !.echoing = e]
        BY <3>1 DEF FollowByte, LineBreaks
      <4>1. FollowByte(v, x) = OnLine(v, NoLine, e)
        BY <4>3 DEF OnLine
      <4>2. e \in BOOLEAN
        OBVIOUS
      <4> HIDE DEF e
      <4> QED
        BY <2>1, <2>2, <4>1, <4>2, AlikeIs
    <3>2. CASE x.c = "lf"
      <4>2. FollowByte(v, x) = [v EXCEPT !.tail = NoLine, !.echoing = FALSE]
        BY <3>2 DEF FollowByte, LineBreaks
      <4>1. FollowByte(v, x) = OnLine(v, NoLine, FALSE)
        BY <4>2 DEF OnLine
      <4> QED
        BY <2>1, <2>2, <4>1, AlikeIs
    <3>3. CASE x.c # "cr" /\ x.c # "lf" /\ IsText(x) /\ x.c \notin LineBreaks
      <4> DEFINE line == Extend(v.tail, x)
      <4>1. FollowByte(v, x) = [v EXCEPT !.tail = line]
        BY <3>3 DEF FollowByte, LineBreaks
      <4>2. line \in Line
        BY <2>2
      <4> HIDE DEF line
      <4>3. FollowByte(v, x) = OnLine(v, line, v.echoing)
        BY <2>1, <4>1, <4>2, OnLineIs
      <4> QED
        BY <2>1, <4>2, <4>3, AlikeIs
    <3>4. CASE x.c # "cr" /\ x.c # "lf" /\ ~(IsText(x) /\ x.c \notin LineBreaks)
      BY <2>1, <3>4 DEF FollowByte, LineBreaks
    <3> QED
      BY <3>1, <3>2, <3>3, <3>4
  <2> QED
    BY <2>4 DEF Alike
<1> HIDE DEF V
<1>3. s \in V /\ \A v \in V, x \in Written : FollowByte(v, x) \in V
  BY <1>1, <1>2
<1>4. /\ Followed(s, <<>>) = s
      /\ \A t \in Seq(Written) : Followed(s, t) \in V
      /\ \A t \in Seq(Written), x \in Written :
           Followed(s, Append(t, x)) = FollowByte(Followed(s, t), x)
  BY <1>3, FollowByteFolds
<1> QED
  BY <1>4 DEF V

(* What is read into the state that a read is drawn in. *)
LEMMA ObserveIs ==
  ASSUME interactive \in BOOLEAN, NEW s \in States, NEW items \in Seq(Written)
  PROVE  LET v == Observe(s, items)
         IN \E r \in BOOLEAN :
              /\ Alike([s EXCEPT !.rewritten = r], v) /\ v.rewritten = r
              /\ r = IF interactive THEN Marked(s.rewritten, items) ELSE s.rewritten
<1> DEFINE v == Observe(s, items)
<1>1. CASE ~interactive
  <2>1. v = s
    BY <1>1 DEF Observe
  <2>2. s.rewritten \in BOOLEAN /\ [s EXCEPT !.rewritten = s.rewritten] = s
    BY DEF States
  <2> HIDE DEF v
  <2>3. Alike(s, v)
    BY <2>1 DEF Alike
  <2> QED
    BY <1>1, <2>1, <2>2, <2>3 DEF v
<1>2. CASE interactive
  <2> DEFINE pasted == \E i \in DOMAIN items : items[i].c = "?2004l"
             r == Marked(s.rewritten, items)
             e == s.echoing /\ ~pasted
             t == [s EXCEPT !.rewritten = r]
             seen == [t EXCEPT !.echoing = e]
             u == Followed(seen, items)
             f == u.echoing \/ RedrawsEcho(items) \/ IsPrompt(u.tail)
  <2>1. r \in BOOLEAN
    BY MarkFacts DEF States
  <2>2. v = seen \/ v = [u EXCEPT !.echoing = f]
    <3>1. seen = [s EXCEPT !.rewritten = InTurn(Rewrites, s.rewritten, items),
                           !.echoing = s.echoing /\ ~pasted]
      BY DEF Marked, States
    <3> QED
      BY <1>2, <3>1 DEF Observe, AtPrompt, Followed
  <2>3. e \in BOOLEAN /\ f \in BOOLEAN
    OBVIOUS
  <2> HIDE DEF r, e, f, v, u
  <2>4. t \in States /\ t.rewritten = r /\ Alike(t, t) /\ seen \in States
    BY <2>1, <2>3 DEF States, Alike
  <2>5. Alike(t, seen)
    BY <2>1, <2>3 DEF States, Alike
  <2> HIDE DEF t, seen
  <2>6. Alike(seen, u)
    BY <2>4, FollowedIs DEF u
  <2>7. Alike(t, u)
    BY <2>5, <2>6 DEF Alike
  <2>8. Alike(t, [u EXCEPT !.echoing = f])
    <3>1. u \in States
      BY <2>7 DEF Alike
    <3>2. [u EXCEPT !.echoing = f] = OnLine(u, u.tail, f) /\ u.tail \in Line
      BY <2>3, <3>1, OnLineIs
    <3> QED
      BY <2>3, <2>7, <3>2, AlikeIs
  <2>9. Alike(t, v) /\ v.rewritten = r
    <3>1. Alike(t, v)
      BY <2>2, <2>5, <2>8
    <3> QED
      BY <2>4, <3>1 DEF Alike
  <2> QED
    BY <1>2, <2>1, <2>9 DEF v, t, r
<1> QED
  BY <1>1, <1>2

(* What following a line leaves, and what it marks. *)
Watched(s, items, v) ==
  /\ v \in States /\ v.pending = s.pending
  /\ v.alternate = s.alternate /\ v.native = s.native /\ v.overlay = s.overlay
  /\ v.disabled = s.disabled /\ v.out = s.out /\ v.errors = s.errors
  /\ v.rewritten = IF interactive THEN Marked(s.rewritten, items) ELSE s.rewritten

(* Observe watches, and does nothing else.                                 *)
LEMMA ObserveFacts ==
  ASSUME interactive \in BOOLEAN, NEW s \in States, NEW items \in Seq(Written)
  PROVE  Watched(s, items, Observe(s, items))
<1> DEFINE v == Observe(s, items)
<1>1. PICK r \in BOOLEAN :
        /\ Alike([s EXCEPT !.rewritten = r], v) /\ v.rewritten = r
        /\ r = IF interactive THEN Marked(s.rewritten, items) ELSE s.rewritten
  BY ObserveIs
<1> HIDE DEF v
<1> DEFINE t == [s EXCEPT !.rewritten = r]
<1>2. /\ t.pending = s.pending /\ t.alternate = s.alternate /\ t.native = s.native
      /\ t.overlay = s.overlay /\ t.disabled = s.disabled /\ t.out = s.out
      /\ t.errors = s.errors
  BY DEF States
<1>3. Alike(t, v)
  BY <1>1
<1> HIDE DEF t
<1>4. Watched(s, items, v)
  BY <1>1, <1>2, <1>3 DEF Alike, Watched
<1> QED
  BY <1>4 DEF v

(* A state that a call may go on from. *)
Good(b, s) ==
  /\ s \in States
  /\ Showing(b, s.out, s.native, s.overlay, s.alternate)
  /\ s.overlay # {} => interactive
  /\ s.errors \cap failed = {} /\ s.errors \cup failed \subseteq s.disabled
  /\ s.rewritten => Seeing(b, s.out).line.edited /\ interactive /\ ~s.alternate

Plainly(s) == interactive /\ s.tail.prompt => s.overlay = {}

(* Nothing is drawn of what it goes on with. *)
LEMMA GoodDraws ==
  ASSUME NEW b \in Seen, NEW s, Good(b, s)
  PROVE  Begins(s) /\ Draws(b, s, <<>>, s)
<1>1. s \in States /\ s.out \in Seq(Written) /\ s.rewritten \in BOOLEAN
  BY DEF Good, States
<1>2. s.out \o <<>> = s.out /\ <<>> \in Seq(Drawn)
  BY <1>1
<1>3. ~Enables(<<>>) /\ Marked(s.rewritten, <<>>) = s.rewritten
  BY <1>1, MarkFacts DEF Enables
<1>4. Keeping(b, s, <<>>, s.out, s.alternate)
  BY <1>1, <1>2, <1>3 DEF Keeping, Same, Good
<1> QED
  BY <1>1, <1>3, <1>4 DEF Draws, Fits, Good, Begins

(* With its highlight ended it stays one. *)
LEMMA GoodClose ==
  ASSUME NEW b \in Seen, NEW s, Good(b, s)
  PROVE  LET v == CloseOverlay(s)
         IN /\ Good(b, v) /\ v.overlay = {} /\ v.pending = s.pending /\ Same(v.out, s.out)
            /\ v.tail = s.tail /\ v.alternate = s.alternate /\ v.rewritten = s.rewritten
<1> DEFINE v == CloseOverlay(s)
<1>1. Closed(b, s, <<>>, s, v)
  BY GoodDraws, ClosesDraws
<1> HIDE DEF v
<1>2. /\ Draws(b, s, <<>>, v) /\ v.overlay = {} /\ v.pending = s.pending
      /\ v.rewritten = s.rewritten /\ v.alternate = s.alternate /\ v.tail = s.tail
  BY <1>1 DEF Closed
<1>3. /\ v \in States /\ s \in States
      /\ Keeping(b, s, <<>>, v.out, v.alternate)
      /\ Showing(b, v.out, v.native, v.overlay, v.alternate)
  BY <1>2 DEF Draws, Fits, Good
<1>4. s.rewritten \in BOOLEAN /\ s.out \in Seq(Written) /\ s.out \o <<>> = s.out
  BY <1>3 DEF States
<1>5. ~Enables(<<>>) /\ Marked(s.rewritten, <<>>) = s.rewritten
  BY <1>4, MarkFacts DEF Enables
<1>6. Same(v.out, s.out)
  BY <1>3, <1>4 DEF Keeping
<1>7. v.rewritten => Seeing(b, v.out).line.edited /\ interactive /\ ~v.alternate
  BY <1>2, <1>3, <1>5 DEF Keeping, Good
<1>8. Good(b, v)
  BY <1>2, <1>3, <1>7 DEF Good, Draws
<1> QED
  BY <1>2, <1>6, <1>8 DEF v

(* At a prompt its highlight is ended.                                     *)
LEMMA GoodPlain ==
  ASSUME NEW b \in Seen, NEW s, Good(b, s)
  PROVE  LET v == PlainAtPrompt(s)
         IN Good(b, v) /\ Plainly(v) /\ v.pending = s.pending /\ Same(v.out, s.out)
<1> DEFINE v == PlainAtPrompt(s)
           u == CloseOverlay(s)
<1>1. CASE interactive /\ s.tail.prompt
  <2>1. v = u
    BY <1>1 DEF PlainAtPrompt
  <2>2. /\ Good(b, u) /\ u.overlay = {} /\ u.pending = s.pending /\ Same(u.out, s.out)
        /\ u.tail = s.tail /\ u.alternate = s.alternate /\ u.rewritten = s.rewritten
    BY GoodClose
  <2> HIDE DEF u, v
  <2> QED
    BY <2>1, <2>2 DEF Plainly, v
<1>2. CASE ~(interactive /\ s.tail.prompt)
  <2>1. v = s
    BY <1>2 DEF PlainAtPrompt
  <2> QED
    BY <1>2, <2>1 DEF Plainly, Same
<1> QED
  BY <1>1, <1>2

(* What is written piece after piece may be taken together.                     *)
LEMMA WrittenAssoc ==
  \A s \in Seq(Written), t \in Seq(Written), u \in Seq(Written) :
    (s \o t) \o u = s \o (t \o u)
BY ConcatAssociative

(* What was drawn of items, with none of it lost. *)
Drew(b, from, items, v) ==
  Good(b, v) /\ Plainly(v) /\ v.pending = from.pending /\ Same(v.out, from.out \o items)

(* What is followed, was drawn on the line. *)
LEMMA GoodFollow ==
  ASSUME NEW b \in Seen, NEW from, Good(b, from), NEW items, NEW s, Draws(b, from, items, s),
         interactive \in BOOLEAN, NEW follow \in BOOLEAN,
         ~follow /\ interactive => from.alternate \/ Enables(items),
         follow => items \in Seq(WordItems) \/ (~from.alternate /\ ~Enables(items))
  PROVE  LET u == IF follow THEN Observe(s, items) ELSE s
         IN Good(b, u) /\ u.pending = from.pending /\ Same(u.out, from.out \o items)
<1> DEFINE u == IF follow THEN Observe(s, items) ELSE s
           m == Marked(s.rewritten, items)
<1>1. /\ s \in States /\ s.pending = from.pending
      /\ Keeping(b, from, items, s.out, s.alternate)
      /\ Showing(b, s.out, s.native, s.overlay, s.alternate)
      /\ s.overlay # {} => interactive
      /\ s.errors \cap failed = {} /\ s.errors \cup failed \subseteq s.disabled
      /\ s.rewritten => from.rewritten /\ interactive /\ ~s.alternate /\ ~Enables(items)
  BY DEF Draws, Fits
<1>2. /\ items \in Seq(Drawn) /\ items \in Seq(Written) /\ Same(s.out, from.out \o items)
      /\ s.rewritten \in BOOLEAN /\ from.rewritten \in BOOLEAN
      /\ from.rewritten => interactive /\ ~from.alternate
  BY <1>1, DrawnConcat DEF Keeping, Good, States
<1>3. /\ u \in States /\ u.pending = s.pending
      /\ u.alternate = s.alternate /\ u.native = s.native /\ u.overlay = s.overlay
      /\ u.disabled = s.disabled /\ u.out = s.out /\ u.errors = s.errors
      /\ u.rewritten = IF follow /\ interactive THEN m ELSE s.rewritten
  <2>1. CASE follow
    <3>1. Watched(s, items, u)
      BY <1>1, <1>2, <2>1, ObserveFacts
    <3> HIDE DEF u
    <3> QED
      BY <2>1, <3>1 DEF Watched
  <2>2. CASE ~follow
    BY <1>1, <2>2
  <2> QED
    BY <2>1, <2>2
<1> HIDE DEF u
<1>4. ASSUME u.rewritten PROVE Seeing(b, u.out).line.edited /\ interactive /\ ~u.alternate
  <2>1. CASE follow /\ interactive
    <3>1. m /\ (m => Marked(from.rewritten, items))
      BY <1>1, <1>2, <1>3, <1>4, <2>1, MarkMore
    <3> HIDE DEF m
    <3>2. CASE ~Enables(items) /\ ~from.alternate
      BY <1>1, <1>3, <2>1, <3>1, <3>2 DEF Keeping
    <3>3. CASE s.rewritten
      <4>1. ~Enables(items) /\ ~from.alternate
        BY <1>1, <1>2, <3>3
      <4> QED
        BY <3>2, <4>1
    <3>4. CASE items \in Seq(WordItems)
      <4>1. s.rewritten
        BY <1>2, <3>1, <3>4, MarkWords DEF m
      <4> QED
        BY <3>3, <4>1
    <3> QED
      BY <2>1, <3>2, <3>4
  <2>2. CASE ~(follow /\ interactive)
    <3>1. s.rewritten
      BY <1>3, <1>4, <2>2
    <3>2. interactive /\ ~follow /\ ~Enables(items) /\ ~from.alternate
      BY <1>1, <1>2, <2>2, <3>1
    <3> QED
      BY <3>2
  <2> QED
    BY <2>1, <2>2
<1>5. Good(b, u)
  BY <1>1, <1>3, <1>4 DEF Good
<1> QED
  BY <1>1, <1>2, <1>3, <1>5 DEF u

(* And at a prompt no highlight stays open.                                *)
LEMMA DrewFollow ==
  ASSUME NEW b \in Seen, NEW from, Good(b, from), NEW items, NEW s, Draws(b, from, items, s),
         interactive \in BOOLEAN, NEW follow \in BOOLEAN,
         ~follow /\ interactive => from.alternate \/ Enables(items),
         follow => items \in Seq(WordItems) \/ (~from.alternate /\ ~Enables(items))
  PROVE  Drew(b, from, items, Follow(s, items, follow))
<1> DEFINE u == IF follow THEN Observe(s, items) ELSE s
           v == PlainAtPrompt(u)
<1>1. Good(b, u) /\ u.pending = from.pending /\ Same(u.out, from.out \o items)
  BY GoodFollow
<1> HIDE DEF u
<1>2. Good(b, v) /\ Plainly(v) /\ v.pending = u.pending /\ Same(v.out, u.out)
  BY <1>1, GoodPlain
<1>3. Follow(s, items, follow) = v
  BY DEF Follow, u
<1> HIDE DEF v
<1> QED
  BY <1>1, <1>2, <1>3 DEF Drew, Same

(* What is drawn with the rest held back. *)
LEMMA DrewDraw ==
  ASSUME NEW b \in Seen, NEW s, Good(b, s), rules \in RuleSets, interactive \in BOOLEAN,
         NEW items \in Seq(Unstyled), NEW cut \in 0 .. Len(items),
         SubSeq(items, cut + 1, Len(items)) \in Seq(WordItems),
         NEW follow \in BOOLEAN,
         ~follow /\ interactive => s.alternate \/ Enables(SubSeq(items, 1, cut)),
         follow => \/ SubSeq(items, 1, cut) \in Seq(WordItems)
                   \/ (~s.alternate /\ ~Enables(SubSeq(items, 1, cut)))
  PROVE  LET v == Draw(s, items, cut, follow)
         IN /\ Good(b, v) /\ Plainly(v) /\ v.pending = SubSeq(items, cut + 1, Len(items))
            /\ Same(v.out \o v.pending, s.out \o items)
<1> DEFINE t == SubSeq(items, 1, cut)
           rest == SubSeq(items, cut + 1, Len(items))
           from == [s EXCEPT !.pending = rest]
           u == Highlighted(from, t)
           v == Draw(s, items, cut, follow)
<1>1. t \in Seq(Unstyled) /\ rest \in Seq(Unstyled) /\ items = t \o rest
  BY CutInTwo
<1>2. v = Follow(u, t, follow)
  BY DEF Draw
<1>3. rest \in Seq(WordItems)
  OBVIOUS
<1>4. ~follow /\ interactive => s.alternate \/ Enables(t)
  OBVIOUS
<1>5. follow => t \in Seq(WordItems) \/ (~s.alternate /\ ~Enables(t))
  OBVIOUS
<1> HIDE DEF t, rest
<1>6. Good(b, from) /\ from.pending = rest /\ from.out = s.out /\ from.alternate = s.alternate
  BY <1>3 DEF Good, States
<1> HIDE DEF from
<1>7. Begins(from) /\ Draws(b, from, <<>>, from)
  BY <1>6, GoodDraws
<1>8. Draws(b, from, t, u)
  <2>1. Draws(b, from, <<>> \o t, u)
    BY <1>1, <1>7, DrawsHighlighted
  <2>2. <<>> \o t = t
    BY <1>1
  <2> QED
    BY <2>1, <2>2
<1> HIDE DEF u, v
<1>9. Drew(b, from, t, v)
  <2>1. /\ Good(b, from) /\ Draws(b, from, t, u)
        /\ (~follow /\ interactive => from.alternate \/ Enables(t))
        /\ (follow => t \in Seq(WordItems) \/ (~from.alternate /\ ~Enables(t)))
    BY <1>4, <1>5, <1>6, <1>8
  <2>2. Drew(b, from, t, Follow(u, t, follow))
    BY <2>1, DrewFollow
  <2> QED
    BY <1>2, <2>2
<1>10. Good(b, v) /\ Plainly(v) /\ v.pending = rest /\ Same(v.out, s.out \o t)
  BY <1>6, <1>9 DEF Drew
<1>11. Same(v.out \o v.pending, s.out \o items)
  <2>1. v.out \in Seq(Written) /\ s.out \in Seq(Written)
    BY <1>10 DEF Good, States
  <2>2. t \in Seq(Written) /\ rest \in Seq(Written)
    <3>1. Unstyled \subseteq Written
      BY DrawnConcat DEF Unstyled
    <3> QED
      BY <1>1, <3>1
  <2>3. s.out \o t \in Seq(Written)
    BY <2>1, <2>2
  <2>4. Same(v.out \o rest, (s.out \o t) \o rest)
    <3>1. Same(rest, rest)
      BY DEF Same
    <3> QED
      BY <1>10, <2>1, <2>2, <2>3, <3>1, SameConcat
  <2>5. (s.out \o t) \o rest = s.out \o (t \o rest)
    BY <2>1, <2>2, WrittenAssoc
  <2> QED
    BY <1>1, <1>10, <2>4, <2>5
<1> QED
  BY <1>10, <1>11 DEF v, rest

-----------------------------------------------------------------------------
(* What is held back. *)

(* The greatest of a bounded set of positions. *)
LEMMA MaxFacts ==
  ASSUME NEW N \in Nat, NEW S \in SUBSET (0 .. N), S # {}
  PROVE  Max(S) \in S /\ \A n \in S : n <= Max(S)
<1> DEFINE T == {N - n : n \in S}
<1>1. T \in SUBSET Nat /\ T # {}
  <2>1. PICK n : n \in S
    OBVIOUS
  <2>2. N - n \in T
    BY <2>1
  <2>3. \A m \in S : m \in 0 .. N /\ N - m \in Nat
    OBVIOUS
  <2> QED
    BY <2>2, <2>3
<1>2. PICK k \in T : \A m \in T : k <= m
  <2> HIDE DEF T
  <2> QED
    BY <1>1, LeastNatural
<1>3. PICK n \in S : k = N - n
  OBVIOUS
<1>4. ASSUME NEW m \in S PROVE n >= m
  <2>1. k <= N - m
    BY <1>2
  <2> QED
    BY <1>3, <2>1
<1>5. \E x \in S : \A y \in S : x >= y
  BY <1>4
<1>6. Max(S) \in S /\ \A y \in S : Max(S) >= y
  BY <1>5 DEF Max
<1> QED
  BY <1>6

EndsBroken(items) == items = <<>> \/ IsBreak(items[Len(items)])

(* Words are what was read. *)
LEMMA WordFacts ==
  /\ WordItems \subseteq Unstyled /\ WordItems \subseteq Written
  /\ \A x \in Unstyled : x.c \in Words => x \in WordItems
<1>1. ASSUME NEW x \in WordItems PROVE x \in Unstyled
  <2>1. PICK c \in Words : x = Item(c)
    BY DEF WordItems
  <2>2. x \in Reading
    BY <2>1 DEF Reading, TextClasses
  <2> QED
    BY <2>2, ReadingItems DEF Unstyled
<1>2. ASSUME NEW x \in Unstyled, x.c \in Words PROVE x \in WordItems
  <2>1. x.c # "sgr"
    BY <1>2 DEF Words
  <2>2. x.set = <<>> /\ x.by = "command" /\ x.style = {}
    BY <2>1 DEF Unstyled, Drawn, Written
  <2>3. x = [c |-> x.c, set |-> x.set, by |-> x.by, style |-> x.style]
    BY DEF Unstyled, Drawn, Written
  <2>4. x = Item(x.c)
    BY <2>2, <2>3 DEF Item
  <2> QED
    BY <1>2, <2>4 DEF WordItems
<1>3. Unstyled \subseteq Written
  BY DrawnConcat DEF Unstyled
<1> QED
  BY <1>1, <1>2, <1>3

(* The token that may go on: words alone, and no more of them than the limit. *)
HoldsBack(items, cut) ==
  /\ cut \in 0 .. Len(items)
  /\ SubSeq(items, cut + 1, Len(items)) \in Seq(WordItems)
  /\ Len(SubSeq(items, cut + 1, Len(items))) <= HoldLimit
  /\ EndsBroken(items) => SubSeq(items, cut + 1, Len(items)) = <<>>

(* Nothing may be held back.                                               *)
LEMMA AllHeldBack ==
  ASSUME NEW items \in Seq(Unstyled)
  PROVE  HoldsBack(items, Len(items))
<1>1. Len(items) \in 0 .. Len(items) /\ SubSeq(items, Len(items) + 1, Len(items)) = <<>>
  OBVIOUS
<1>2. <<>> \in Seq(WordItems) /\ Len(<<>>) = 0 /\ 0 <= HoldLimit
  BY HighlighterAssumption
<1> QED
  BY <1>1, <1>2 DEF HoldsBack

(* What streaming_split_at holds back.                                     *)
LEMMA TokenStartFacts ==
  ASSUME NEW items \in Seq(Unstyled)
  PROVE  HoldsBack(items, TokenStart(items))
<1> DEFINE N == Len(items)
           S == {0} \cup {i \in DOMAIN items : items[i].c \notin Words}
           start == Max(S)
           rest == SubSeq(items, start + 1, N)
<1>1. N \in Nat /\ DOMAIN items = 1 .. N /\ HoldLimit \in Nat
  BY HighlighterAssumption
<1>2. start \in S /\ \A n \in S : n <= start
  <2>1. S \in SUBSET (0 .. N) /\ S # {}
    BY <1>1
  <2> HIDE DEF S
  <2> QED
    BY <1>1, <2>1, MaxFacts
<1>3. start \in 0 .. N
  BY <1>1, <1>2
<1>4. CASE N - start > HoldLimit
  <2>1. TokenStart(items) = N
    BY <1>4 DEF TokenStart
  <2> QED
    BY <2>1, AllHeldBack
<1>5. CASE ~(N - start > HoldLimit)
  <2>1. TokenStart(items) = start
    BY <1>5 DEF TokenStart
  <2> HIDE DEF start
  <2>2. ASSUME NEW i \in start + 1 .. N PROVE items[i] \in WordItems
    <3>1. i \in 1 .. N /\ ~(i <= start)
      BY <1>1, <1>3
    <3>2. items[i] \in Unstyled /\ items[i].c \in Words
      BY <1>1, <1>2, <3>1
    <3> QED
      BY <3>2, WordFacts
  <2>3. rest \in Seq(WordItems) /\ Len(rest) = IF start + 1 <= N THEN N - (start + 1) + 1 ELSE 0
    <3>1. start + 1 \in Int /\ N \in Int
      BY <1>1, <1>3
    <3> QED
      BY <2>2, <3>1, SubSeqProperties
  <2>4. Len(rest) <= HoldLimit
    BY <1>1, <1>3, <1>5, <2>3
  <2>5. EndsBroken(items) => rest = <<>>
    <3>1. CASE items = <<>>
      BY <1>1, <1>3, <3>1
    <3>2. CASE items # <<>> /\ IsBreak(items[N])
      <4>1. N \in S
        <5>1. N \in DOMAIN items
          BY <1>1, <3>2
        <5>2. items[N].c \notin Words
          BY <3>2 DEF IsBreak, LineBreaks, Words
        <5> QED
          BY <5>1, <5>2
      <4>2. start = N
        <5> HIDE DEF S
        <5>1. N <= start
          BY <1>2, <4>1
        <5>2. start \in 0 .. N /\ N \in Nat
          BY <1>1, <1>3
        <5> HIDE DEF N
        <5> QED
          BY <5>1, <5>2
      <4> QED
        <5>1. start + 1 \in Int /\ N \in Int /\ N < start + 1
          BY <1>1, <4>2
        <5> QED
          BY <5>1, SubSeqEmpty
    <3> QED
      BY <3>1, <3>2 DEF EndsBroken
  <2> QED
    BY <1>3, <2>1, <2>3, <2>4, <2>5 DEF HoldsBack
<1> QED
  BY <1>4, <1>5

(* In an interactive session nothing is, of what switches the screen.      *)
LEMMA SplitFacts ==
  ASSUME NEW items \in Seq(Unstyled), NEW s
  PROVE  /\ HoldsBack(items, SplitAt(s, items))
         /\ interactive /\ (s.alternate \/ Enables(items)) => SplitAt(s, items) = Len(items)
<1>1. SplitAt(s, items) = Len(items) \/ SplitAt(s, items) = TokenStart(items)
  BY DEF SplitAt
<1>2. HoldsBack(items, SplitAt(s, items))
  BY <1>1, AllHeldBack, TokenStartFacts
<1> QED
  BY <1>2 DEF SplitAt

-----------------------------------------------------------------------------
(* The echo of a command. *)

(* What is a position of a sequence. *)
LEMMA IsPosition ==
  ASSUME NEW S, NEW items \in Seq(S), NEW i, NEW class, Is(items, i, class)
  PROVE  i \in 1 .. Len(items)
BY DEF Is

(* The first carriage return that ends an echo, or the last position. *)
EndsEcho(items, tail, i) ==
  IF Is(items, i + 1, "lf") THEN LineOf(LineBefore(items, i)).echo
  ELSE /\ ~Blank(LineBefore(items, i))
       /\ LineOf(LineBefore(items, i)).echo \/ IsPrompt(tail)
       /\ ~IsPrompt(LineOf(LineAfter(items, i)))

EchoEnds(items, tail) ==
  {Len(items)} \cup {i \in Breaks(items) : items[i].c = "cr" /\ EndsEcho(items, tail, i)}

(* CrPrefix, by the carriage returns that end an echo.                     *)
LEMMA CrPrefixIs ==
  ASSUME NEW items, NEW tail, NEW first, first = Min(EchoEnds(items, tail))
  PROVE  CrPrefix(items, tail) =
           IF first = Len(items) THEN 0
           ELSE IF Is(items, first + 1, "lf") THEN first + 1 ELSE first
BY DEF CrPrefix, EchoEnds, EndsEcho

(* How much of a read is an echo, is some of it. *)
LEMMA EchoPrefixFacts ==
  ASSUME NEW S, NEW items \in Seq(S), NEW tail
  PROVE  EchoPrefix(items, tail) \in 0 .. Len(items)
<1> DEFINE N == Len(items)
           cr == CrPrefix(items, tail)
           lf == LfPrefix(items, tail)
           t == Terminator(items, tail)
<1>1. N \in Nat /\ DOMAIN items = 1 .. N
  OBVIOUS
<1>2. t \in 0 .. N
  <2>1. CASE IsPrompt(tail) /\ Is(items, 1, "cr") /\ Is(items, 2, "lf")
    <3>1. 1 \in 1 .. N /\ 2 \in 1 .. N /\ ~Is(items, 1, "lf")
      BY <2>1, IsPosition DEF Is
    <3> QED
      BY <1>1, <2>1, <3>1 DEF Terminator
  <2>2. CASE ~(IsPrompt(tail) /\ Is(items, 1, "cr") /\ Is(items, 2, "lf"))
             /\ IsPrompt(tail) /\ Is(items, 1, "lf")
    <3>1. 1 \in 1 .. N
      BY <2>2, IsPosition
    <3>2. t = 1
      BY <2>2 DEF Terminator
    <3> QED
      BY <1>1, <3>1, <3>2
  <2>3. CASE /\ ~(IsPrompt(tail) /\ Is(items, 1, "cr") /\ Is(items, 2, "lf"))
             /\ ~(IsPrompt(tail) /\ Is(items, 1, "lf"))
    <3>1. t = 0
      BY <2>3 DEF Terminator
    <3> QED
      BY <1>1, <3>1
  <2> QED
    BY <2>1, <2>2, <2>3
<1>3. cr \in 0 .. N
  <2> DEFINE B == EchoEnds(items, tail)
             first == Min(B)
  <2>1. cr = IF first = N THEN 0
             ELSE IF Is(items, first + 1, "lf") THEN first + 1 ELSE first
    <3> DEFINE p == CrPrefix(items, tail)
               e == Min(EchoEnds(items, tail))
    <3>1. p = IF e = Len(items) THEN 0 ELSE IF Is(items, e + 1, "lf") THEN e + 1 ELSE e
      <4> HIDE DEF e
      <4>1. e = Min(EchoEnds(items, tail))
        BY DEF e
      <4> QED
        BY <4>1, CrPrefixIs
    <3> QED
      BY <3>1
  <2>2. B \in SUBSET Nat /\ B # {} /\ B \subseteq 0 .. N
    BY <1>1 DEF Breaks, EchoEnds
  <2> HIDE DEF B
  <2>3. first \in 0 .. N
    BY <2>2, MinFacts
  <2> HIDE DEF first, cr
  <2>4. Is(items, first + 1, "lf") => first + 1 \in 1 .. N
    BY IsPosition
  <2>5. CASE first = N
    BY <1>1, <2>1, <2>5
  <2>6. CASE first # N /\ Is(items, first + 1, "lf")
    BY <1>1, <2>1, <2>4, <2>6
  <2>7. CASE first # N /\ ~Is(items, first + 1, "lf")
    BY <1>1, <2>1, <2>3, <2>7
  <2> QED
    BY <2>5, <2>6, <2>7
<1>4. lf \in 0 .. N
  <2> DEFINE echo(i) == LET line == LineBefore(items, i)
                        IN \/ LineOf(line).echo
                           \/ /\ IsPrompt(tail) /\ ~Blank(line)
                              /\ i = Min(Breaks(items) \cup {Len(items) + 1})
             i == Min({Len(items) + 1} \cup {b \in Breaks(items) : echo(b)})
  <2>1. lf = CASE Is(items, i, "lf") -> i
               [] Is(items, i, "cr") /\ Is(items, i + 1, "lf") -> i + 1
               [] OTHER -> 0
    BY DEF LfPrefix
  <2> HIDE DEF i, lf
  <2>2. Is(items, i, "lf") => i \in 1 .. N /\ ~Is(items, i, "cr")
    BY IsPosition DEF Is
  <2>3. Is(items, i + 1, "lf") => i + 1 \in 1 .. N
    BY IsPosition
  <2> QED
    BY <1>1, <2>1, <2>2, <2>3
<1> HIDE DEF cr, lf, t
<1>5. \/ EchoPrefix(items, tail) = t \/ EchoPrefix(items, tail) = lf
      \/ EchoPrefix(items, tail) = cr
  BY DEF EchoPrefix, cr, lf, t
<1> QED
  BY <1>2, <1>3, <1>4, <1>5

(* The items at some positions. *)
Picked(items, at) == [i \in 1 .. Len(at) |-> items[at[i]]]

(* They are picked one by one.                                             *)
LEMMA PickedFacts ==
  ASSUME NEW items \in Seq(Written)
  PROVE  /\ Picked(items, <<>>) = <<>>
         /\ \A at \in Seq(DOMAIN items) : Picked(items, at) \in Seq(Written)
         /\ \A at \in Seq(DOMAIN items), k \in DOMAIN items :
              Picked(items, Append(at, k)) = Append(Picked(items, at), items[k])
<1>1. Picked(items, <<>>) = <<>>
  BY DEF Picked
<1>2. ASSUME NEW at \in Seq(DOMAIN items) PROVE Picked(items, at) \in Seq(Written)
  <2>1. \A i \in 1 .. Len(at) : items[at[i]] \in Written
    OBVIOUS
  <2> QED
    BY <2>1 DEF Picked
<1>3. ASSUME NEW at \in Seq(DOMAIN items), NEW k \in DOMAIN items
      PROVE  Picked(items, Append(at, k)) = Append(Picked(items, at), items[k])
  <2> DEFINE u == Append(at, k)
             p == Picked(items, at)
             q == Append(p, items[k])
             N == Len(at)
  <2>1. u \in Seq(DOMAIN items) /\ Len(u) = N + 1 /\ u[N + 1] = k
        /\ N \in Nat /\ \A i \in 1 .. N : u[i] = at[i]
    OBVIOUS
  <2>2. p \in Seq(Written) /\ Len(p) = N /\ \A i \in 1 .. N : p[i] = items[at[i]]
    BY <1>2 DEF Picked
  <2>3. items[k] \in Written
    OBVIOUS
  <2> HIDE DEF u, p, N
  <2>4. q \in Seq(Written) /\ Len(q) = N + 1 /\ q[N + 1] = items[k]
        /\ \A i \in 1 .. N : q[i] = items[at[i]]
    BY <2>1, <2>2, <2>3
  <2> HIDE DEF q
  <2>5. \A i \in 1 .. N + 1 : q[i] = items[u[i]]
    <3> TAKE i \in 1 .. N + 1
    <3>1. i \in 1 .. N \/ i = N + 1
      BY <2>1
    <3> QED
      BY <2>1, <2>4, <3>1
  <2>6. q = [i \in 1 .. N + 1 |-> q[i]]
    BY <2>4
  <2>7. Picked(items, u) = [i \in 1 .. N + 1 |-> items[u[i]]]
    BY <2>1 DEF Picked
  <2>8. Picked(items, u) = q
    BY <2>5, <2>6, <2>7
  <2> QED
    BY <2>8 DEF u, q, p
<1> QED
  BY <1>1, <1>2, <1>3

(* An echo whose colour is taken out. *)
Recolours(echo) ==
  /\ echo.items \in Seq(Unstyled) /\ echo.off \in Unstyled /\ echo.off.c = "sgr"
  /\ \A k \in echo.removed : k \in DOMAIN echo.items => echo.items[k].c = "sgr"

(* Unstyled items are written and drawn. *)
LEMMA UnstyledFacts ==
  /\ Unstyled \subseteq Drawn /\ Unstyled \subseteq Written
  /\ Seq(Unstyled) \subseteq Seq(Drawn) /\ Seq(Unstyled) \subseteq Seq(Written)
<1>1. Unstyled \subseteq Drawn /\ Unstyled \subseteq Written
  BY DrawnConcat DEF Unstyled
<1> QED
  BY <1>1

(* The next item of an echo. *)
LEMMA RecolourItem ==
  ASSUME NEW echo, Recolours(echo), NEW drawn \in Seq(Unstyled), NEW k \in DOMAIN echo.items
  PROVE  /\ Recolour(echo, drawn, k) \in Seq(Unstyled)
         /\ WithoutSgr(Recolour(echo, drawn, k)) =
              IF echo.items[k].c = "sgr" THEN WithoutSgr(drawn)
              ELSE Append(WithoutSgr(drawn), echo.items[k].c)
<1> DEFINE x == echo.items[k]
           u == IF k \in echo.resets THEN Append(drawn, echo.off) ELSE drawn
           v == IF k \in echo.removed THEN u ELSE Append(u, x)
<1>1. x \in Unstyled /\ echo.off \in Unstyled /\ echo.off.c = "sgr"
      /\ (k \in echo.removed => x.c = "sgr")
  BY DEF Recolours
<1>2. \A s \in Seq(Unstyled), y \in Unstyled :
        /\ s \o <<>> = s /\ s \o <<y>> = Append(s, y) /\ Append(s, y) \in Seq(Unstyled)
        /\ WithoutSgr(Append(s, y)) =
             IF y.c = "sgr" THEN WithoutSgr(s) ELSE Append(WithoutSgr(s), y.c)
  BY OneMore, ClassFacts, UnstyledFacts
<1>3. u \in Seq(Unstyled) /\ WithoutSgr(u) = WithoutSgr(drawn)
      /\ u = drawn \o (IF k \in echo.resets THEN <<echo.off>> ELSE <<>>)
  BY <1>1, <1>2
<1>4. Recolour(echo, drawn, k) = u \o (IF k \in echo.removed THEN <<>> ELSE <<x>>)
  BY <1>3 DEF Recolour
<1> HIDE DEF u, x
<1>5. Recolour(echo, drawn, k) = v
  BY <1>1, <1>2, <1>3, <1>4
<1>6. v \in Seq(Unstyled)
      /\ WithoutSgr(v) = IF x.c = "sgr" THEN WithoutSgr(drawn) ELSE Append(WithoutSgr(drawn), x.c)
  BY <1>1, <1>2, <1>3
<1> QED
  BY <1>5, <1>6 DEF x

(* The items of an echo, one after the other. *)
LEMMA RecolourTurns ==
  ASSUME NEW echo, NEW X, NEW V, <<>> \in V /\ \A v \in V, x \in X : Recolour(echo, v, x) \in V
  PROVE  /\ RecolourAll(echo, <<>>) = <<>>
         /\ \A s \in Seq(X) : RecolourAll(echo, s) \in V
         /\ \A s \in Seq(X), x \in X :
              RecolourAll(echo, Append(s, x)) = Recolour(echo, RecolourAll(echo, s), x)
BY RecolourFolds

(* Its text and controls are kept. *)
LEMMA RecolourAllFacts ==
  ASSUME NEW echo, Recolours(echo), NEW at \in Seq(DOMAIN echo.items)
  PROVE  /\ RecolourAll(echo, at) \in Seq(Unstyled)
         /\ Same(RecolourAll(echo, at), Picked(echo.items, at))
<1> DEFINE items == echo.items
           X == DOMAIN items
           P == {t \in Seq(X) : /\ RecolourAll(echo, t) \in Seq(Unstyled)
                                /\ Same(RecolourAll(echo, t), Picked(items, t))}
<1>1. items \in Seq(Unstyled) /\ items \in Seq(Written)
  BY UnstyledFacts DEF Recolours
<1>2. /\ RecolourAll(echo, <<>>) = <<>>
      /\ \A s \in Seq(X) : RecolourAll(echo, s) \in Seq(Unstyled)
      /\ \A s \in Seq(X), x \in X :
           RecolourAll(echo, Append(s, x)) = Recolour(echo, RecolourAll(echo, s), x)
  <2> DEFINE V == Seq(Unstyled)
  <2>1. <<>> \in V
    OBVIOUS
  <2>2. \A v \in V, x \in X : Recolour(echo, v, x) \in V
    BY RecolourItem
  <2> HIDE DEF items, V, X
  <2>3. /\ RecolourAll(echo, <<>>) = <<>>
        /\ \A s \in Seq(X) : RecolourAll(echo, s) \in V
        /\ \A s \in Seq(X), x \in X :
             RecolourAll(echo, Append(s, x)) = Recolour(echo, RecolourAll(echo, s), x)
    BY <2>1, <2>2, RecolourTurns
  <2> QED
    BY <2>3 DEF V
<1>3. /\ Picked(items, <<>>) = <<>>
      /\ \A t \in Seq(X) : Picked(items, t) \in Seq(Written)
      /\ \A t \in Seq(X), k \in X : Picked(items, Append(t, k)) = Append(Picked(items, t), items[k])
  BY <1>1, PickedFacts
<1>4. <<>> \in P
  <2>1. RecolourAll(echo, <<>>) = <<>> /\ Picked(items, <<>>) = <<>>
    BY <1>2, <1>3
  <2>2. <<>> \in Seq(X) /\ <<>> \in Seq(Unstyled)
    OBVIOUS
  <2> HIDE DEF X, items
  <2> QED
    BY <2>1, <2>2 DEF Same
<1>5. ASSUME NEW t \in Seq(X), NEW k \in X, t \in P PROVE Append(t, k) \in P
  <2> DEFINE r == RecolourAll(echo, t)
             p == Picked(items, t)
  <2>1. r \in Seq(Unstyled) /\ WithoutSgr(r) = WithoutSgr(p) /\ p \in Seq(Written)
        /\ items[k] \in Written
    BY <1>1, <1>3, <1>5 DEF Same
  <2>2. Append(t, k) \in Seq(X)
        /\ RecolourAll(echo, Append(t, k)) = Recolour(echo, r, k)
        /\ Picked(items, Append(t, k)) = Append(p, items[k])
    BY <1>2, <1>3
  <2> HIDE DEF r, p
  <2>3. /\ Recolour(echo, r, k) \in Seq(Unstyled)
        /\ WithoutSgr(Recolour(echo, r, k)) =
             IF items[k].c = "sgr" THEN WithoutSgr(r) ELSE Append(WithoutSgr(r), items[k].c)
    BY <2>1, RecolourItem
  <2>4. WithoutSgr(Append(p, items[k])) =
          IF items[k].c = "sgr" THEN WithoutSgr(p) ELSE Append(WithoutSgr(p), items[k].c)
    BY <2>1, ClassFacts
  <2> QED
    BY <2>1, <2>2, <2>3, <2>4 DEF Same
<1>6. Seq(X) \subseteq P
  <2> HIDE DEF P, X
  <2> QED
    BY <1>4, <1>5, EachSequence
<1> QED
  BY <1>6

(* Where it has a colour, what is taken out are SGR. *)
LEMMA EchoSgrFacts ==
  ASSUME NEW items, NEW i, NEW tail
  PROVE  \A k \in EchoSgr(items, i, tail) : items[k].c = "sgr"
BY DEF EchoSgr

(* An SGR of the command's. *)
LEMMA SgrFacts ==
  ASSUME NEW set \in Settings
  PROVE  Sgr(set) \in Unstyled /\ Sgr(set).c = "sgr"
<1>2. Item("sgr") = [c |-> "sgr", set |-> <<>>, by |-> "command", style |-> {}]
  BY DEF Item
<1>1. Sgr(set) = [c |-> "sgr", set |-> set, by |-> "command", style |-> {}]
  BY <1>2 DEF Sgr
<1> QED
  BY <1>1 DEF Unstyled, Drawn, Written, Classes

(* An echo without its colour is the echo otherwise. *)
LEMMA EchoFacts ==
  ASSUME NEW items \in Seq(Unstyled), NEW tail, NEW m
  PROVE  /\ WithoutEchoColour(items, tail, m) \in Seq(Unstyled)
         /\ Same(WithoutEchoColour(items, tail, m), items)
<1> DEFINE lines == ColouredLines(items, tail)
           on == IF m THEN Attributes ELSE Attributes \cap {"fg"}
           set == [a \in on |-> "off"]
           echo == [items |-> items,
                    removed |-> UNION {EchoSgr(items, i, tail) : i \in lines},
                    resets |-> {CommandStart(items, i, tail) : i \in lines},
                    off |-> Sgr(set)]
           at == [k \in DOMAIN items |-> k]
<1>1. WithoutEchoColour(items, tail, m) = RecolourAll(echo, at)
  BY DEF WithoutEchoColour
<1>2. Sgr(set) \in Unstyled /\ Sgr(set).c = "sgr"
  <2>1. on \in SUBSET Attributes /\ set \in [on -> Values]
    BY DEF Values
  <2> HIDE DEF on, set
  <2>2. set \in Settings
    BY <2>1, SettingFacts
  <2> QED
    BY <2>2, SgrFacts
<1>3. echo.items = items /\ echo.off = Sgr(set)
  OBVIOUS
<1>4. \A k \in echo.removed : items[k].c = "sgr"
  BY EchoSgrFacts
<1> HIDE DEF echo, set, on
<1>5. Recolours(echo)
  BY <1>2, <1>3, <1>4 DEF Recolours
<1>6. at \in Seq(DOMAIN items) /\ Len(at) = Len(items)
      /\ \A i \in 1 .. Len(items) : at[i] = i
  OBVIOUS
<1> HIDE DEF at
<1>7. Picked(items, at) = items
  <2>1. Picked(items, at) = [i \in 1 .. Len(items) |-> items[i]]
    BY <1>6 DEF Picked
  <2>2. items = [i \in 1 .. Len(items) |-> items[i]]
    OBVIOUS
  <2> QED
    BY <2>1, <2>2
<1>8. at \in Seq(DOMAIN echo.items)
  BY <1>3, <1>6
<1>9. /\ RecolourAll(echo, at) \in Seq(Unstyled)
      /\ Same(RecolourAll(echo, at), Picked(echo.items, at))
  BY <1>5, <1>8, RecolourAllFacts
<1> QED
  BY <1>1, <1>3, <1>7, <1>9

-----------------------------------------------------------------------------
(* Pushing a read. *)

(* The marks of a state are of no matter to what was drawn. *)
Noted(s, r, p, e) == [s EXCEPT !.remainder = r, !.split = p, !.echoing = e]

Renoted(b, s, v) ==
  /\ Good(b, v) /\ v.pending = s.pending /\ v.out = s.out /\ v.overlay = s.overlay
  /\ v.alternate = s.alternate /\ v.tail = s.tail

(* A call may go on from any of them.                                      *)
LEMMA GoodNoted ==
  ASSUME NEW b, NEW s, Good(b, s), NEW r \in BOOLEAN, NEW p \in BOOLEAN, NEW e \in BOOLEAN
  PROVE  Renoted(b, s, Noted(s, r, p, e))
<1> DEFINE v == Noted(s, r, p, e)
<1>1. s \in States
  BY DEF Good
<1>2. /\ v \in States /\ v.pending = s.pending /\ v.out = s.out /\ v.overlay = s.overlay
      /\ v.alternate = s.alternate /\ v.native = s.native /\ v.disabled = s.disabled
      /\ v.errors = s.errors /\ v.rewritten = s.rewritten /\ v.tail = s.tail
  BY <1>1 DEF Noted, States
<1> HIDE DEF v
<1>3. Good(b, v)
  BY <1>2 DEF Good
<1>4. Renoted(b, s, v)
  BY <1>2, <1>3 DEF Renoted
<1> QED
  BY <1>4 DEF v

(* Each of them alone. *)
LEMMA NotedIs ==
  ASSUME NEW s \in States
  PROVE  /\ s.remainder \in BOOLEAN /\ s.split \in BOOLEAN /\ s.echoing \in BOOLEAN
         /\ \A r : [s EXCEPT !.remainder = r] = Noted(s, r, s.split, s.echoing)
         /\ \A p : [s EXCEPT !.split = p] = Noted(s, s.remainder, p, s.echoing)
         /\ \A e : [s EXCEPT !.echoing = e] = Noted(s, s.remainder, s.split, e)
BY DEF States, Noted

(* What an echo leaves. *)
Echoed(b, from, items, v) ==
  /\ Good(b, v) /\ v.overlay = {} /\ v.pending = from.pending /\ ~v.alternate
  /\ Same(v.out, from.out \o items)

(* An echo is drawn without highlights and none of it is lost.             *)
LEMMA EchoDraws ==
  ASSUME NEW b \in Seen, NEW s, Good(b, s), interactive \in BOOLEAN, ~s.alternate,
         NEW items \in Seq(Unstyled), ~Enables(items)
  PROVE  Echoed(b, s, items, Echo(s, items))
<1> DEFINE drawn == WithoutEchoColour(items, s.tail, full)
           p == Passthrough(s, drawn)
           v == Echo(s, items)
<1>1. v = Observe(p, items)
  BY DEF Echo, EchoDrawn, Passthrough
<1>2. drawn \in Seq(Unstyled) /\ Same(drawn, items)
  BY EchoFacts
<1> HIDE DEF drawn
<1>3. items \in Seq(Drawn) /\ items \in Seq(Written) /\ drawn \in Seq(Written)
      /\ drawn \in Seq(Drawn)
  BY <1>2, UnstyledFacts
<1>4. ~Enables(drawn)
  BY <1>2, <1>3, SameEnables
<1>5. Begins(s) /\ Draws(b, s, <<>>, s)
  BY GoodDraws
<1>6. Draws(b, s, drawn, p) /\ p.overlay = {}
  <2>1. Draws(b, s, <<>> \o drawn, p) /\ p.overlay = {}
    BY <1>2, <1>4, <1>5, DrawsPassthrough
  <2>2. <<>> \o drawn = drawn
    BY <1>2
  <2> QED
    BY <2>1, <2>2
<1> HIDE DEF p, v
<1>7. Draws(b, s, items, p)
  <2>1. Keeping(b, s, drawn, p.out, p.alternate)
    BY <1>6 DEF Draws, Fits
  <2>2. Keeping(b, s, items, p.out, p.alternate)
    BY <1>2, <1>3, <1>5, <2>1, KeepingSame
  <2> QED
    BY <1>6, <2>2 DEF Draws, Fits
<1>8. Good(b, v) /\ v.pending = s.pending /\ Same(v.out, s.out \o items)
  <2> DEFINE u == IF TRUE THEN Observe(p, items) ELSE p
  <2>1. TRUE \in BOOLEAN /\ ~s.alternate /\ ~Enables(items)
    OBVIOUS
  <2>2. Good(b, u) /\ u.pending = s.pending /\ Same(u.out, s.out \o items)
    BY <1>7, <2>1, GoodFollow
  <2> QED
    BY <1>1, <2>2
<1>9. v.overlay = {} /\ ~v.alternate
  <2>1. p \in States
    BY <1>6 DEF Draws
  <2>2. Watched(p, items, v)
    BY <1>1, <1>3, <2>1, ObserveFacts
  <2>3. ~p.alternate
    BY <1>7 DEF Draws, Fits, Keeping
  <2> QED
    BY <1>6, <2>2, <2>3 DEF Watched
<1>10. Echoed(b, s, items, v)
  BY <1>8, <1>9 DEF Echoed
<1> QED
  BY <1>10 DEF v

(* What is pushed is drawn or held back, with none of it lost. *)
PushedOn(b, from, items, v) ==
  /\ Good(b, v) /\ Plainly(v) /\ Len(v.pending) <= HoldLimit
  /\ EndsBroken(items) => v.pending = <<>>
  /\ Same(v.out \o v.pending, from.out \o items)

(* Some of a read switches no screen if it does not. *)
LEMMA PartStays ==
  ASSUME NEW items \in Seq(Unstyled), ~Enables(items), NEW n \in 0 .. Len(items)
  PROVE  ~Enables(SubSeq(items, 1, n)) /\ ~Enables(SubSeq(items, n + 1, Len(items)))
<1> DEFINE t == SubSeq(items, 1, n)
           u == SubSeq(items, n + 1, Len(items))
<1>1. t \in Seq(Unstyled) /\ u \in Seq(Unstyled) /\ items = t \o u
  BY CutInTwo
<1> HIDE DEF t, u
<1>2. t \in Seq(Written) /\ u \in Seq(Written)
  BY <1>1, UnstyledFacts
<1>3. ~Enables(t) /\ ~Enables(u)
  BY <1>1, <1>2, EnablesConcat
<1> QED
  BY <1>3 DEF t, u

(* What is drawn up to the token that may go on. *)
LEMMA DrawPushes ==
  ASSUME NEW b \in Seen, NEW s, Good(b, s), rules \in RuleSets, interactive \in BOOLEAN,
         NEW items \in Seq(Unstyled), NEW cut, HoldsBack(items, cut),
         NEW follow \in BOOLEAN,
         ~follow /\ interactive => cut = Len(items) /\ (s.alternate \/ Enables(items)),
         follow => ~s.alternate /\ ~Enables(items)
  PROVE  PushedOn(b, s, items, Draw(s, items, cut, follow))
<1> DEFINE t == SubSeq(items, 1, cut)
           rest == SubSeq(items, cut + 1, Len(items))
           v == Draw(s, items, cut, follow)
<1>1. /\ cut \in 0 .. Len(items) /\ rest \in Seq(WordItems) /\ Len(rest) <= HoldLimit
      /\ EndsBroken(items) => rest = <<>>
  BY DEF HoldsBack
<1>2. ~follow /\ interactive => s.alternate \/ Enables(t)
  <2>1. cut = Len(items) => t = items
    OBVIOUS
  <2> HIDE DEF t
  <2> QED
    BY <2>1
<1>3. follow => (t \in Seq(WordItems) \/ (~s.alternate /\ ~Enables(t)))
  BY <1>1, PartStays
<1>4. /\ Good(b, v) /\ Plainly(v) /\ v.pending = rest
      /\ Same(v.out \o v.pending, s.out \o items)
  <2> HIDE DEF v
  <2>1. Draw(s, items, cut, follow) = v
    BY DEF v
  <2> QED
    BY <1>1, <1>2, <1>3, <2>1, DrewDraw
<1> HIDE DEF v, rest
<1>5. PushedOn(b, s, items, v)
  BY <1>1, <1>4 DEF PushedOn
<1> QED
  BY <1>5 DEF v

(* The output after an echo. *)
LEMMA AfterEchoPushes ==
  ASSUME NEW b \in Seen, NEW s, Good(b, s), rules \in RuleSets, interactive \in BOOLEAN,
         ~s.alternate, NEW rest \in Seq(Unstyled), ~Enables(rest)
  PROVE  PushedOn(b, s, rest, AfterEcho(s, rest))
<1> DEFINE u == [s EXCEPT !.echoing = FALSE]
           cut == SplitAt(u, rest)
           more == cut < Len(rest)
           t == [s EXCEPT !.remainder = more]
<1>1. AfterEcho(s, rest) = Draw(t, rest, cut, TRUE)
  BY DEF AfterEcho
<1>2. HoldsBack(rest, cut)
  BY SplitFacts
<1> HIDE DEF cut
<1>3. more \in BOOLEAN
  OBVIOUS
<1> HIDE DEF more
<1>4. Good(b, t) /\ t.out = s.out /\ t.alternate = s.alternate
  <2>1. s \in States
    BY DEF Good
  <2>2. s.split \in BOOLEAN /\ s.echoing \in BOOLEAN
        /\ t = Noted(s, more, s.split, s.echoing)
    BY <2>1, NotedIs
  <2> HIDE DEF t
  <2> QED
    <3>1. Renoted(b, s, t)
      BY <1>3, <2>2, GoodNoted
    <3> QED
      BY <3>1 DEF Renoted
<1> HIDE DEF t
<1>5. PushedOn(b, t, rest, Draw(t, rest, cut, TRUE))
  <2>1. /\ (~TRUE /\ interactive => cut = Len(rest) /\ (t.alternate \/ Enables(rest)))
        /\ (TRUE => ~t.alternate /\ ~Enables(rest))
    BY <1>4
  <2> QED
    BY <1>2, <1>4, <2>1, DrawPushes
<1> QED
  BY <1>1, <1>4, <1>5 DEF PushedOn

(* A read that is not broken off does not end in what is not. *)
LEMMA EndsRest ==
  ASSUME NEW S, NEW items \in Seq(S), NEW n \in 0 .. Len(items), EndsBroken(items)
  PROVE  EndsBroken(SubSeq(items, n + 1, Len(items)))
<1> DEFINE rest == SubSeq(items, n + 1, Len(items))
<1>1. Len(items) \in Nat /\ Len(rest) = Len(items) - n
  OBVIOUS
<1>2. CASE n = Len(items)
  <2>1. rest = <<>>
    BY <1>1, <1>2
  <2> QED
    BY <2>1 DEF EndsBroken
<1>3. CASE n < Len(items)
  <2>1. rest[Len(rest)] = items[Len(items)]
    <3>1. \A i \in 1 .. Len(items) - n : rest[i] = items[n + i]
      OBVIOUS
    <3>2. Len(items) - n \in 1 .. Len(items) - n /\ n + (Len(items) - n) = Len(items)
      BY <1>1, <1>3
    <3> HIDE DEF rest
    <3> QED
      BY <1>1, <3>1, <3>2
  <2>2. items # <<>>
    BY <1>3
  <2> QED
    BY <2>1, <2>2 DEF EndsBroken
<1> QED
  BY <1>1, <1>2, <1>3

(* An echo, and what comes after it. *)
LEMMA PushEchoPushes ==
  ASSUME NEW b \in Seen, NEW s, Good(b, s), rules \in RuleSets, interactive \in BOOLEAN,
         ~s.alternate, NEW items \in Seq(Unstyled), ~Enables(items)
  PROVE  LET v == PushEcho(s, items)
         IN Good(b, v) /\ (s.pending = <<>> => PushedOn(b, s, items, v))
<1> DEFINE n == EchoPrefix(items, s.tail)
           first == SubSeq(items, 1, n)
           rest == SubSeq(items, n + 1, Len(items))
           v == PushEcho(s, items)
<1>1. n \in 0 .. Len(items)
  BY EchoPrefixFacts
<1>2. CASE n = 0
  <2> DEFINE e == Echo(s, items)
             on == e.echoing \/ ~s.echoing
             u == [e EXCEPT !.echoing = on]
  <2>1. v = u
    BY <1>2 DEF PushEcho
  <2>2. Echoed(b, s, items, e)
    BY EchoDraws
  <2> HIDE DEF e, v
  <2>3. on \in BOOLEAN
    OBVIOUS
  <2> HIDE DEF on
  <2>4. Good(b, u) /\ u.pending = e.pending /\ u.out = e.out /\ u.overlay = e.overlay
    <3>1. e \in States
      BY <2>2 DEF Echoed, Good
    <3>2. e.remainder \in BOOLEAN /\ e.split \in BOOLEAN
          /\ u = Noted(e, e.remainder, e.split, on)
      BY <3>1, NotedIs
    <3> HIDE DEF u
    <3> QED
      <4>1. Good(b, e) /\ Renoted(b, e, u)
        BY <2>2, <2>3, <3>2, GoodNoted DEF Echoed
      <4> QED
        BY <4>1 DEF Renoted
  <2> HIDE DEF u
  <2>5. ASSUME s.pending = <<>> PROVE PushedOn(b, s, items, u)
    <3>1. u.pending = <<>> /\ u.overlay = {} /\ Same(u.out, s.out \o items)
      BY <2>2, <2>4, <2>5 DEF Echoed
    <3>2. u.out \in Seq(Written)
      BY <2>4 DEF Good, States
    <3>3. u.out \o u.pending = u.out
      BY <3>1, <3>2
    <3>4. Len(u.pending) <= HoldLimit
      BY <3>1, HighlighterAssumption
    <3> QED
      BY <2>4, <3>1, <3>3, <3>4 DEF PushedOn, Plainly
  <2> QED
    BY <2>1, <2>4, <2>5 DEF v
<1>3. CASE n # 0
  <2> DEFINE e == Echo(s, first)
             u == AfterEcho(e, rest)
  <2>1. v = u
    BY <1>3 DEF PushEcho
  <2>2. /\ first \in Seq(Unstyled) /\ rest \in Seq(Unstyled) /\ items = first \o rest
        /\ ~Enables(first) /\ ~Enables(rest)
    BY <1>1, CutInTwo, PartStays
  <2>3. EndsBroken(items) => EndsBroken(rest)
    BY <1>1, EndsRest
  <2> HIDE DEF first, rest, v, n
  <2>4. Echoed(b, s, first, e)
    BY <2>2, EchoDraws
  <2> HIDE DEF e
  <2>5. PushedOn(b, e, rest, u)
    <3>1. Good(b, e) /\ ~e.alternate
      BY <2>4 DEF Echoed
    <3> QED
      BY <2>2, <3>1, AfterEchoPushes
  <2> HIDE DEF u
  <2>6. Same(u.out \o u.pending, s.out \o items)
    <3>1. e.out \in Seq(Written) /\ s.out \in Seq(Written)
      BY <2>4 DEF Echoed, Good, States
    <3>2. first \in Seq(Written) /\ rest \in Seq(Written)
      BY <2>2, UnstyledFacts
    <3>3. s.out \o first \in Seq(Written)
      BY <3>1, <3>2
    <3>4. Same(e.out, s.out \o first) /\ Same(rest, rest)
      BY <2>4 DEF Echoed, Same
    <3>5. Same(e.out \o rest, (s.out \o first) \o rest)
      BY <3>1, <3>2, <3>3, <3>4, SameConcat
    <3>6. (s.out \o first) \o rest = s.out \o items
      BY <2>2, <3>1, <3>2, WrittenAssoc
    <3>7. Same(u.out \o u.pending, e.out \o rest)
      BY <2>5 DEF PushedOn
    <3> QED
      BY <3>5, <3>6, <3>7 DEF Same
  <2>7. PushedOn(b, s, items, u) /\ Good(b, u)
    BY <2>3, <2>5, <2>6 DEF PushedOn
  <2> QED
    BY <2>1, <2>7 DEF v
<1> QED
  BY <1>2, <1>3

(* A line, or a read that is not cut into lines. *)
LEMMA PiecePushes ==
  ASSUME NEW b \in Seen, NEW s, Good(b, s), rules \in RuleSets, interactive \in BOOLEAN,
         NEW items \in Seq(Unstyled)
  PROVE  LET v == PushPiece(s, items)
         IN Good(b, v) /\ (s.pending = <<>> => PushedOn(b, s, items, v))
<1> DEFINE switching == s.alternate \/ Enables(items)
           on == s.echoing /\ ~switching
           t == [s EXCEPT !.remainder = FALSE, !.split = FALSE, !.echoing = on]
           cut == SplitAt(t, items)
           more == cut < Len(items)
           echo == t.echoing \/ EndsInEcho(items) \/ HasColouredEcho(items, t.tail)
           u == [t EXCEPT !.split = more]
           v == PushPiece(s, items)
<1>1. v = IF interactive /\ ~switching /\ echo THEN PushEcho(t, items)
          ELSE Draw(u, items, cut, ~switching)
  BY DEF PushPiece
<1>2. HoldsBack(items, cut) /\ (interactive /\ (t.alternate \/ Enables(items)) => cut = Len(items))
  BY SplitFacts
<1> HIDE DEF cut
<1>3. s \in States /\ s.echoing \in BOOLEAN /\ s.alternate \in BOOLEAN
  BY DEF Good, States
<1>4. switching \in BOOLEAN /\ on \in BOOLEAN /\ more \in BOOLEAN
      /\ (switching <=> s.alternate \/ Enables(items))
  BY <1>3 DEF Enables
<1>5. t = Noted(s, FALSE, FALSE, on)
  BY DEF Noted
<1> HIDE DEF on, more, switching, t, echo, v
<1>6. Good(b, t) /\ t.out = s.out /\ t.alternate = s.alternate /\ t.pending = s.pending
  <2>1. FALSE \in BOOLEAN /\ Renoted(b, s, t)
    BY <1>4, <1>5, GoodNoted
  <2> QED
    BY <2>1 DEF Renoted
<1>7. Good(b, u) /\ u.out = t.out /\ u.alternate = t.alternate
  <2>1. t \in States
    BY <1>6 DEF Good
  <2>2. t.remainder \in BOOLEAN /\ t.echoing \in BOOLEAN
        /\ u = Noted(t, t.remainder, more, t.echoing)
    BY <2>1, NotedIs
  <2> HIDE DEF u
  <2> QED
    <3>1. Renoted(b, t, u)
      BY <1>4, <1>6, <2>2, GoodNoted
    <3> QED
      BY <3>1 DEF Renoted
<1> HIDE DEF u
<1>8. CASE interactive /\ ~switching /\ echo
  <2> DEFINE w == PushEcho(t, items)
  <2>1. v = w
    BY <1>1, <1>8
  <2>2. ~t.alternate /\ ~Enables(items)
    BY <1>4, <1>6, <1>8
  <2>3. Good(b, w) /\ (t.pending = <<>> => PushedOn(b, t, items, w))
    BY <1>6, <2>2, PushEchoPushes
  <2> HIDE DEF w
  <2> QED
    BY <1>6, <2>1, <2>3 DEF PushedOn, v
<1>9. CASE ~(interactive /\ ~switching /\ echo)
  <2> DEFINE follow == ~switching
             w == Draw(u, items, cut, follow)
  <2>1. v = w
    BY <1>1, <1>9
  <2>2. /\ follow \in BOOLEAN
        /\ (~follow /\ interactive => cut = Len(items) /\ (u.alternate \/ Enables(items)))
        /\ (follow => ~u.alternate /\ ~Enables(items))
    BY <1>2, <1>4, <1>6, <1>7
  <2> HIDE DEF follow
  <2>3. PushedOn(b, u, items, w)
    BY <1>2, <1>7, <2>2, DrawPushes
  <2> HIDE DEF w
  <2> QED
    BY <1>6, <1>7, <2>1, <2>3 DEF PushedOn, v
<1> QED
  BY <1>8, <1>9

(* What a call makes of what it was given. *)
Called(b, from, items, v) ==
  /\ Good(b, v) /\ Plainly(v) /\ Len(v.pending) <= HoldLimit
  /\ Same(v.out \o v.pending, from.out \o items)

(* The states that a call may go on from. *)
GoodStates(b) == {v \in States : Good(b, v)}

(* Lines are pushed one after the other. *)
LEMMA PushedFacts ==
  ASSUME NEW V, NEW s, s \in V /\ \A v \in V, p \in APiece : PushPiece(v, p) \in V
  PROVE  /\ Pushed(s, <<>>) = s
         /\ \A w \in Seq(APiece) : Pushed(s, w) \in V
         /\ \A w \in Seq(APiece), p \in APiece :
              Pushed(s, Append(w, p)) = PushPiece(Pushed(s, w), p)
BY PushPieceFolds

(* From a state that a call may go on from.                                *)
LEMMA PushedIs ==
  ASSUME NEW b \in Seen, NEW s, Good(b, s), rules \in RuleSets, interactive \in BOOLEAN
  PROVE  /\ Pushed(s, <<>>) = s
         /\ \A w \in Seq(APiece), p \in APiece :
              Pushed(s, Append(w, p)) = PushPiece(Pushed(s, w), p)
<1> DEFINE V == GoodStates(b)
<1>1. ASSUME NEW v \in V, NEW p \in APiece PROVE PushPiece(v, p) \in V
  <2> DEFINE u == PushPiece(v, p)
  <2>1. Good(b, v) /\ p \in Seq(Unstyled)
    BY DEF GoodStates, APiece
  <2>2. Good(b, u) /\ (v.pending = <<>> => PushedOn(b, v, p, u))
    BY <2>1, PiecePushes
  <2> HIDE DEF u
  <2>3. u \in V
    BY <2>2 DEF GoodStates, Good
  <2> QED
    BY <2>3 DEF u
<1>2. s \in V
  BY DEF GoodStates, Good
<1> HIDE DEF V
<1>3. s \in V /\ \A v \in V, p \in APiece : PushPiece(v, p) \in V
  BY <1>1, <1>2
<1>4. /\ Pushed(s, <<>>) = s
      /\ \A w \in Seq(APiece) : Pushed(s, w) \in V
      /\ \A w \in Seq(APiece), p \in APiece :
           Pushed(s, Append(w, p)) = PushPiece(Pushed(s, w), p)
  BY <1>3, PushedFacts
<1> QED
  BY <1>4

(* All the lines of a read. *)
LEMMA LinesPush ==
  ASSUME NEW b \in Seen, NEW s, Good(b, s), s.pending = <<>>, rules \in RuleSets,
         interactive \in BOOLEAN, NEW items \in Seq(Unstyled)
  PROVE  Called(b, s, items, Pushed(s, Pieces(items)))
<1> DEFINE S == {<<w, d>> : w \in Seq(APiece), d \in Seq(Unstyled)}
           Done(w, d) == LET v == Pushed(s, w)
                         IN Good(b, v) /\ v.pending = <<>> /\ Same(v.out, s.out \o d)
           R == {e \in S : Done(e[1], e[2])}
<1>1. s \in States /\ s.out \in Seq(Written) /\ Unstyled \subseteq Written
  BY UnstyledFacts DEF Good, States
<1> HIDE DEF S, Done, R
<1>2. /\ Pushed(s, <<>>) = s
      /\ \A w \in Seq(APiece), p \in APiece :
           Pushed(s, Append(w, p)) = PushPiece(Pushed(s, w), p)
  BY PushedIs
<1>3. ASSUME NEW w \in Seq(APiece), NEW d \in Seq(Unstyled)
      PROVE  <<w, d>> \in R <=> Done(w, d)
  <2>1. <<w, d>> \in S /\ <<w, d>>[1] = w /\ <<w, d>>[2] = d
    BY DEF S
  <2> QED
    BY <2>1 DEF R
<1>4. <<(<<>>), (<<>>)>> \in R
  <2>1. s.out \o <<>> = s.out /\ <<>> \in Seq(APiece) /\ <<>> \in Seq(Unstyled)
    BY <1>1
  <2>2. Done(<<>>, <<>>)
    BY <1>2, <2>1 DEF Done, Same
  <2> QED
    BY <1>3, <2>1, <2>2
<1>5. ASSUME NEW w \in Seq(APiece), NEW d \in Seq(Unstyled), NEW p \in APiece, Done(w, d)
      PROVE  LET v == Pushed(s, Append(w, p))
             IN Called(b, s, d \o p, v) /\ (p \in Whole => Done(Append(w, p), d \o p))
  <2> DEFINE u == Pushed(s, w)
             v == PushPiece(u, p)
             z == Pushed(s, Append(w, p))
  <2>1. Good(b, u) /\ u.pending = <<>> /\ Same(u.out, s.out \o d)
    BY <1>5 DEF Done
  <2>2. z = v
    BY <1>2
  <2>3. p \in Seq(Unstyled)
    BY DEF APiece
  <2> HIDE DEF u, z
  <2>4. Good(b, v) /\ (u.pending = <<>> => PushedOn(b, u, p, v))
    BY <2>1, <2>3, PiecePushes
  <2> HIDE DEF v
  <2>5. /\ Good(b, v) /\ Plainly(v) /\ Len(v.pending) <= HoldLimit
        /\ EndsBroken(p) => v.pending = <<>>
        /\ Same(v.out \o v.pending, u.out \o p)
    BY <2>1, <2>4 DEF PushedOn
  <2>6. Same(v.out \o v.pending, s.out \o (d \o p))
    <3>1. u.out \in Seq(Written) /\ d \in Seq(Written) /\ p \in Seq(Written)
      BY <1>1, <2>1, <2>3, UnstyledFacts DEF Good, States
    <3>2. s.out \o d \in Seq(Written) /\ Same(p, p)
      BY <1>1, <3>1 DEF Same
    <3>3. Same(u.out \o p, (s.out \o d) \o p)
      BY <2>1, <3>1, <3>2, SameConcat
    <3>4. (s.out \o d) \o p = s.out \o (d \o p)
      BY <1>1, <3>1, WrittenAssoc
    <3> QED
      BY <2>5, <3>3, <3>4 DEF Same
  <2>7. Called(b, s, d \o p, v)
    BY <2>5, <2>6 DEF Called
  <2>8. ASSUME p \in Whole PROVE Done(Append(w, p), d \o p)
    <3>1. EndsBroken(p)
      BY <2>8 DEF Whole, EndsBroken
    <3>2. v.pending = <<>> /\ v.out \in Seq(Written)
      BY <2>5, <3>1 DEF Good, States
    <3>3. v.out \o v.pending = v.out
      BY <3>2
    <3>4. Same(v.out, s.out \o (d \o p))
      BY <2>6, <3>3
    <3> QED
      BY <2>2, <2>5, <3>2, <3>4 DEF Done, z
  <2> QED
    BY <2>2, <2>7, <2>8 DEF z
<1>6. ASSUME NEW w \in Seq(APiece), NEW d \in Seq(Unstyled), NEW p \in Whole, <<w, d>> \in R
      PROVE  <<Append(w, p), d \o p>> \in R
  <2>1. p \in APiece /\ p \in Seq(Unstyled)
    BY DEF APiece, Whole
  <2>2. Done(w, d)
    BY <1>3, <1>6
  <2>3. Done(Append(w, p), d \o p)
    BY <1>5, <2>1, <2>2
  <2>4. Append(w, p) \in Seq(APiece) /\ d \o p \in Seq(Unstyled)
    BY <2>1
  <2> QED
    BY <1>3, <2>3, <2>4
<1>7. PICK w \in Seq(APiece), d \in Seq(Unstyled), p \in APiece :
        <<w, d>> \in R /\ Pieces(items) = Append(w, p) /\ items = d \o p
  BY <1>4, <1>6, PiecesInduct
<1>8. Done(w, d)
  BY <1>3, <1>7
<1>9. Called(b, s, d \o p, Pushed(s, Append(w, p)))
  BY <1>5, <1>8
<1> QED
  BY <1>7, <1>9

(* A read. *)
LEMMA ReadPushes ==
  ASSUME NEW b \in Seen, NEW s, Good(b, s), s.pending = <<>>, rules \in RuleSets,
         interactive \in BOOLEAN, NEW items \in Seq(Unstyled)
  PROVE  Called(b, s, items, PushCombined(s, items))
<1>1. \/ PushCombined(s, items) = Pushed(s, Pieces(items))
      \/ PushCombined(s, items) = PushPiece(s, items)
  BY DEF PushCombined, Pushed
<1>2. Called(b, s, items, Pushed(s, Pieces(items)))
  BY LinesPush
<1>3. Called(b, s, items, PushPiece(s, items))
  <2> DEFINE v == PushPiece(s, items)
  <2>1. Good(b, v) /\ (s.pending = <<>> => PushedOn(b, s, items, v))
    BY PiecePushes
  <2> HIDE DEF v
  <2>2. Called(b, s, items, v)
    BY <2>1 DEF PushedOn, Called
  <2> QED
    BY <2>2 DEF v
<1> QED
  BY <1>1, <1>2, <1>3

-----------------------------------------------------------------------------
(* The steps of the highlighter. *)

(* What the properties rest on. *)
Standing ==
  /\ HighlighterInv /\ DrawnAsMeant
  /\ reads \in Inputs /\ interactive \in BOOLEAN /\ rules \in RuleSets

(* Looking on finds faults of drawing alone. *)
LEMMA LookingOn ==
  ASSUME NEW b \in Seen, b.faults = {}
  PROVE  \A s \in Seq(Written) : Seeing(b, s).faults \cap {"text lost", "failed again"} = {}
<1> DEFINE None(q) == q.faults \cap {"text lost", "failed again"} = {}
           P == {s \in Seq(Written) : None(Seeing(b, s))}
<1>1. /\ Seeing(b, <<>>) = b
      /\ \A s \in Seq(Written) : Seeing(b, s) \in Seen
      /\ \A s \in Seq(Written), x \in Written : Seeing(b, Append(s, x)) = See(Seeing(b, s), x)
  BY SeenFacts
<1>2. ASSUME NEW q \in Seen, NEW x \in Written, None(q) PROVE None(See(q, x))
  <2>1. See(q, x).faults = q.faults \cup FaultsOf(q, x)
    BY SeeIs
  <2>2. FaultsOf(q, x) \cap {"text lost", "failed again"} = {}
    BY DEF FaultsOf
  <2> QED
    BY <1>2, <2>1, <2>2
<1>3. None(b)
  OBVIOUS
<1> HIDE DEF None
<1>4. <<>> \in P
  BY <1>1, <1>3
<1>5. ASSUME NEW s \in Seq(Written), NEW x \in Written, s \in P PROVE Append(s, x) \in P
  <2>1. Append(s, x) \in Seq(Written) /\ None(Seeing(b, s)) /\ Seeing(b, s) \in Seen
    BY <1>1, <1>5
  <2>2. None(See(Seeing(b, s), x))
    BY <1>2, <2>1
  <2> QED
    BY <1>1, <2>1, <2>2
<1>6. Seq(Written) \subseteq P
  <2> HIDE DEF P
  <2> QED
    BY <1>4, <1>5, EachSequence
<1> QED
  BY <1>6 DEF None

(* Between calls, a highlighter has nothing to write. *)
LEMMA HighlighterStates ==
  ASSUME NEW v
  PROVE  v \in Highlighter <=> v \in States /\ v.out = <<>> /\ v.errors = {}
<1>1. {Item(c) : c \in Words} = WordItems
  BY DEF WordItems
<1>2. <<>> \in Seq(Written) /\ {} \in SUBSET Rule
  OBVIOUS
<1> DEFINE P == Seq({Item(c) : c \in Words})
           W == Seq(Written)
           R == SUBSET Rule
<1>3. Highlighter =
        [pending : P, remainder : BOOLEAN, split : BOOLEAN, rewritten : BOOLEAN,
         alternate : BOOLEAN, echoing : BOOLEAN, tail : Line, native : Terminal,
         overlay : SUBSET Attributes, disabled : SUBSET Rule, out : {<<>>}, errors : {{}}]
  BY DEF Highlighter
<1>4. States =
        [pending : P, remainder : BOOLEAN, split : BOOLEAN, rewritten : BOOLEAN,
         alternate : BOOLEAN, echoing : BOOLEAN, tail : Line, native : Terminal,
         overlay : SUBSET Attributes, disabled : SUBSET Rule, out : W, errors : R]
  BY <1>1 DEF States
<1>5. <<>> \in W /\ {} \in R
  BY <1>2
<1> HIDE DEF P, W, R
<1> QED
  BY <1>3, <1>4, <1>5

(* Before a call, both terminals are as the highlighter has them. *)
LEMMA BeforeFacts ==
  ASSUME Standing
  PROVE  Before \in Seen /\ Before.faults = {} /\ Good(Before, h)
<1> DEFINE b == Before
<1>1. /\ h \in Highlighter /\ drawnLine \in [text : Line, edited : BOOLEAN]
      /\ terminal \in Terminal /\ own \in Terminal
  BY DEF Standing, HighlighterInv, TypeOK
<1>2. /\ b.terminal = terminal /\ b.own = own /\ b.line = drawnLine /\ b.faults = {}
      /\ b \in Seen
  BY <1>1 DEF Before, Seen, Standing, IsPrompt, Line
<1> HIDE DEF b
<1>3. h \in States /\ h.out = <<>> /\ h.errors = {}
  BY <1>1, HighlighterStates
<1>4. /\ h.native = own /\ (own.alt => h.alternate)
      /\ terminal.saved = own.saved /\ terminal.alt = own.alt
      /\ terminal.now = Over(own.now, h.overlay)
      /\ h.overlay # {} => interactive
      /\ failed \subseteq h.disabled
      /\ h.rewritten => drawnLine.edited /\ interactive /\ ~h.alternate
  BY DEF Standing, HighlighterInv, RenditionTracked, RuleFailsOnce, EditIsOfThisLine
<1>5. Seeing(b, <<>>) = b
  BY <1>2, SeenFacts
<1>6. Tracks(h.native, h.overlay, b)
  <2>1. /\ b.own = own /\ b.terminal.now = Over(own.now, h.overlay)
        /\ b.terminal.saved = own.saved /\ b.terminal.alt = own.alt
        /\ b.faults \cap DrawingFaults = {}
    BY <1>2, <1>4
  <2>2. own \in Terminal /\ b \in Seen
    BY <1>1, <1>2
  <2>3. Tracks(own, h.overlay, b)
    BY <2>1, <2>2, TracksIs
  <2> QED
    BY <1>4, <2>3
<1>7. Showing(b, h.out, h.native, h.overlay, h.alternate)
  BY <1>3, <1>4, <1>5, <1>6 DEF Showing, States
<1>8. Good(b, h)
  BY <1>2, <1>3, <1>4, <1>5, <1>7 DEF Good
<1> QED
  BY <1>2, <1>8 DEF b

(* And so they are after it. *)
LEMMA SettleKeeps ==
  ASSUME Standing, NEW s, NEW incoming, Good(Before, s), Plainly(s), Len(s.pending) <= HoldLimit,
         Same(s.out \o s.pending, incoming), Settle(s, incoming),
         UNCHANGED <<reads, interactive, full, rules>>, ended' \in BOOLEAN,
         s.overlay # {} => ~ended'
  PROVE  Standing'
<1> DEFINE b == Before
           q == Seeing(b, s.out)
           lost == WithoutSgr(s.out \o s.pending) # WithoutSgr(incoming)
<1>1. b \in Seen /\ b.faults = {}
  BY BeforeFacts
<1>2. /\ h' = [s EXCEPT !.out = <<>>, !.errors = {}]
      /\ terminal' = q.terminal /\ own' = q.own /\ drawnLine' = q.line
      /\ failed' = failed \cup s.errors
      /\ faults' = q.faults \cup (IF lost THEN {"text lost"} ELSE {})
           \cup (IF s.errors \cap failed # {} THEN {"failed again"} ELSE {})
  BY DEF Settle, Seeing
<1>3. /\ s \in States
      /\ Showing(b, s.out, s.native, s.overlay, s.alternate)
      /\ s.overlay # {} => interactive
      /\ s.errors \cap failed = {} /\ s.errors \cup failed \subseteq s.disabled
      /\ s.rewritten => q.line.edited /\ interactive /\ ~s.alternate
  BY DEF Good
<1>4. ~lost
  BY DEF Same
<1> HIDE DEF b, lost
<1>5. s.out \in Seq(Written) /\ s.native \in Terminal
  BY <1>3 DEF States
<1>6. q \in Seen /\ q.faults \cap {"text lost", "failed again"} = {}
  BY <1>1, <1>5, SeenFacts, LookingOn
<1>7. Tracks(s.native, s.overlay, q) /\ (s.native.alt => s.alternate)
  BY <1>3 DEF Showing
<1> HIDE DEF q
<1>8. /\ q.own = s.native
      /\ q.terminal.now = Over(s.native.now, s.overlay)
      /\ q.terminal.saved = s.native.saved /\ q.terminal.alt = s.native.alt
      /\ q.faults \cap DrawingFaults = {}
  BY <1>5, <1>6, <1>7, TracksIs
<1>9. faults' = q.faults
  BY <1>2, <1>3, <1>4
<1>10. /\ h'.pending = s.pending /\ h'.native = s.native /\ h'.overlay = s.overlay
       /\ h'.alternate = s.alternate /\ h'.disabled = s.disabled
       /\ h'.rewritten = s.rewritten /\ h'.tail = s.tail /\ h' \in Highlighter
  <2>1. {Item(c) : c \in Words} = WordItems
    BY DEF WordItems
  <2> QED
    BY <1>2, <1>3, <2>1 DEF States, Highlighter
<1>11. TypeOK'
  BY <1>2, <1>6, <1>9, <1>10 DEF TypeOK, Seen
<1>12. RenditionTracked'
  BY <1>2, <1>3, <1>7, <1>8, <1>10 DEF RenditionTracked
<1>13. PromptIsPlain'
  BY <1>10 DEF PromptIsPlain, Plainly
<1>14. EditIsOfThisLine'
  BY <1>2, <1>3, <1>10 DEF EditIsOfThisLine
<1>15. RuleFailsOnce'
  BY <1>2, <1>3, <1>6, <1>9, <1>10 DEF RuleFailsOnce
<1>16. DrawnAsMeant'
  BY <1>6, <1>8, <1>9 DEF DrawnAsMeant, DrawingFaults
<1> QED
  BY <1>11, <1>12, <1>13, <1>14, <1>15, <1>16 DEF Standing, HighlighterInv

(* It begins so. *)
LEMMA StandingInit == Init => Standing
<1> SUFFICES ASSUME Init PROVE Standing
  OBVIOUS
<1>1. NewTerminal \in Terminal /\ NoLine \in Line /\ HoldLimit \in Nat
  BY NewTerminalFacts, HighlighterAssumption DEF NoLine, Line
<1>2. /\ reads \in Inputs /\ interactive \in BOOLEAN /\ rules \in RuleSets
      /\ h = NewHighlighter /\ terminal = NewTerminal /\ own = NewTerminal
      /\ drawnLine = NewLine /\ ended = FALSE /\ failed = {} /\ faults = {}
  BY DEF Init
<1>3. /\ h.pending = <<>> /\ h.native = NewTerminal /\ h.overlay = {} /\ h.rewritten = FALSE
      /\ h.disabled = {} /\ h.tail = NoLine /\ h.alternate = FALSE
  BY <1>2 DEF NewHighlighter, NoSgr
<1>4. h \in Highlighter
  BY <1>1, <1>2 DEF NewHighlighter, NoSgr, Highlighter
<1>5. TypeOK
  <2>1. drawnLine \in [text : Line, edited : BOOLEAN]
    BY <1>1, <1>2 DEF NewLine
  <2>2. Len(h.pending) = 0
    BY <1>3
  <2>3. Len(h.pending) <= HoldLimit
    BY <1>1, <2>2
  <2> QED
    BY <1>1, <1>2, <1>4, <2>1, <2>3 DEF TypeOK
<1>6. RenditionTracked
  BY <1>1, <1>2, <1>3, OverNothing DEF RenditionTracked, NewTerminal
<1>7. PromptIsPlain /\ EditIsOfThisLine /\ RuleFailsOnce /\ DrawnAsMeant
  BY <1>2, <1>3 DEF PromptIsPlain, EditIsOfThisLine, RuleFailsOnce, DrawnAsMeant
<1> QED
  BY <1>2, <1>5, <1>6, <1>7 DEF Standing, HighlighterInv

(* What a call goes on with. *)
LEMMA HeldFacts ==
  ASSUME Standing
  PROVE  /\ h \in States /\ h.out = <<>> /\ h.errors = {} /\ h.pending \in Seq(WordItems)
         /\ h.pending \in Seq(Unstyled) /\ Len(h.pending) <= HoldLimit
         /\ Good(Before, [h EXCEPT !.pending = <<>>]) /\ Before \in Seen
<1>1. h \in States /\ h.out = <<>> /\ h.errors = {} /\ Len(h.pending) <= HoldLimit
  BY HighlighterStates DEF Standing, HighlighterInv, TypeOK
<1>2. h.pending \in Seq(WordItems) /\ h.pending \in Seq(Unstyled)
  BY <1>1, WordFacts DEF States
<1> DEFINE s == [h EXCEPT !.pending = <<>>]
<1>3. /\ s \in States /\ s.out = h.out /\ s.native = h.native /\ s.overlay = h.overlay
      /\ s.alternate = h.alternate /\ s.errors = h.errors /\ s.disabled = h.disabled
      /\ s.rewritten = h.rewritten
  BY <1>1 DEF States
<1> HIDE DEF s
<1>4. Good(Before, h) /\ Before \in Seen
  BY BeforeFacts
<1>5. Good(Before, s)
  BY <1>3, <1>4 DEF Good
<1> QED
  BY <1>1, <1>2, <1>4, <1>5 DEF s

(* What a read is made of. *)
LEMMA ReadFacts ==
  ASSUME Standing, NEW items \in reads
  PROVE  items \in Seq(Unstyled)
<1>1. items \in Seq(Reading)
  BY HighlighterAssumption DEF Standing
<1>2. Reading \subseteq Unstyled
  BY ReadingItems DEF Unstyled
<1> QED
  BY <1>1, <1>2

(* A read is pushed. *)
LEMMA PushKeeps == ASSUME Standing, Push PROVE Standing'
<1>1. PICK items \in reads :
        Settle(PushCombined([h EXCEPT !.pending = <<>>], h.pending \o items), h.pending \o items)
  BY DEF Push
<1> DEFINE s == [h EXCEPT !.pending = <<>>]
           all == h.pending \o items
           v == PushCombined(s, all)
<1>2. all \in Seq(Unstyled)
  BY HeldFacts, ReadFacts
<1>3. s.pending = <<>> /\ s.out = <<>> /\ Good(Before, s) /\ Before \in Seen
  BY HeldFacts DEF States
<1>4. rules \in RuleSets /\ interactive \in BOOLEAN
  BY DEF Standing
<1>5. Settle(v, all)
  BY <1>1
<1> HIDE DEF s, all
<1>6. Called(Before, s, all, v)
  BY <1>2, <1>3, <1>4, ReadPushes
<1> HIDE DEF v
<1>7. Same(v.out \o v.pending, all)
  <2>1. <<>> \o all = all
    BY <1>2
  <2> QED
    BY <1>3, <1>6, <2>1 DEF Called
<1>8. Good(Before, v) /\ Plainly(v) /\ Len(v.pending) <= HoldLimit
  BY <1>6 DEF Called
<1>9. /\ UNCHANGED <<reads, interactive, full, rules>> /\ ended' \in BOOLEAN /\ ~ended'
  BY DEF Push, Standing, HighlighterInv, TypeOK
<1> QED
  BY <1>5, <1>7, <1>8, <1>9, SettleKeeps

(* What is held back is drawn. *)
LEMMA FlushKeeps == ASSUME Standing, Flush PROVE Standing'
<1> DEFINE items == h.pending
           cut == Len(items)
           v == Draw(h, items, cut, TRUE)
<1>1. Settle(v, items) /\ UNCHANGED <<reads, interactive, full, rules>>
      /\ ended' \in BOOLEAN /\ ~ended'
  BY DEF Flush, Standing, HighlighterInv, TypeOK
<1>2. items \in Seq(WordItems) /\ items \in Seq(Unstyled) /\ h.out = <<>>
  BY HeldFacts
<1>3. Good(Before, h) /\ Before \in Seen
  BY BeforeFacts
<1>4. rules \in RuleSets /\ interactive \in BOOLEAN
  BY DEF Standing
<1> HIDE DEF items
<1>5. cut \in 0 .. Len(items) /\ SubSeq(items, 1, cut) = items
      /\ SubSeq(items, cut + 1, Len(items)) = <<>>
  BY <1>2
<1> HIDE DEF cut
<1>6. /\ SubSeq(items, cut + 1, Len(items)) \in Seq(WordItems) /\ TRUE \in BOOLEAN
      /\ (~TRUE /\ interactive => h.alternate \/ Enables(SubSeq(items, 1, cut)))
      /\ (TRUE => \/ SubSeq(items, 1, cut) \in Seq(WordItems)
                  \/ (~h.alternate /\ ~Enables(SubSeq(items, 1, cut))))
  BY <1>2, <1>5
<1>7. /\ Good(Before, v) /\ Plainly(v) /\ v.pending = SubSeq(items, cut + 1, Len(items))
      /\ Same(v.out \o v.pending, h.out \o items)
  <2> HIDE DEF v
  <2>1. Draw(h, items, cut, TRUE) = v
    BY DEF v
  <2> QED
    BY <1>2, <1>3, <1>4, <1>5, <1>6, <2>1, DrewDraw
<1> HIDE DEF v
<1>8. Same(v.out \o v.pending, items)
  <2>1. h.out \o items = items
    BY <1>2
  <2> QED
    BY <1>7, <2>1
<1>9. Len(v.pending) <= HoldLimit
  <2>1. Len(v.pending) = 0
    BY <1>5, <1>7
  <2> QED
    BY <2>1, HighlighterAssumption
<1> QED
  BY <1>1, <1>7, <1>8, <1>9, SettleKeeps

(* The highlight is ended before a wait. *)
LEMMA CloseKeeps == ASSUME Standing, Close PROVE Standing'
<1> DEFINE items == h.pending
           v == CloseOverlay(h)
<1>1. Settle(v, items) /\ UNCHANGED <<reads, interactive, full, rules>>
      /\ ended' \in BOOLEAN /\ ~ended'
  BY DEF Close, Standing, HighlighterInv, TypeOK
<1>2. items \in Seq(Unstyled) /\ h.out = <<>> /\ Len(items) <= HoldLimit
  BY HeldFacts
<1>3. Good(Before, h) /\ Before \in Seen
  BY BeforeFacts
<1>4. /\ Good(Before, v) /\ v.overlay = {} /\ v.pending = items /\ Same(v.out, h.out)
  BY <1>3, GoodClose
<1> HIDE DEF v, items
<1>5. Same(v.out \o v.pending, items)
  <2>1. v.out \in Seq(Written) /\ items \in Seq(Written) /\ <<>> \in Seq(Written)
    BY <1>2, <1>4, UnstyledFacts DEF Good, States
  <2>2. Same(v.out, <<>>) /\ Same(items, items)
    BY <1>2, <1>4 DEF Same
  <2>3. Same(v.out \o items, <<>> \o items)
    BY <2>1, <2>2, SameConcat
  <2>4. <<>> \o items = items
    BY <2>1
  <2> QED
    BY <1>4, <2>3, <2>4
<1>6. Plainly(v) /\ Len(v.pending) <= HoldLimit
  BY <1>2, <1>4 DEF Plainly
<1> QED
  BY <1>1, <1>4, <1>5, <1>6, SettleKeeps

(* Drawn words leave a line that was edited, one. *)
LEMMA GoodWords ==
  ASSUME NEW b \in Seen, NEW from, Good(b, from), NEW items \in Seq(WordItems), NEW s,
         Draws(b, from, items, s)
  PROVE  Good(b, s) /\ s.pending = from.pending /\ Same(s.out, from.out \o items)
<1>1. /\ s \in States /\ s.pending = from.pending
      /\ Keeping(b, from, items, s.out, s.alternate)
      /\ Showing(b, s.out, s.native, s.overlay, s.alternate)
      /\ s.overlay # {} => interactive
      /\ s.errors \cap failed = {} /\ s.errors \cup failed \subseteq s.disabled
      /\ s.rewritten => from.rewritten /\ interactive /\ ~s.alternate /\ ~Enables(items)
  BY DEF Draws, Fits
<1>2. from.rewritten \in BOOLEAN /\ (from.rewritten => ~from.alternate)
  BY DEF Good, States
<1>3. Marked(from.rewritten, items) = from.rewritten
  BY <1>2, MarkWords
<1>4. s.rewritten => Seeing(b, s.out).line.edited
  BY <1>1, <1>2, <1>3 DEF Keeping
<1>5. Same(s.out, from.out \o items)
  BY <1>1 DEF Keeping
<1> QED
  BY <1>1, <1>4, <1>5 DEF Good

(* The end of the stream. *)
LEMMA FinishKeeps == ASSUME Standing, Finish PROVE Standing'
<1> DEFINE items == h.pending
           s == [h EXCEPT !.pending = <<>>]
           u == Highlighted(s, items)
           v == CloseOverlay(u)
<1>1. Settle(v, items) /\ UNCHANGED <<reads, interactive, full, rules>> /\ ended' \in BOOLEAN
  BY DEF Finish
<1>2. /\ items \in Seq(WordItems) /\ items \in Seq(Unstyled)
      /\ Good(Before, s) /\ Before \in Seen /\ s.pending = <<>> /\ s.out = <<>>
  BY HeldFacts DEF States
<1>3. rules \in RuleSets
  BY DEF Standing
<1> HIDE DEF items, s
<1>4. Begins(s) /\ Draws(Before, s, <<>>, s)
  BY <1>2, GoodDraws
<1>5. Draws(Before, s, items, u)
  <2>1. Draws(Before, s, <<>> \o items, u)
    BY <1>2, <1>3, <1>4, DrawsHighlighted
  <2>2. <<>> \o items = items
    BY <1>2
  <2> QED
    BY <2>1, <2>2
<1> HIDE DEF u
<1>6. Draws(Before, s, items, v) /\ v.overlay = {}
  <2>1. Closed(Before, s, items, u, v)
    BY <1>2, <1>4, <1>5, ClosesDraws
  <2> QED
    BY <2>1 DEF Closed
<1> HIDE DEF v
<1>7. Good(Before, v) /\ v.pending = s.pending /\ Same(v.out, s.out \o items)
  BY <1>2, <1>6, GoodWords
<1>8. Same(v.out \o v.pending, items)
  <2>1. v.out \in Seq(Written)
    BY <1>7 DEF Good, States
  <2>2. v.out \o v.pending = v.out /\ s.out \o items = items
    BY <1>2, <1>7, <2>1
  <2> QED
    BY <1>7, <2>2
<1>9. Plainly(v) /\ Len(v.pending) <= HoldLimit
  <2>1. Len(v.pending) = 0
    BY <1>2, <1>7
  <2> QED
    BY <1>6, <2>1, HighlighterAssumption DEF Plainly
<1>10. v.overlay # {} => ~ended'
  BY <1>6
<1> QED
  BY <1>1, <1>7, <1>8, <1>9, <1>10, SettleKeeps

(* Other rules. *)
LEMMA ReplaceKeeps == ASSUME Standing, Replace PROVE Standing'
<1>1. /\ rules' \in RuleSets /\ faults' = {}
      /\ UNCHANGED <<reads, interactive, full, h, terminal, own, drawnLine, ended, failed>>
  BY DEF Replace
<1> QED
  BY <1>1 DEF Standing, HighlighterInv, TypeOK, RenditionTracked, PromptIsPlain,
              EditIsOfThisLine, RuleFailsOnce, DrawnAsMeant

(* And another configuration, with which a rule that failed is tried again. *)
LEMMA GenerationKeeps == ASSUME Standing, Generation PROVE Standing'
<1>1. /\ rules' \in RuleSets /\ h' = [h EXCEPT !.disabled = {}] /\ failed' = {} /\ faults' = {}
      /\ UNCHANGED <<reads, interactive, full, terminal, own, drawnLine, ended>>
  BY DEF Generation
<1>2. h \in Highlighter
  BY DEF Standing, HighlighterInv, TypeOK
<1>3. /\ h' \in Highlighter /\ h'.pending = h.pending /\ h'.native = h.native
      /\ h'.overlay = h.overlay /\ h'.alternate = h.alternate /\ h'.tail = h.tail
      /\ h'.rewritten = h.rewritten
  BY <1>1, <1>2 DEF Highlighter
<1> QED
  BY <1>1, <1>3 DEF Standing, HighlighterInv, TypeOK, RenditionTracked, PromptIsPlain,
                    EditIsOfThisLine, RuleFailsOnce, DrawnAsMeant

(* Every step keeps it. *)
LEMMA StandingNext == Standing /\ [Next]_vars => Standing'
<1> SUFFICES ASSUME Standing, [Next]_vars PROVE Standing'
  OBVIOUS
<1>1. CASE Push
  BY <1>1, PushKeeps
<1>2. CASE Flush
  BY <1>2, FlushKeeps
<1>3. CASE Close
  BY <1>3, CloseKeeps
<1>4. CASE Replace
  BY <1>4, ReplaceKeeps
<1>5. CASE Generation
  BY <1>5, GenerationKeeps
<1>6. CASE Finish
  BY <1>6, FinishKeeps
<1>7. CASE UNCHANGED vars
  BY <1>7 DEF vars, Standing, HighlighterInv, TypeOK, RenditionTracked, PromptIsPlain,
              EditIsOfThisLine, RuleFailsOnce, DrawnAsMeant
<1> QED
  BY <1>1, <1>2, <1>3, <1>4, <1>5, <1>6, <1>7 DEF Next

(* However reads, controls, screens, rules and configurations alternate, the   *)
(* terminal differs from one that is shown no highlights by the highlight      *)
(* that is open alone, in what it shows and in what it has saved.             *)
THEOREM HighlighterSafety == Spec => []HighlighterInv
<1>1. Standing => HighlighterInv
  BY DEF Standing
<1> QED
  BY StandingInit, StandingNext, <1>1, PTL DEF Spec

(* Each byte shows as it should, no highlight is spread, and nothing is lost.  *)
THEOREM DrawnRight == Spec => []DrawnAsMeant
<1>1. Standing => DrawnAsMeant
  BY DEF Standing
<1> QED
  BY StandingInit, StandingNext, <1>1, PTL DEF Spec
=============================================================================
