-------------------------- MODULE StreamLoopProofs --------------------------
(***************************************************************************)
(* The read loop for every setup and every limit: what it holds back, that *)
(* a named device is found, that a command is recorded before its output,  *)
(* and that it implements ByteRelay.                                       *)
(***************************************************************************)
EXTENDS StreamLoop, SequenceTheorems, WellFoundedInduction, TLAPS

-----------------------------------------------------------------------------
(* Sequences *)

(* A sequence cut in two. *)
LEMMA CutFacts ==
  ASSUME NEW S, NEW s \in Seq(S), NEW n \in 0..Len(s)
  PROVE  /\ SubSeq(s, 1, n) \in Seq(S) /\ Len(SubSeq(s, 1, n)) = n
         /\ \A i \in 1..n : SubSeq(s, 1, n)[i] = s[i]
         /\ Rest(s, n) \in Seq(S) /\ Len(Rest(s, n)) = Len(s) - n
         /\ \A i \in 1..(Len(s) - n) : Rest(s, n)[i] = s[n + i]
         /\ SubSeq(s, 1, n) \o Rest(s, n) = s
<1>1. SubSeq(s, 1, n) \in Seq(S) /\ Len(SubSeq(s, 1, n)) = n
      /\ \A i \in 1..n : SubSeq(s, 1, n)[i] = s[i]
  OBVIOUS
<1>2. Rest(s, n) \in Seq(S) /\ Len(Rest(s, n)) = Len(s) - n
      /\ \A i \in 1..(Len(s) - n) : Rest(s, n)[i] = s[n + i]
  BY DEF Rest
<1>3. SubSeq(s, 1, n) \o Rest(s, n) = s
  <2>0. 1 \in 1..(Len(s) + 1) /\ n \in (1 - 1)..Len(s) /\ Len(s) \in n..Len(s)
    OBVIOUS
  <2>1. SubSeq(s, 1, n) \o SubSeq(s, n + 1, Len(s)) = SubSeq(s, 1, Len(s))
    BY <2>0, ConcatAdjacentSubSeq
  <2> QED
    BY <2>1, SubSeqFull DEF Rest
<1> QED
  BY <1>1, <1>2, <1>3

(* A function on 1..n is a sequence. *)
LEMMA FunctionIsSeq ==
  ASSUME NEW S, NEW n \in Nat, NEW f \in [1..n -> S]
  PROVE  f \in Seq(S) /\ Len(f) = n
<1>1. f \in UNION {[1..m -> S] : m \in Nat}
  OBVIOUS
<1>2. f \in Seq(S)
  BY <1>1, SeqDef, Zenon
<1>3. Len(f) = n
  BY <1>2
<1> QED
  BY <1>2, <1>3

(* The numbers of a sequence of items, and of two. *)
LEMMA NumbersFacts ==
  ASSUME NEW s \in Seq(Items)
  PROVE  /\ Numbers(s) \in Seq(1..MaxOutput) /\ Len(Numbers(s)) = Len(s)
         /\ \A i \in 1..Len(s) : Numbers(s)[i] = s[i].id
<1>1. Numbers(s) = [i \in 1..Len(s) |-> s[i].id]
  BY DEF Numbers
<1>2. \A i \in 1..Len(s) : s[i].id \in 1..MaxOutput
  <2>1. \A item \in Items : item.id \in 1..MaxOutput
    BY DEF Items
  <2> QED
    BY <2>1
<1>3. Numbers(s) \in [1..Len(s) -> 1..MaxOutput] /\ Len(s) \in Nat
  <2> DEFINE N == 1..MaxOutput
  <2> HIDE DEF N
  <2> QED
    BY <1>1, <1>2 DEF N
<1>4. Numbers(s) \in Seq(1..MaxOutput) /\ Len(Numbers(s)) = Len(s)
  BY <1>3, FunctionIsSeq
<1> QED
  BY <1>1, <1>4

LEMMA NumbersConcat ==
  ASSUME NEW s \in Seq(Items), NEW t \in Seq(Items)
  PROVE  Numbers(s \o t) = Numbers(s) \o Numbers(t)
<1>1. s \o t \in Seq(Items) /\ Len(s \o t) = Len(s) + Len(t)
      /\ \A i \in 1..(Len(s) + Len(t)) :
           (s \o t)[i] = IF i <= Len(s) THEN s[i] ELSE t[i - Len(s)]
  BY ConcatProperties
<1>2. Numbers(s \o t) \in Seq(1..MaxOutput) /\ Len(Numbers(s \o t)) = Len(s) + Len(t)
      /\ \A i \in 1..(Len(s) + Len(t)) : Numbers(s \o t)[i] = (s \o t)[i].id
  BY <1>1, NumbersFacts
<1>3. /\ Numbers(s) \in Seq(1..MaxOutput) /\ Len(Numbers(s)) = Len(s)
      /\ \A i \in 1..Len(s) : Numbers(s)[i] = s[i].id
      /\ Numbers(t) \in Seq(1..MaxOutput) /\ Len(Numbers(t)) = Len(t)
      /\ \A i \in 1..Len(t) : Numbers(t)[i] = t[i].id
  BY NumbersFacts
<1>4. /\ Numbers(s) \o Numbers(t) \in Seq(1..MaxOutput)
      /\ Len(Numbers(s) \o Numbers(t)) = Len(s) + Len(t)
      /\ \A i \in 1..(Len(s) + Len(t)) : (Numbers(s) \o Numbers(t))[i] =
           IF i <= Len(s) THEN Numbers(s)[i] ELSE Numbers(t)[i - Len(s)]
  <2> DEFINE a == Numbers(s)
             b == Numbers(t)
             N == 1..MaxOutput
  <2>1. a \in Seq(N) /\ b \in Seq(N) /\ Len(a) = Len(s) /\ Len(b) = Len(t)
    BY <1>3
  <2> HIDE DEF a, b, N
  <2>2. /\ a \o b \in Seq(N) /\ Len(a \o b) = Len(a) + Len(b)
        /\ \A i \in 1 .. Len(a) + Len(b) : (a \o b)[i] = IF i <= Len(a) THEN a[i] ELSE b[i - Len(a)]
    BY <2>1, ConcatProperties
  <2>3. /\ a \o b \in Seq(N) /\ Len(a \o b) = Len(s) + Len(t)
        /\ \A i \in 1 .. Len(s) + Len(t) : (a \o b)[i] = IF i <= Len(s) THEN a[i] ELSE b[i - Len(s)]
    BY <2>1, <2>2
  <2> QED
    BY <2>3 DEF a, b, N
<1>5. ASSUME NEW i \in 1..(Len(s) + Len(t))
      PROVE  Numbers(s \o t)[i] = (Numbers(s) \o Numbers(t))[i]
  <2>1. CASE i <= Len(s)
    <3>1. i \in 1..Len(s)
      BY <2>1
    <3> QED
      BY <1>1, <1>2, <1>3, <1>4, <2>1, <3>1
  <2>2. CASE ~(i <= Len(s))
    <3>1. i - Len(s) \in 1..Len(t) /\ ~(i <= Len(s))
      BY <2>2
    <3>2. (s \o t)[i] = t[i - Len(s)]
      BY <1>1, <3>1
    <3>3. (Numbers(s) \o Numbers(t))[i] = Numbers(t)[i - Len(s)]
      BY <1>4, <3>1
    <3> QED
      BY <1>2, <1>3, <3>1, <3>2, <3>3
  <2> QED
    BY <2>1, <2>2
<1> DEFINE a == Numbers(s \o t)
           b == Numbers(s) \o Numbers(t)
           N == 1..MaxOutput
<1>6. /\ a \in Seq(N) /\ b \in Seq(N) /\ Len(a) = Len(b)
      /\ \A i \in 1..Len(a) : a[i] = b[i]
  <2>1. a \in Seq(N) /\ Len(a) = Len(s) + Len(t)
    BY <1>2
  <2>2. b \in Seq(N) /\ Len(b) = Len(s) + Len(t)
    BY <1>4
  <2>3. \A i \in 1..(Len(s) + Len(t)) : a[i] = b[i]
    BY <1>5
  <2> HIDE DEF a, b, N
  <2> QED
    BY <2>1, <2>2, <2>3
<1> HIDE DEF a, b, N
<1>7. a = b
  BY <1>6, SeqEqual
<1> QED
  BY <1>7 DEF a, b

(* The largest of some positions. *)
LEMMA LargestPosition ==
  ASSUME NEW n \in Nat, NEW T \in SUBSET (1..n), T # {}
  PROVE  Max(T) \in T /\ \A i \in T : i <= Max(T)
<1> DEFINE Less == {ss \in Nat \X Nat : ss[1] < ss[2]}
           U == {n - i : i \in T}
<1>1. IsWellFoundedOn(Less, Nat)
  BY NatLessThanWellFounded, Zenon DEF OpToRel
<1>5. U \subseteq Nat /\ U # {}
  <2>1. \A i \in T : i \in Nat /\ i <= n /\ n - i \in Nat
    OBVIOUS
  <2>2. PICK i \in T : TRUE
    OBVIOUS
  <2>3. n - i \in U
    OBVIOUS
  <2> QED
    BY <2>1, <2>3
<1>2. PICK m \in U : \A k \in U : <<k, m>> \notin Less
  <2> HIDE DEF Less, U
  <2> QED
    BY <1>1, <1>5, WFMin
<1>3. ASSUME NEW k \in U PROVE m <= k
  <2>1. k \in Nat /\ m \in Nat /\ <<k, m>> \notin Less
    <3> HIDE DEF Less, U
    <3> QED
      BY <1>2, <1>5
  <2> QED
    BY <2>1
<1>4. \E i \in T : \A j \in T : i >= j
  <2>1. PICK i \in T : m = n - i
    BY <1>2
  <2>2. ASSUME NEW j \in T PROVE i >= j
    <3>1. n - j \in U
      OBVIOUS
    <3> HIDE DEF U
    <3>2. m <= n - j
      BY <1>3, <3>1
    <3> QED
      BY <2>1, <3>2
  <2> QED
    BY <2>2
<1> QED
  BY <1>4 DEF Max
-----------------------------------------------------------------------------
(* Where a read and a push cut. *)

LEMMA OpenEscapeFacts ==
  ASSUME NEW s \in Seq(Items)
  PROVE  /\ BeforeOpenEscape(s) \in 0..Len(s) /\ BeforeOpenEscape(s) \in {Len(s), Len(s) - 1}
         /\ BeforeOpenEscape(s) = Len(s) => s = <<>> \/ s[Len(s)].byte # "e"
         /\ BeforeOpenEscape(s) # Len(s) => s # <<>> /\ s[Len(s)].byte = "e"
<1>1. s # <<>> => Len(s) > 0
  OBVIOUS
<1>2. Len(s) \in Nat
  OBVIOUS
<1> QED
  BY <1>1, <1>2 DEF BeforeOpenEscape, Last

LEMMA TokenFacts ==
  ASSUME NEW s \in Seq(Items)
  PROVE  /\ TokenStart(s) \in 0..Len(s)
         /\ \A i \in 1..Len(s) : i > TokenStart(s) => s[i].byte \in TokenBytes
<1> DEFINE others == {i \in DOMAIN s : s[i].byte \notin TokenBytes}
<1>1. Len(s) \in Nat /\ others \in SUBSET (1..Len(s))
  OBVIOUS
<1>2. CASE others = {}
  <2>1. TokenStart(s) = 0
    BY <1>2 DEF TokenStart
  <2>2. \A i \in 1..Len(s) : i \notin others
    BY <1>2
  <2> QED
    BY <1>1, <2>1, <2>2
<1>3. CASE others # {}
  <2>1. TokenStart(s) = Max(others)
    BY <1>3 DEF TokenStart
  <2>2. Max(others) \in others /\ \A i \in others : i <= Max(others)
    <3> HIDE DEF others
    <3> QED
      BY <1>1, <1>3, LargestPosition
  <2>3. ASSUME NEW i \in 1..Len(s), i > TokenStart(s) PROVE s[i].byte \in TokenBytes
    <3>1. Max(others) \in Nat /\ ~(i <= Max(others))
      BY <1>1, <2>1, <2>2, <2>3
    <3>2. i \notin others
      BY <2>2, <3>1
    <3> QED
      BY <3>2
  <2>4. TokenStart(s) \in 0..Len(s)
    BY <1>1, <2>1, <2>2
  <2> QED
    BY <2>3, <2>4
<1> QED
  BY <1>2, <1>3

LEMMA SplitFacts ==
  ASSUME NEW s \in Seq(Items)
  PROVE  /\ SplitAt(s) \in 0..Len(s)
         /\ BeforeOpenEscape(s) = Len(s) =>
              /\ Len(s) - SplitAt(s) <= TokenLimit
              /\ \A i \in 1..Len(s) : i > SplitAt(s) => s[i].byte \in TokenBytes
<1>1. Len(s) \in Nat /\ TokenLimit \in Nat
  BY LoopAssumption
<1>2. /\ TokenStart(s) \in 0..Len(s) /\ BeforeOpenEscape(s) \in 0..Len(s)
      /\ \A i \in 1..Len(s) : i > TokenStart(s) => s[i].byte \in TokenBytes
  BY TokenFacts, OpenEscapeFacts
<1> QED
  BY <1>1, <1>2 DEF SplitAt

(* What a push draws at, of the two it may choose from. *)
LEMMA PushFacts ==
  ASSUME NEW s \in Seq(Items), NEW n, n = SplitAt(s) \/ n = BeforeOpenEscape(s)
  PROVE  n \in 0..Len(s)
BY SplitFacts, OpenEscapeFacts

(* The echo that may be drawn is a first part of what is held back. *)
LEMMA EchoFacts ==
  ASSUME pending \in Seq(Items)
  PROVE  /\ BufferedEcho \in Seq(Items) /\ Len(BufferedEcho) \in 0..Len(pending)
         /\ BufferedEcho = SubSeq(pending, 1, Len(BufferedEcho))
<1>1. Len(pending) \in Nat /\ BeforeOpenEscape(pending) \in 0..Len(pending)
  BY OpenEscapeFacts
<1>2. CASE setup.interactive
  <2>1. BufferedEcho = SubSeq(pending, 1, BeforeOpenEscape(pending))
    BY <1>2 DEF BufferedEcho
  <2>2. BufferedEcho \in Seq(Items) /\ Len(BufferedEcho) = BeforeOpenEscape(pending)
    BY <1>1, <2>1, CutFacts
  <2> QED
    BY <1>1, <2>1, <2>2
<1>3. CASE ~setup.interactive
  <2>1. BufferedEcho = <<>>
    BY <1>3 DEF BufferedEcho
  <2> QED
    BY <1>1, <2>1
<1> QED
  BY <1>2, <1>3
-----------------------------------------------------------------------------
(* Types *)

LEMMA TypeKept == TypeOK /\ [Next]_vars => TypeOK'
<1> SUFFICES ASSUME TypeOK, [Next]_vars PROVE TypeOK'
  OBVIOUS
<1>a. MaxKeys \in Nat /\ MaxOutput \in Nat
  BY LoopAssumption
<1>b. /\ pty \in Seq(Items) /\ chunk \in Seq(Items) /\ carry \in Seq(Items)
      /\ pending \in Seq(Items) /\ outbuf \in Seq(Items) /\ screen \in Seq(1..MaxOutput)
  BY DEF TypeOK
<1>c. /\ typedKeys \in 0..MaxKeys /\ input \in Seq(Keys) /\ channel \in Seq(Keys)
      /\ fwd \notin {"read", "gone"} => key \in Keys
  BY DEF TypeOK
<1>d. DOMAIN pty = 1..Len(pty)
  BY <1>b
<1> USE DEF userVars, commandVars, fwdVars, readVars, renderVars, detectVars
<1>1. ASSUME NEW byte \in {"a", "s", "e", "f", "d", "p"}, NEW cause \in 0..MaxKeys, Emit(byte, cause)
      PROVE  pty' \in Seq(Items) /\ named' \in BOOLEAN
  <2>1. Len(screen) \in Nat /\ Len(outbuf \o pending \o chunk \o carry \o pty) \in Nat
    BY <1>b
  <2>2. Written + 1 \in 1..MaxOutput
    BY <1>1, <1>a, <2>1 DEF Emit, Written
  <2>3. [id |-> Written + 1, byte |-> byte, cause |-> cause] \in Items
    BY <2>2 DEF Items
  <2> QED
    BY <1>1, <1>b, <2>3 DEF Emit, TypeOK
<1>2. CASE Command
  <2>1. CASE Program
    <3>1. PICK byte \in {"a", "s", "e", "f", "d", "p"} : Emit(byte, 0)
      BY <2>1 DEF Program
    <3>2. pty' \in Seq(Items) /\ named' \in BOOLEAN
      <4>1. 0 \in 0..MaxKeys
        BY <1>a
      <4> QED
        BY <1>1, <3>1, <4>1
    <3> QED
      BY <2>1, <3>2 DEF Program, TypeOK
  <2>2. CASE ReadKey
    <3>1. input' \in Seq(Keys) /\ Head(input) \in Keys
      BY <1>c, <2>2 DEF ReadKey
    <3>2. Head(input).id \in 0..MaxKeys /\ 0 \in 0..MaxKeys
      BY <1>a, <3>1 DEF Keys
    <3>3. pty' \in Seq(Items) /\ named' \in BOOLEAN
      BY <1>1, <1>b, <2>2, <3>2 DEF ReadKey, TypeOK
    <3> QED
      BY <2>2, <3>1, <3>3 DEF ReadKey, TypeOK
  <2>3. CASE Exit
    BY <2>3 DEF Exit, TypeOK
  <2> QED
    BY <1>2, <2>1, <2>2, <2>3 DEF Command
<1>3. CASE Forwarder
  <2>1. CASE ForwardRead
    <3>1. typedKeys' \in 1..MaxKeys
      BY <1>a, <1>c, <2>1 DEF ForwardRead
    <3>2. key' \in Keys
      BY <1>a, <1>c, <2>1, <3>1 DEF ForwardRead, Keys
    <3> QED
      BY <1>a, <2>1, <3>1, <3>2 DEF ForwardRead, FwdStep, TypeOK
  <2>2. CASE ForwardSend
    <3>1. channel' \in Seq(Keys)
      BY <1>c, <2>2 DEF ForwardSend, FwdStep, SendKey
    <3> QED
      BY <1>c, <2>2, <3>1 DEF ForwardSend, FwdStep, TypeOK
  <2>3. CASE ForwardRecord
    BY <1>c, <2>3 DEF ForwardRecord, FwdStep, TypeOK
  <2>4. CASE ForwardWrite
    <3>1. input' \in Seq(Keys)
      <4>1. key \in Keys /\ (input' = input \/ input' = Append(input, key))
        BY <1>c, <2>4 DEF ForwardWrite, FwdStep
      <4> QED
        BY <1>c, <4>1
    <3>2. fwd' \in {"read", "gone"} /\ key' = None
      BY <2>4 DEF ForwardWrite, FwdStep
    <3>3. UNCHANGED <<setup, typedKeys, channel, commandVars, readVars, renderVars, detectVars>>
      BY <2>4 DEF ForwardWrite, FwdStep
    <3> QED
      BY <3>1, <3>2, <3>3 DEF TypeOK
  <2> QED
    BY <1>3, <2>1, <2>2, <2>3, <2>4 DEF Forwarder
<1>4. CASE Read
  <2>1. PICK n \in 1..Len(pty) :
          LET combined == carry \o SubSeq(pty, 1, n)
              whole == BeforeOpenEscape(combined)
          IN /\ pty' = Rest(pty, n)
             /\ chunk' = SubSeq(combined, 1, whole) /\ carry' = Rest(combined, whole)
    BY <1>4, <1>d DEF Read
  <2> DEFINE combined == carry \o SubSeq(pty, 1, n)
  <2>2. pty' \in Seq(Items) /\ combined \in Seq(Items)
    <3>1. Rest(pty, n) \in Seq(Items) /\ SubSeq(pty, 1, n) \in Seq(Items)
      BY <1>b, <2>1, CutFacts
    <3> QED
      BY <1>b, <2>1, <3>1
  <2>3. chunk' \in Seq(Items) /\ carry' \in Seq(Items)
    BY <2>1, <2>2, OpenEscapeFacts, CutFacts
  <2> QED
    BY <1>4, <2>2, <2>3 DEF Read, TypeOK
<1>5. CASE Observe
  <2>1. Len(chunk) \in Nat /\ channel' \in Seq(Keys)
    BY <1>5, <1>b DEF Observe, Drained
  <2>2. Extended \in [len : Nat, device : BOOLEAN]
    BY <2>1 DEF Extended, TypeOK
  <2>3. /\ sample' \in [len : Nat, device : BOOLEAN] /\ since' \in Nat
        /\ detecting' \in BOOLEAN /\ profile' \in {"generic", "device"}
    <3>1. CASE DetectFirst
      BY <2>2, <3>1 DEF DetectFirst, Detect, TypeOK
    <3>2. CASE DetectLater
      <4>1. since + Len(chunk) \in Nat
        BY <2>1 DEF TypeOK
      <4>2. CASE detecting /\ sample.len < SampleLimit
        <5>1. sample' = Extended /\ (since' = 0 \/ since' = since + Len(chunk))
          BY <3>2, <4>2, Zenon DEF DetectLater
        <5>2. Detect(Extended) \/ UNCHANGED profile
          BY <3>2, <4>2, Zenon DEF DetectLater
        <5>3. detecting' = (~Extended.device /\ Extended.len < SampleLimit) \/ detecting' = detecting
          BY <3>2, <4>2, Zenon DEF DetectLater
        <5>4. detecting' \in BOOLEAN
          BY <5>3, Zenon DEF TypeOK
        <5> HIDE DEF detectVars
        <5> QED
          BY <2>2, <4>1, <5>1, <5>2, <5>4 DEF Detect, TypeOK
      <4>3. CASE ~(detecting /\ sample.len < SampleLimit)
        BY <3>2, <4>3 DEF DetectLater, TypeOK
      <4> QED
        BY <4>2, <4>3
    <3> QED
      BY <1>5, <3>1, <3>2 DEF Observe
  <2> QED
    BY <1>5, <2>1, <2>3 DEF Observe, Elsewhere, TypeOK
<1>6. CASE Push
  <2> DEFINE combined == pending \o chunk
  <2>1. combined \in Seq(Items)
    BY <1>b
  <2>2. PICK n \in 0..Len(combined) :
          /\ outbuf' = outbuf \o SubSeq(combined, 1, n)
          /\ pending' = Rest(combined, n)
          /\ overlay' = (setup.interactive /\ (overlay \/ n > 0))
    <3> HIDE DEF combined
    <3> QED
      BY <1>6, <2>1, PushFacts DEF Push, combined
  <2>3. SubSeq(combined, 1, n) \in Seq(Items) /\ pending' \in Seq(Items)
    BY <2>1, <2>2, CutFacts
  <2>4. outbuf' \in Seq(Items)
    BY <1>b, <2>2, <2>3
  <2>5. overlay' \in BOOLEAN
    BY <2>2
  <2>6. pc' = "echo" /\ chunk' = <<>>
        /\ UNCHANGED <<setup, userVars, commandVars, fwdVars, channel, first, carry, screen, detectVars>>
    BY <1>6 DEF Push, Elsewhere
  <2> QED
    BY <2>3, <2>4, <2>5, <2>6 DEF TypeOK
<1>7. CASE DrawEcho \/ DrawRedraw \/ HoldbackEnds
  <2>1. DrawTail
    BY <1>7 DEF DrawEcho, DrawRedraw, HoldbackEnds
  <2>2. outbuf \o BufferedEcho \in Seq(Items) /\ Rest(pending, Len(BufferedEcho)) \in Seq(Items)
    BY <1>b, EchoFacts, CutFacts
  <2>3. screen' \in Seq(1..MaxOutput)
    <3>1. Numbers(outbuf \o BufferedEcho) \in Seq(1..MaxOutput)
      BY <2>2, NumbersFacts
    <3> QED
      BY <1>b, <2>1, <3>1 DEF DrawTail
  <2>4. overlay' \in BOOLEAN
    BY <2>1, LoopAssumption DEF DrawTail, TypeOK
  <2> QED
    BY <2>1, <2>2, <2>3, <2>4 DEF DrawTail, Elsewhere, TypeOK
<1>8. CASE KeepTail
  <2>1. screen' \in Seq(1..MaxOutput)
    <3>1. Numbers(outbuf) \in Seq(1..MaxOutput)
      BY <1>b, NumbersFacts
    <3> QED
      BY <1>8, <1>b, <3>1 DEF KeepTail, FlushBeforeWait
  <2>2. overlay' \in BOOLEAN
    BY <1>8 DEF KeepTail, FlushBeforeWait
  <2> QED
    BY <1>8, <2>1, <2>2 DEF KeepTail, FlushBeforeWait, Elsewhere, TypeOK
<1>9. CASE End
  BY <1>9 DEF End, Elsewhere, Detect, TypeOK
<1>10. CASE Finish
  <2>1. screen' \in Seq(1..MaxOutput)
    <3>1. outbuf \o Leftover \in Seq(Items)
      BY <1>b DEF Leftover
    <3>2. Numbers(outbuf \o Leftover) \in Seq(1..MaxOutput)
      BY <3>1, NumbersFacts
    <3> QED
      BY <1>10, <1>b, <3>2 DEF Finish
  <2>2. /\ outbuf' = <<>> /\ pending' = <<>> /\ carry' = <<>> /\ overlay' = FALSE /\ pc' = "over"
        /\ UNCHANGED <<setup, userVars, commandVars, fwdVars, channel, chunk, first, detectVars>>
    BY <1>10 DEF Finish, Elsewhere
  <2>3. {pty, chunk, carry, pending, outbuf}' \subseteq Seq(Items)
    BY <1>b, <2>2
  <2>4. overlay' \in BOOLEAN /\ pc' \in {"wait", "observe", "push", "echo", "finish", "over"}
    BY <2>2
  <2> HIDE DEF detectVars
  <2> QED
    BY <2>1, <2>2, <2>3, <2>4 DEF TypeOK, detectVars
<1>11. CASE UNCHANGED vars
  BY <1>11 DEF vars, TypeOK
<1> QED
  BY <1>2, <1>3, <1>4, <1>5, <1>6, <1>7, <1>8, <1>9, <1>10, <1>11 DEF Next, Loop
-----------------------------------------------------------------------------
(* What is on its way from the command to the screen *)

Grouped(x, y, z) == (x \o y) \o z = x \o (y \o z)

LEMMA Regroup ==
  ASSUME NEW S, NEW x \in Seq(S), NEW y \in Seq(S), NEW z \in Seq(S)
  PROVE  Grouped(x, y, z)
BY ConcatAssociative DEF Grouped

OnTop(x, a, b, c, d) == x \o (a \o b \o c \o d) = x \o a \o b \o c \o d

LEMMA FourOnTop ==
  ASSUME NEW S, NEW x \in Seq(S), NEW a \in Seq(S), NEW b \in Seq(S), NEW c \in Seq(S),
         NEW d \in Seq(S)
  PROVE  OnTop(x, a, b, c, d)
<1> DEFINE ab == a \o b
           abc == ab \o c
           xa == x \o a
<1>1. ab \in Seq(S) /\ abc \in Seq(S) /\ xa \in Seq(S)
  OBVIOUS
<1>2. x \o ab = xa \o b
  <2>1. Grouped(x, a, b)
    BY Regroup
  <2> QED
    BY <2>1, Zenon DEF Grouped
<1> HIDE DEF ab
<1>3. x \o abc = (x \o ab) \o c
  <2>1. Grouped(x, ab, c)
    BY <1>1, Regroup
  <2> QED
    BY <2>1, Zenon DEF Grouped
<1> HIDE DEF abc
<1>4. x \o (abc \o d) = (x \o abc) \o d
  <2>1. Grouped(x, abc, d)
    BY <1>1, Regroup
  <2> QED
    BY <2>1, Zenon DEF Grouped
<1> HIDE DEF xa
<1>5. x \o (abc \o d) = xa \o b \o c \o d
  BY <1>2, <1>3, <1>4, Zenon
<1> QED
  BY <1>5 DEF ab, abc, xa, OnTop

(* A read moves a cut and loses nothing. *)
NothingLost(h, c, p, n, w) ==
  LET combined == c \o SubSeq(p, 1, n)
  IN h \o SubSeq(combined, 1, w) \o Rest(combined, w) \o Rest(p, n) = h \o c \o p

LEMMA ReadKeepsOrder ==
  ASSUME NEW S, NEW h \in Seq(S), NEW c \in Seq(S), NEW p \in Seq(S), NEW n \in 0..Len(p),
         NEW w \in 0..Len(c \o SubSeq(p, 1, n))
  PROVE  NothingLost(h, c, p, n, w)
<1> DEFINE f == SubSeq(p, 1, n)
           r == Rest(p, n)
           combined == c \o f
           u == SubSeq(combined, 1, w)
           v == Rest(combined, w)
           hc == h \o c
<1>1. f \in Seq(S) /\ r \in Seq(S) /\ f \o r = p
  BY CutFacts
<1>0. f \in Seq(S) /\ r \in Seq(S)
  BY <1>1
<1>2. combined \in Seq(S) /\ w \in 0..Len(combined) /\ hc \in Seq(S)
  <2>1. w \in 0..Len(combined)
    OBVIOUS
  <2>2. hc \in Seq(S)
    OBVIOUS
  <2> HIDE DEF f
  <2>3. c \o f \in Seq(S)
    BY <1>0
  <2> QED
    BY <2>1, <2>2, <2>3
<1>3. u \in Seq(S) /\ v \in Seq(S) /\ u \o v = combined
  <2> HIDE DEF combined
  <2> QED
    BY <1>2, CutFacts
<1> HIDE DEF f, r
<1>8. u \in Seq(S) /\ v \in Seq(S)
  BY <1>3
<1> HIDE DEF u, v
<1>5. h \o combined = hc \o f
  <2>1. Grouped(h, c, f)
    BY <1>0, Regroup
  <2> QED
    BY <2>1, Zenon DEF Grouped
<1>6. hc \o f \o r = hc \o (f \o r)
  <2> HIDE DEF hc
  <2> QED
    <3>1. hc \in Seq(S)
      BY <1>2
    <3>2. Grouped(hc, f, r)
      BY <1>0, <3>1, Regroup
    <3> QED
      BY <3>2, Zenon DEF Grouped
<1> HIDE DEF combined, hc
<1>4. h \o u \o v = h \o (u \o v)
  <2>1. Grouped(h, u, v)
    BY <1>8, Regroup
  <2> QED
    BY <2>1, Zenon DEF Grouped
<1>7. h \o u \o v \o r = hc \o p
  BY <1>1, <1>3, <1>4, <1>5, <1>6, Zenon
<1> QED
  BY <1>7 DEF f, r, u, v, combined, hc, NothingLost

(* A push, or drawing a tail, moves a cut and loses nothing. *)
CutMoves(S, o, q, n) ==
  /\ o \o SubSeq(q, 1, n) \in Seq(S) /\ Rest(q, n) \in Seq(S)
  /\ (o \o SubSeq(q, 1, n)) \o Rest(q, n) = o \o q

LEMMA PushKeepsOrder ==
  ASSUME NEW S, NEW o \in Seq(S), NEW q \in Seq(S), NEW n \in 0..Len(q)
  PROVE  CutMoves(S, o, q, n)
<1> DEFINE u == SubSeq(q, 1, n)
           v == Rest(q, n)
<1>1. u \in Seq(S) /\ v \in Seq(S) /\ u \o v = q
  BY CutFacts
<1>0. u \in Seq(S) /\ v \in Seq(S)
  BY <1>1
<1> HIDE DEF u, v
<1>2. (o \o u) \o v = o \o (u \o v)
  <2>1. Grouped(o, u, v)
    BY <1>0, Regroup
  <2> QED
    BY <2>1, Zenon DEF Grouped
<1>3. o \o u \in Seq(S) /\ v \in Seq(S) /\ (o \o u) \o v = o \o q
  BY <1>1, <1>2
<1> QED
  BY <1>3 DEF u, v, CutMoves

LEMMA FlightIsSeq ==
  ASSUME TypeOK
  PROVE  /\ InFlight \in Seq(Items)
         /\ Len(InFlight) = Len(outbuf) + Len(pending) + Len(chunk) + Len(carry) + Len(pty)
         /\ Written = Len(screen) + Len(InFlight)
<1>1. /\ pty \in Seq(Items) /\ chunk \in Seq(Items) /\ carry \in Seq(Items)
      /\ pending \in Seq(Items) /\ outbuf \in Seq(Items) /\ screen \in Seq(1..MaxOutput)
  BY DEF TypeOK
<1>2. outbuf \o pending \in Seq(Items) /\ Len(outbuf \o pending) = Len(outbuf) + Len(pending)
  BY <1>1
<1>3. /\ outbuf \o pending \o chunk \in Seq(Items)
      /\ Len(outbuf \o pending \o chunk) = Len(outbuf) + Len(pending) + Len(chunk)
  BY <1>1, <1>2
<1>4. /\ outbuf \o pending \o chunk \o carry \in Seq(Items)
      /\ Len(outbuf \o pending \o chunk \o carry) = Len(outbuf) + Len(pending) + Len(chunk) + Len(carry)
  BY <1>1, <1>3
<1> QED
  BY <1>1, <1>4 DEF InFlight, Written

(* The three things that can happen to what is on its way. *)
Stays == InFlight' = InFlight /\ UNCHANGED <<screen, named>>

Grows ==
  /\ UNCHANGED screen
  /\ \E item \in Items :
       /\ InFlight' = Append(InFlight, item) /\ item.id = Written + 1
       /\ named' = (named \/ (item.byte = "d" /\ Written < SampleLimit))

Drawn ==
  /\ UNCHANGED named
  /\ \E x, y \in Seq(Items) :
       InFlight = x \o y /\ InFlight' = y /\ screen' = screen \o Numbers(x)

LEMMA KeyFacts ==
  ASSUME TypeOK
  PROVE  /\ typedKeys \in 0..MaxKeys /\ MaxKeys \in Nat /\ input \in Seq(Keys)
         /\ fwd \in {"send", "record", "write"} => key \in Keys
         /\ key # None => key \in Keys
         /\ key \in Keys => key # None /\ key.id \in 1..MaxKeys
BY LoopAssumption, NoneAssumption DEF TypeOK, Keys

LEMMA EmitItem ==
  ASSUME TypeOK, NEW byte \in {"a", "s", "e", "f", "d", "p"}, NEW cause \in 0..MaxKeys, Emit(byte, cause)
  PROVE  [id |-> Written + 1, byte |-> byte, cause |-> cause] \in Items
<1>1. Len(InFlight) \in Nat /\ Written = Len(screen) + Len(InFlight)
  BY FlightIsSeq
<1>2. Len(screen) \in Nat /\ MaxOutput \in Nat
  BY LoopAssumption DEF TypeOK
<1>3. Written \in Nat /\ MaxOutput \in Nat /\ Written < MaxOutput
  BY <1>1, <1>2 DEF Emit
<1> QED
  BY <1>3 DEF Items

LEMMA EmitGrows ==
  ASSUME TypeOK, NEW byte \in {"a", "s", "e", "f", "d", "p"}, NEW cause \in 0..MaxKeys,
         Emit(byte, cause), UNCHANGED <<outbuf, pending, chunk, carry, screen>>
  PROVE  Grows
<1> DEFINE item == [id |-> Written + 1, byte |-> byte, cause |-> cause]
           h == outbuf \o pending \o chunk \o carry
<1>1. /\ pty \in Seq(Items) /\ chunk \in Seq(Items) /\ carry \in Seq(Items)
      /\ pending \in Seq(Items) /\ outbuf \in Seq(Items)
  BY DEF TypeOK
<1>2. item \in Items
  BY EmitItem
<1>3. pty' = Append(pty, item) /\ named' = (named \/ (byte = "d" /\ Written < SampleLimit))
  BY DEF Emit
<1>4. h \in Seq(Items)
  BY <1>1
<1>5. InFlight = h \o pty /\ InFlight' = h \o pty'
  BY DEF InFlight
<1>6. item.id = Written + 1 /\ item.byte = byte
  OBVIOUS
<1> HIDE DEF item, h
<1>7. h \o Append(pty, item) = Append(h \o pty, item)
  BY <1>1, <1>2, <1>4
<1> QED
  BY <1>2, <1>3, <1>5, <1>6, <1>7 DEF Grows

(* Drawing the rendered bytes and n held-back items. *)
DrawsTo(n) ==
  /\ outbuf' = <<>> /\ pending' = Rest(pending, n)
  /\ UNCHANGED <<chunk, carry, pty, named>>
  /\ screen' = screen \o Numbers(outbuf \o SubSeq(pending, 1, n))

LEMMA DrawDrawn ==
  ASSUME TypeOK, NEW n \in 0..Len(pending), DrawsTo(n)
  PROVE  Drawn
<1> DEFINE x == outbuf \o SubSeq(pending, 1, n)
           r == Rest(pending, n)
           y == r \o chunk \o carry \o pty
<1>1. /\ pty \in Seq(Items) /\ chunk \in Seq(Items) /\ carry \in Seq(Items)
      /\ pending \in Seq(Items) /\ outbuf \in Seq(Items)
  BY DEF TypeOK
<1>2. x \in Seq(Items) /\ r \in Seq(Items) /\ x \o r = outbuf \o pending
  <2>1. outbuf \in Seq(Items) /\ pending \in Seq(Items)
    BY <1>1
  <2>2. CutMoves(Items, outbuf, pending, n)
    BY <2>1, PushKeepsOrder
  <2> QED
    BY <2>2, Zenon DEF CutMoves
<1>3. screen' = screen \o Numbers(x) /\ UNCHANGED named
  BY DEF DrawsTo
<1>4. InFlight' = y
  <2>1. <<>> \o r = r
    BY <1>2, ConcatEmptySeq
  <2>2. InFlight' = <<>> \o r \o chunk \o carry \o pty
    BY DEF InFlight, DrawsTo
  <2> QED
    BY <2>1, <2>2
<1>0. x \in Seq(Items) /\ r \in Seq(Items)
  BY <1>2
<1>5. y \in Seq(Items)
  <2> HIDE DEF r
  <2> QED
    BY <1>1, <1>0
<1>6. InFlight = x \o r \o chunk \o carry \o pty
  BY <1>2 DEF InFlight
<1> HIDE DEF x, r
<1>7. x \o y = x \o r \o chunk \o carry \o pty
  <2>1. r \in Seq(Items) /\ chunk \in Seq(Items) /\ carry \in Seq(Items)
        /\ pty \in Seq(Items) /\ x \in Seq(Items)
    BY <1>0, <1>1
  <2>2. OnTop(x, r, chunk, carry, pty)
    BY <2>1, FourOnTop
  <2> QED
    BY <2>2 DEF OnTop
<1> HIDE DEF y
<1> QED
  BY <1>0, <1>3, <1>4, <1>5, <1>6, <1>7, Zenon DEF Drawn

LEMMA FlightSteps ==
  ASSUME TypeOK, InHand, [Next]_vars
  PROVE  Stays \/ Grows \/ Drawn
<1>a. /\ pty \in Seq(Items) /\ chunk \in Seq(Items) /\ carry \in Seq(Items)
      /\ pending \in Seq(Items) /\ outbuf \in Seq(Items) /\ screen \in Seq(1..MaxOutput)
  BY DEF TypeOK
<1>b. DOMAIN pty = 1..Len(pty)
  BY <1>a
<1>c. outbuf \o pending \in Seq(Items)
  BY <1>a
<1>d. outbuf \in Seq(Items)
  BY <1>a
<1> USE DEF userVars, commandVars, fwdVars, readVars, renderVars, detectVars
<1>1. CASE Command
  <2>1. CASE Program
    <3>1. PICK byte \in {"a", "s", "e", "f", "d", "p"} : Emit(byte, 0)
      BY <2>1 DEF Program
    <3>2. 0 \in 0..MaxKeys /\ UNCHANGED <<outbuf, pending, chunk, carry, screen>>
      BY <2>1, LoopAssumption DEF Program
    <3> QED
      BY <3>1, <3>2, EmitGrows
  <2>2. CASE ReadKey
    <3>1. Head(input) \in Keys /\ MaxKeys \in Nat
      BY <2>2, KeyFacts DEF ReadKey
    <3>2. Head(input).id \in 0..MaxKeys /\ 0 \in 0..MaxKeys
      BY <3>1 DEF Keys
    <3>3. UNCHANGED <<outbuf, pending, chunk, carry, screen>>
      BY <2>2 DEF ReadKey
    <3>4. Emit("a", 0) \/ Emit("s", Head(input).id) \/ UNCHANGED <<pty, named>>
      BY <2>2 DEF ReadKey
    <3>5. CASE UNCHANGED <<pty, named>>
      BY <3>3, <3>5 DEF Stays, InFlight
    <3> QED
      BY <3>2, <3>3, <3>4, <3>5, EmitGrows
  <2>3. CASE Exit
    BY <2>3 DEF Exit, Stays, InFlight
  <2> QED
    BY <1>1, <2>1, <2>2, <2>3 DEF Command
<1>2. CASE Forwarder
  <2>1. UNCHANGED <<commandVars, readVars, renderVars>>
    BY <1>2 DEF Forwarder, ForwardRead, ForwardSend, ForwardRecord, ForwardWrite, FwdStep
  <2> QED
    BY <2>1 DEF Stays, InFlight
<1>3. CASE Read
  <2>1. PICK n \in 1..Len(pty) :
          LET combined == carry \o SubSeq(pty, 1, n)
              whole == BeforeOpenEscape(combined)
          IN /\ pty' = Rest(pty, n)
             /\ chunk' = SubSeq(combined, 1, whole) /\ carry' = Rest(combined, whole)
    BY <1>3, <1>b DEF Read
  <2> DEFINE combined == carry \o SubSeq(pty, 1, n)
             whole == BeforeOpenEscape(combined)
             h == outbuf \o pending
  <2>2. combined \in Seq(Items)
    <3>1. SubSeq(pty, 1, n) \in Seq(Items)
      BY <1>a, <2>1, CutFacts
    <3> QED
      BY <1>a, <2>1, <3>1
  <2>3. whole \in 0..Len(combined) /\ n \in 0..Len(pty) /\ h \in Seq(Items)
    <3>1. h \in Seq(Items) /\ n \in 0..Len(pty)
      BY <1>a, <2>1
    <3> HIDE DEF combined
    <3>2. whole \in 0..Len(combined)
      BY <2>2, OpenEscapeFacts
    <3> QED
      BY <3>1, <3>2
  <2>8. carry \in Seq(Items) /\ pty \in Seq(Items)
    BY <1>a
  <2>4. h \o SubSeq(combined, 1, whole) \o Rest(combined, whole) \o Rest(pty, n) = h \o carry \o pty
    <3> HIDE DEF h, whole
    <3>1. NothingLost(h, carry, pty, n, whole)
      BY <2>8, <2>3, ReadKeepsOrder
    <3> QED
      BY <3>1, Zenon DEF NothingLost
  <2>5. chunk = <<>> /\ UNCHANGED <<outbuf, pending, screen, named>>
    BY <1>3 DEF Read, InHand
  <2>6. InFlight = h \o carry \o pty
    <3>1. h \o <<>> = h
      BY <1>c, ConcatEmptySeq
    <3> QED
      BY <2>5, <3>1 DEF InFlight
  <2>7. InFlight' = h \o SubSeq(combined, 1, whole) \o Rest(combined, whole) \o Rest(pty, n)
    <3>1. /\ pty' = Rest(pty, n)
          /\ chunk' = SubSeq(combined, 1, whole) /\ carry' = Rest(combined, whole)
      BY <2>1
    <3> HIDE DEF whole, combined
    <3> QED
      BY <2>5, <3>1, Zenon DEF InFlight
  <2> QED
    BY <2>4, <2>5, <2>6, <2>7 DEF Stays
<1>4. CASE Observe
  BY <1>4 DEF Observe, Elsewhere, Stays, InFlight
<1>5. CASE Push
  <2> DEFINE combined == pending \o chunk
  <2>1. combined \in Seq(Items)
    BY <1>a
  <2>2. PICK n \in 0..Len(combined) :
          outbuf' = outbuf \o SubSeq(combined, 1, n) /\ pending' = Rest(combined, n)
    <3> HIDE DEF combined
    <3> QED
      BY <1>5, <2>1, PushFacts DEF Push, combined
  <2>3. chunk' = <<>> /\ UNCHANGED <<carry, pty, screen, named>>
    BY <1>5 DEF Push, Elsewhere
  <2>4. outbuf' \o pending' = outbuf \o combined /\ outbuf' \o pending' \in Seq(Items)
    <3> HIDE DEF combined
    <3>0. n \in 0..Len(combined)
      BY <2>2
    <3>1. outbuf \o SubSeq(combined, 1, n) \o Rest(combined, n) = outbuf \o combined
      <4>1. CutMoves(Items, outbuf, combined, n)
        BY <1>d, <2>1, <3>0, PushKeepsOrder
      <4> QED
        BY <4>1, Zenon DEF CutMoves
    <3>2. outbuf' \o pending' = outbuf \o combined
      BY <2>2, <3>1, Zenon
    <3>3. outbuf \o combined \in Seq(Items)
      BY <1>a, <2>1
    <3> QED
      BY <3>2, <3>3, Zenon
  <2>5. outbuf \o combined = outbuf \o pending \o chunk
    <3>1. Grouped(outbuf, pending, chunk)
      BY <1>a, Regroup
    <3> QED
      BY <3>1, Zenon DEF Grouped
  <2>6. outbuf' \o pending' \o chunk' = outbuf \o pending \o chunk
    BY <2>3, <2>4, <2>5, ConcatEmptySeq
  <2> QED
    BY <2>3, <2>6 DEF Stays, InFlight
<1>6. CASE DrawTail
  <2>1. Len(BufferedEcho) \in 0..Len(pending) /\ BufferedEcho = SubSeq(pending, 1, Len(BufferedEcho))
    BY <1>a, EchoFacts
  <2>2. DrawsTo(Len(BufferedEcho))
    BY <1>6, <2>1 DEF DrawTail, Elsewhere, DrawsTo
  <2> HIDE DEF BufferedEcho
  <2> QED
    BY <2>1, <2>2, DrawDrawn
<1>7. CASE KeepTail
  <2>1. 0 \in 0..Len(pending) /\ SubSeq(pending, 1, 0) = <<>> /\ Rest(pending, 0) = pending
    <3>1. SubSeq(pending, 1, 0) = <<>>
      BY SubSeqEmpty
    <3>2. SubSeq(pending, 1, Len(pending)) = pending
      BY <1>a, SubSeqFull
    <3> QED
      BY <1>a, <3>1, <3>2 DEF Rest
  <2>2. outbuf \o <<>> = outbuf
    BY <1>a, ConcatEmptySeq
  <2>3. DrawsTo(0)
    BY <1>7, <2>1, <2>2 DEF KeepTail, FlushBeforeWait, Elsewhere, DrawsTo
  <2> QED
    BY <2>1, <2>3, DrawDrawn
<1>8. CASE End
  BY <1>8 DEF End, Elsewhere, Stays, InFlight
<1>9. CASE Finish
  <2> DEFINE x == outbuf \o Leftover
  <2>1. chunk = <<>> /\ pty = <<>>
    BY <1>9 DEF Finish, InHand
  <2>2. /\ outbuf' = <<>> /\ pending' = <<>> /\ carry' = <<>> /\ chunk' = <<>> /\ pty' = <<>>
        /\ UNCHANGED named /\ screen' = screen \o Numbers(x)
    BY <1>9, <2>1 DEF Finish, Elsewhere
  <2>3. x \in Seq(Items) /\ x = outbuf \o pending \o carry
    <3>1. outbuf \o (pending \o carry) = outbuf \o pending \o carry
      <4>1. Grouped(outbuf, pending, carry)
        BY <1>a, Regroup
      <4> QED
        BY <4>1, Zenon DEF Grouped
    <3> QED
      BY <1>a, <3>1 DEF Leftover
  <2>4. InFlight = x \o <<>> /\ InFlight = x
    <3>1. outbuf \o pending \o <<>> = outbuf \o pending
      BY <1>c, ConcatEmptySeq
    <3>2. InFlight = outbuf \o pending \o carry \o <<>>
      BY <2>1, <3>1 DEF InFlight
    <3>3. x \o <<>> = x
      <4> HIDE DEF x
      <4> QED
        BY <2>3, ConcatEmptySeq
    <3> QED
      BY <2>3, <3>2, <3>3
  <2>5. InFlight' = <<>>
    <3>1. <<>> \in Seq(Items)
      OBVIOUS
    <3>2. <<>> \o <<>> = <<>>
      BY <3>1, ConcatEmptySeq
    <3>3. InFlight' = <<>> \o <<>> \o <<>> \o <<>> \o <<>>
      BY <2>2 DEF InFlight
    <3> QED
      BY <3>2, <3>3
  <2>6. <<>> \in Seq(Items)
    OBVIOUS
  <2> HIDE DEF x
  <2> QED
    BY <2>2, <2>3, <2>4, <2>5, <2>6 DEF Drawn
<1>10. CASE UNCHANGED vars
  BY <1>10 DEF vars, Stays, InFlight
<1>11. DrawEcho \/ DrawRedraw \/ HoldbackEnds => DrawTail
  BY DEF DrawEcho, DrawRedraw, HoldbackEnds
<1> QED
  BY <1>1, <1>2, <1>3, <1>4, <1>5, <1>6, <1>7, <1>8, <1>9, <1>10, <1>11 DEF Next, Loop
-----------------------------------------------------------------------------
(* The parts of the invariant *)

LEMMA Sequences ==
  ASSUME TypeOK
  PROVE  /\ pty \in Seq(Items) /\ chunk \in Seq(Items) /\ carry \in Seq(Items)
         /\ pending \in Seq(Items) /\ outbuf \in Seq(Items) /\ screen \in Seq(1..MaxOutput)
         /\ DOMAIN pty = 1..Len(pty)
BY DEF TypeOK

Draw == DrawTail /\ pc \in {"echo", "wait"}

(* What leaves the read, the output and the detection alone. *)
LEMMA Asides ==
  ASSUME [Next]_vars
  PROVE  \/ Program \/ ReadKey \/ Read \/ Observe \/ Push \/ Draw \/ KeepTail \/ End \/ Finish
         \/ UNCHANGED <<setup, pty, last, named, readVars, renderVars, detectVars>> /\ (over => over')
BY DEF Next, Command, Forwarder, Loop, ForwardRead, ForwardSend, ForwardRecord, ForwardWrite,
       FwdStep, Exit, Draw, DrawEcho, DrawRedraw, HoldbackEnds, vars, commandVars

LEMMA InHandKept == TypeOK /\ InHand /\ [Next]_vars => InHand'
<1> SUFFICES ASSUME TypeOK, InHand, [Next]_vars PROVE InHand'
  OBVIOUS
<1> USE DEF commandVars, readVars, renderVars, InHand
<1>1. CASE Program \/ ReadKey
  BY <1>1 DEF Program, ReadKey
<1>2. CASE Read
  BY <1>2 DEF Read
<1>3. CASE Observe
  BY <1>3 DEF Observe
<1>4. CASE Push
  BY <1>4 DEF Push
<1>5. CASE Draw
  BY <1>5 DEF Draw, DrawTail, Elsewhere
<1>6. CASE KeepTail
  BY <1>6 DEF KeepTail, Elsewhere
<1>7. CASE End
  BY <1>7 DEF End, Elsewhere
<1>8. CASE Finish
  BY <1>8 DEF Finish, Elsewhere
<1>9. CASE UNCHANGED <<setup, pty, last, named, readVars, renderVars, detectVars>> /\ (over => over')
  BY <1>9
<1> QED
  BY <1>1, <1>2, <1>3, <1>4, <1>5, <1>6, <1>7, <1>8, <1>9, Asides

LEMMA HeldIsTokenKept == TypeOK /\ HeldIsToken /\ EscapesAreWhole /\ [Next]_vars => HeldIsToken'
<1> SUFFICES ASSUME TypeOK, HeldIsToken, EscapesAreWhole, [Next]_vars PROVE HeldIsToken'
  OBVIOUS
<1>a. /\ Len(pending) \in Nat /\ TokenLimit \in Nat /\ Len(pending) <= TokenLimit
      /\ \A i \in 1..Len(pending) : pending[i].byte \in TokenBytes
  BY LoopAssumption, Sequences DEF HeldIsToken
<1>0. CASE pending' = pending
  BY <1>a, <1>0 DEF HeldIsToken
<1>1. CASE Push
  <2> DEFINE combined == pending \o chunk
  <2>1. combined \in Seq(Items) /\ Len(combined) = Len(pending) + Len(chunk)
        /\ \A i \in 1..Len(combined) : combined[i] = IF i <= Len(pending) THEN pending[i] ELSE chunk[i - Len(pending)]
    BY Sequences
  <2>2. combined = <<>> \/ combined[Len(combined)].byte # "e"
    <3>1. CASE chunk = <<>>
      <4>1. CASE pending = <<>>
        BY <2>1, <3>1, <4>1
      <4>2. CASE pending # <<>>
        <5>1. Len(pending) \in 1..Len(pending) /\ Len(combined) = Len(pending)
          BY <2>1, <3>1, <4>2, Sequences
        <5> HIDE DEF combined
        <5>2. combined[Len(combined)] = pending[Len(pending)]
          BY <2>1, <5>1
        <5>3. pending[Len(pending)].byte \in TokenBytes
          BY <1>a, <5>1
        <5> QED
          BY <5>2, <5>3 DEF TokenBytes
      <4> QED
        BY <4>1, <4>2
    <3>2. CASE chunk # <<>>
      <4>1. Len(chunk) \in 1..Len(chunk) /\ chunk[Len(chunk)].byte # "e"
        BY <3>2, Sequences DEF EscapesAreWhole, Last
      <4>2. Len(combined) \in 1..Len(combined) /\ ~(Len(combined) <= Len(pending))
            /\ Len(combined) - Len(pending) = Len(chunk)
        BY <1>a, <2>1, <4>1
      <4> HIDE DEF combined
      <4>3. combined[Len(combined)] = chunk[Len(chunk)]
        BY <2>1, <4>2
      <4> QED
        BY <4>1, <4>3
    <3> QED
      BY <3>1, <3>2
  <2> HIDE DEF combined
  <2>3. BeforeOpenEscape(combined) = Len(combined)
    BY <2>1, <2>2, OpenEscapeFacts
  <2>4. PICK n : (n = SplitAt(combined) \/ n = BeforeOpenEscape(combined)) /\ pending' = Rest(combined, n)
    BY <1>1 DEF Push, combined
  <2>5. n \in 0..Len(combined) /\ Len(combined) - n <= TokenLimit
        /\ \A i \in 1..Len(combined) : i > n => combined[i].byte \in TokenBytes
    <3>1. CASE n = SplitAt(combined)
      BY <2>1, <2>3, <3>1, SplitFacts
    <3>2. CASE n = BeforeOpenEscape(combined)
      BY <1>a, <2>1, <2>3, <3>2
    <3> QED
      BY <2>4, <3>1, <3>2
  <2>6. Len(pending') = Len(combined) - n /\ \A i \in 1..(Len(combined) - n) : pending'[i] = combined[n + i]
    BY <2>1, <2>4, <2>5, CutFacts
  <2>7. ASSUME NEW i \in 1..Len(pending') PROVE pending'[i].byte \in TokenBytes
    <3>1. n + i \in 1..Len(combined) /\ n + i > n /\ i \in 1..(Len(combined) - n)
      BY <2>1, <2>5, <2>6
    <3> QED
      BY <2>5, <2>6, <3>1
  <2> QED
    BY <2>5, <2>6, <2>7 DEF HeldIsToken
<1>2. CASE Draw
  <2> DEFINE n == Len(BufferedEcho)
  <2>1. n \in 0..Len(pending) /\ pending' = Rest(pending, n) /\ pending \in Seq(Items)
    BY <1>2, EchoFacts, Sequences DEF Draw, DrawTail
  <2> HIDE DEF n
  <2>2. Len(pending') = Len(pending) - n /\ \A i \in 1..(Len(pending) - n) : pending'[i] = pending[n + i]
    BY <2>1, CutFacts
  <2>3. ASSUME NEW i \in 1..Len(pending') PROVE pending'[i].byte \in TokenBytes
    <3>1. n + i \in 1..Len(pending) /\ i \in 1..(Len(pending) - n)
      BY <1>a, <2>1, <2>2
    <3> QED
      BY <1>a, <2>2, <3>1
  <2>4. Len(pending') <= TokenLimit
    BY <1>a, <2>1, <2>2
  <2> QED
    BY <2>3, <2>4 DEF HeldIsToken
<1>3. CASE Finish
  <2>1. pending' = <<>>
    BY <1>3 DEF Finish
  <2> QED
    BY <1>a, <2>1 DEF HeldIsToken
<1>4. pending' = pending \/ Push \/ Draw \/ Finish
  BY Asides DEF Program, ReadKey, Read, Observe, KeepTail, End, Elsewhere, renderVars
<1> QED
  BY <1>0, <1>1, <1>2, <1>3, <1>4

(* Whole escape sequences, for a sequence that is still being written. *)
Whole(s, end) ==
  \A i \in 1..Len(s) :
    s[i].byte = "e" => IF i = Len(s) THEN end = "e" ELSE s[i + 1].byte = "f"

LEMMA WholeGrows ==
  ASSUME NEW s \in Seq(Items), NEW end, Whole(s, end), NEW item \in Items,
         end = "e" => item.byte = "f"
  PROVE  Whole(Append(s, item), item.byte)
<1> DEFINE t == Append(s, item)
<1>1. /\ Len(t) = Len(s) + 1 /\ Len(s) \in Nat /\ t[Len(s) + 1] = item
      /\ \A i \in 1..Len(s) : t[i] = s[i]
  OBVIOUS
<1> HIDE DEF t
<1>2. ASSUME NEW i \in 1..Len(t), t[i].byte = "e"
      PROVE  IF i = Len(t) THEN item.byte = "e" ELSE t[i + 1].byte = "f"
  <2>1. CASE i = Len(t)
    BY <1>1, <1>2, <2>1
  <2>2. CASE i # Len(t)
    <3>1. i \in 1..Len(s) /\ s[i].byte = "e"
      BY <1>1, <1>2, <2>2
    <3>2. CASE i = Len(s)
      BY <1>1, <2>2, <3>1, <3>2 DEF Whole
    <3>3. CASE i # Len(s)
      <4>1. i + 1 \in 1..Len(s) /\ s[i + 1].byte = "f"
        BY <1>1, <3>1, <3>3 DEF Whole
      <4> QED
        BY <1>1, <2>2, <4>1
    <3> QED
      BY <3>2, <3>3
  <2> QED
    BY <2>1, <2>2
<1>3. Whole(t, item.byte)
  BY <1>2 DEF Whole
<1> QED
  BY <1>3 DEF t

LEMMA EmitWhole ==
  ASSUME TypeOK, EscapesAreWhole, NEW byte \in {"a", "s", "e", "f", "d", "p"}, NEW cause \in 0..MaxKeys,
         Emit(byte, cause), last = "e" => byte = "f", UNCHANGED <<chunk, carry>>
  PROVE  EscapesAreWhole'
<1> DEFINE item == [id |-> Written + 1, byte |-> byte, cause |-> cause]
<1>1. pty \in Seq(Items) /\ carry \in Seq(Items) /\ Unread \in Seq(Items) /\ Whole(Unread, last)
  <2>1. pty \in Seq(Items) /\ carry \in Seq(Items)
    BY Sequences
  <2>2. Unread \in Seq(Items)
    BY <2>1 DEF Unread
  <2> QED
    BY <2>1, <2>2 DEF EscapesAreWhole, Whole
<1>2. item \in Items
  BY EmitItem
<1>3. pty' = Append(pty, item) /\ last' = byte
  BY DEF Emit
<1>4. item.byte = byte
  OBVIOUS
<1> HIDE DEF item
<1>5. Unread' = Append(Unread, item)
  <2>1. carry \o Append(pty, item) = Append(carry \o pty, item)
    BY <1>1, <1>2
  <2> QED
    BY <1>3, <2>1 DEF Unread
<1>6. Whole(Unread', last')
  BY <1>1, <1>2, <1>3, <1>4, <1>5, WholeGrows
<1> QED
  BY <1>6 DEF EscapesAreWhole, Whole

LEMMA EscapesAreWholeKept == TypeOK /\ InHand /\ EscapesAreWhole /\ [Next]_vars => EscapesAreWhole'
<1> SUFFICES ASSUME TypeOK, InHand, EscapesAreWhole, [Next]_vars PROVE EscapesAreWhole'
  OBVIOUS
<1>0. CASE UNCHANGED <<carry, pty, last>> /\ (chunk' = chunk \/ chunk' = <<>>)
  <2>1. CASE chunk' = chunk
    BY <1>0, <2>1 DEF EscapesAreWhole, Unread
  <2>2. CASE chunk' = <<>>
    BY <1>0, <2>2 DEF EscapesAreWhole, Unread
  <2> QED
    BY <1>0, <2>1, <2>2
<1>1. CASE Program
  <2>1. PICK byte \in {"a", "s", "e", "f", "d", "p"} : (byte = "f") = (last = "e") /\ Emit(byte, 0)
    BY <1>1 DEF Program
  <2>2. 0 \in 0..MaxKeys /\ UNCHANGED <<chunk, carry>>
    BY <1>1, LoopAssumption DEF Program, readVars
  <2>3. last = "e" => byte = "f"
    BY <2>1
  <2> QED
    BY <2>1, <2>2, <2>3, EmitWhole
<1>2. CASE ReadKey
  <2>1. Head(input) \in Keys /\ MaxKeys \in Nat
    BY <1>2, KeyFacts DEF ReadKey
  <2>2. Head(input).id \in 0..MaxKeys /\ 0 \in 0..MaxKeys
    BY <2>1 DEF Keys
  <2>3. last # "e" /\ UNCHANGED <<chunk, carry>>
    BY <1>2 DEF ReadKey, readVars
  <2>4. Emit("a", 0) \/ Emit("s", Head(input).id) \/ UNCHANGED <<pty, last>>
    BY <1>2 DEF ReadKey
  <2>5. CASE UNCHANGED <<pty, last>>
    BY <1>0, <2>3, <2>5
  <2> QED
    BY <2>2, <2>3, <2>4, <2>5, EmitWhole
<1>3. CASE Read
  <2>1. PICK n \in 1..Len(pty) :
          LET combined == carry \o SubSeq(pty, 1, n)
              whole == BeforeOpenEscape(combined)
          IN /\ pty' = Rest(pty, n)
             /\ chunk' = SubSeq(combined, 1, whole) /\ carry' = Rest(combined, whole)
    BY <1>3, Sequences DEF Read
  <2> DEFINE combined == carry \o SubSeq(pty, 1, n)
             w == BeforeOpenEscape(combined)
  <2>2. /\ pty \in Seq(Items) /\ carry \in Seq(Items) /\ n \in 0..Len(pty)
        /\ SubSeq(pty, 1, n) \in Seq(Items) /\ Len(SubSeq(pty, 1, n)) = n
        /\ \A i \in 1..n : SubSeq(pty, 1, n)[i] = pty[i]
        /\ pty' \in Seq(Items) /\ Len(pty') = Len(pty) - n
        /\ \A i \in 1..(Len(pty) - n) : pty'[i] = pty[n + i]
    <3>1. pty \in Seq(Items) /\ carry \in Seq(Items) /\ n \in 0..Len(pty) /\ pty' = Rest(pty, n)
      BY <2>1, Sequences
    <3> QED
      BY <3>1, CutFacts
  <2>3. /\ combined \in Seq(Items) /\ Len(combined) = Len(carry) + n
        /\ \A i \in 1..Len(combined) : combined[i] = IF i <= Len(carry) THEN carry[i] ELSE pty[i - Len(carry)]
    <3> DEFINE f == SubSeq(pty, 1, n)
    <3>1. f \in Seq(Items) /\ Len(f) = n /\ \A i \in 1..n : f[i] = pty[i]
      BY <2>2
    <3> HIDE DEF f
    <3>2. carry \o f \in Seq(Items) /\ Len(carry \o f) = Len(carry) + n
          /\ \A i \in 1..(Len(carry) + n) : (carry \o f)[i] = IF i <= Len(carry) THEN carry[i] ELSE f[i - Len(carry)]
      <4>1. carry \in Seq(Items) /\ f \in Seq(Items) /\ Len(f) = n
        BY <2>2, <3>1
      <4>2. Len(carry \o f) = Len(carry) + Len(f) /\ carry \o f \in Seq(Items)
            /\ \A i \in 1..(Len(carry) + Len(f)) : (carry \o f)[i] = IF i <= Len(carry) THEN carry[i] ELSE f[i - Len(carry)]
        BY <4>1, ConcatProperties
      <4> QED
        BY <4>1, <4>2
    <3>3. ASSUME NEW i \in 1..(Len(carry) + n), ~(i <= Len(carry)) PROVE f[i - Len(carry)] = pty[i - Len(carry)]
      <4>1. i - Len(carry) \in 1..n
        BY <2>2, <3>3
      <4> QED
        BY <3>1, <4>1
    <3>4. carry \o f = combined
      BY DEF f
    <3> QED
      BY <3>2, <3>3, <3>4
  <2>4. /\ Unread \in Seq(Items) /\ Len(Unread) = Len(carry) + Len(pty)
        /\ \A i \in 1..Len(Unread) : Unread[i] = IF i <= Len(carry) THEN carry[i] ELSE pty[i - Len(carry)]
    BY <2>2, ConcatProperties DEF Unread
  <2> HIDE DEF combined
  <2>5. w \in 0..Len(combined) /\ w \in {Len(combined), Len(combined) - 1}
        /\ (w = Len(combined) => combined = <<>> \/ combined[Len(combined)].byte # "e")
        /\ (w # Len(combined) => combined # <<>> /\ combined[Len(combined)].byte = "e")
    BY <2>3, OpenEscapeFacts
  <2>6. chunk' = SubSeq(combined, 1, w) /\ carry' = Rest(combined, w)
    BY <2>1 DEF combined
  <2> HIDE DEF w
  <2>7. /\ chunk' \in Seq(Items) /\ Len(chunk') = w /\ \A i \in 1..w : chunk'[i] = combined[i]
        /\ carry' \in Seq(Items) /\ Len(carry') = Len(combined) - w
        /\ \A i \in 1..(Len(combined) - w) : carry'[i] = combined[w + i]
    <3>1. combined \in Seq(Items) /\ w \in 0..Len(combined)
      BY <2>3, <2>5
    <3> QED
      BY <2>6, <3>1, CutFacts
  <2>8. Len(Unread) \in Nat /\ Len(carry) \in Nat /\ Len(pty) \in Nat /\ Len(combined) \in Nat
    BY <2>2, <2>3, <2>4
  <2>9. Len(carry') <= 1 /\ \A i \in 1..Len(carry') : carry'[i].byte = "e"
    <3>1. ASSUME NEW i \in 1..Len(carry') PROVE carry'[i].byte = "e"
      <4>1. i = 1 /\ w = Len(combined) - 1 /\ i \in 1..(Len(combined) - w)
        BY <2>5, <2>7, <2>8
      <4>2. carry'[i] = combined[w + i] /\ w + i = Len(combined)
        BY <2>7, <2>8, <4>1
      <4> QED
        BY <2>5, <4>1, <4>2, <2>8
    <3>2. Len(carry') <= 1
      BY <2>5, <2>7, <2>8
    <3> QED
      BY <3>1, <3>2
  <2>10. \A i \in 1..Len(combined) : i \in 1..Len(Unread) /\ combined[i] = Unread[i]
    <3>1. Len(combined) = Len(carry) + n /\ Len(Unread) = Len(carry) + Len(pty) /\ n \in 0..Len(pty)
      BY <2>2, <2>3, <2>4
    <3> SUFFICES ASSUME NEW i \in 1..Len(combined)
                 PROVE  i \in 1..Len(Unread) /\ combined[i] = Unread[i]
      OBVIOUS
    <3>2. i \in 1..Len(Unread)
      BY <2>8, <3>1
    <3>3. combined[i] = IF i <= Len(carry) THEN carry[i] ELSE pty[i - Len(carry)]
      BY <2>3
    <3>4. Unread[i] = IF i <= Len(carry) THEN carry[i] ELSE pty[i - Len(carry)]
      BY <2>4, <3>2
    <3> QED
      BY <3>2, <3>3, <3>4
  <2>11. Whole(Unread, last)
    BY DEF EscapesAreWhole, Whole
  <2>12. chunk' # <<>> => Last(chunk').byte # "e"
    <3> SUFFICES ASSUME chunk' # <<>>, chunk'[w].byte = "e" PROVE FALSE
      BY <2>7 DEF Last
    <3>1. w \in 1..w /\ w \in 1..Len(combined) /\ combined[w].byte = "e"
      BY <2>5, <2>7
    <3>2. w = Len(combined) - 1 /\ combined[w + 1].byte = "e" /\ w + 1 \in 1..Len(combined)
      <4>1. combined # <<>>
        BY <2>3, <3>1
      <4> QED
        BY <2>5, <2>8, <3>1, <4>1
    <3>3. w \in 1..Len(Unread) /\ Unread[w].byte = "e" /\ w + 1 \in 1..Len(Unread) /\ Unread[w + 1].byte = "e"
      BY <2>10, <3>1, <3>2
    <3>4. w # Len(Unread)
      BY <2>8, <3>1, <3>3
    <3> QED
      BY <2>11, <3>3, <3>4 DEF Whole
  <2>13. /\ Unread' \in Seq(Items) /\ Len(Unread') = Len(carry') + Len(pty')
         /\ \A i \in 1..Len(Unread') : Unread'[i] = IF i <= Len(carry') THEN carry'[i] ELSE pty'[i - Len(carry')]
    <3>1. carry' \in Seq(Items) /\ pty' \in Seq(Items)
      BY <2>2, <2>7
    <3> QED
      BY <3>1, ConcatProperties DEF Unread
  <2>14. Len(Unread') = Len(Unread) - w
    <3>1. /\ Len(combined) = Len(carry) + n /\ Len(Unread) = Len(carry) + Len(pty)
          /\ Len(carry') = Len(combined) - w /\ Len(pty') = Len(pty) - n
          /\ Len(Unread') = Len(carry') + Len(pty') /\ n \in 0..Len(pty) /\ w \in 0..Len(combined)
      BY <2>2, <2>3, <2>4, <2>5, <2>7, <2>13
    <3> QED
      BY <2>8, <3>1
  <2>15. ASSUME NEW i \in 1..Len(Unread') PROVE w + i \in 1..Len(Unread) /\ Unread'[i] = Unread[w + i]
    <3>0. w + i \in 1..Len(Unread)
      BY <2>5, <2>8, <2>14
    <3>1. CASE i <= Len(carry')
      <4>1. i \in 1..(Len(combined) - w) /\ w + i \in 1..Len(combined)
        BY <2>5, <2>7, <2>8, <3>1
      <4>2. Unread'[i] = combined[w + i]
        BY <2>7, <2>13, <3>1, <4>1
      <4> QED
        BY <2>10, <3>0, <4>1, <4>2
    <3>2. CASE ~(i <= Len(carry'))
      <4>1. i - Len(carry') \in 1..(Len(pty) - n) /\ n + (i - Len(carry')) = (w + i) - Len(carry)
            /\ ~(w + i <= Len(carry))
        <5>1. /\ Len(combined) = Len(carry) + n /\ Len(carry') = Len(combined) - w
              /\ Len(pty') = Len(pty) - n /\ Len(Unread') = Len(carry') + Len(pty')
              /\ w \in 0..Len(combined) /\ n \in 0..Len(pty)
          BY <2>2, <2>3, <2>5, <2>7, <2>13
        <5> QED
          BY <2>8, <3>2, <5>1
      <4>2. Unread'[i] = pty'[i - Len(carry')]
        BY <2>13, <3>2
      <4>3. pty'[i - Len(carry')] = pty[(w + i) - Len(carry)]
        BY <2>2, <4>1
      <4>4. Unread[w + i] = pty[(w + i) - Len(carry)]
        <5> DEFINE k == w + i
        <5>1. k \in 1..Len(Unread) /\ ~(k <= Len(carry))
          BY <3>0, <4>1
        <5> HIDE DEF k
        <5>2. Unread[k] = pty[k - Len(carry)]
          BY <2>4, <5>1
        <5> QED
          BY <5>2 DEF k
      <4> QED
        BY <3>0, <4>2, <4>3, <4>4
    <3> QED
      BY <3>1, <3>2
  <2>16. ASSUME NEW i \in 1..Len(Unread'), Unread'[i].byte = "e"
         PROVE  IF i = Len(Unread') THEN last' = "e" ELSE Unread'[i + 1].byte = "f"
    <3>1. w + i \in 1..Len(Unread) /\ Unread[w + i].byte = "e" /\ last' = last
      BY <1>3, <2>15, <2>16 DEF Read
    <3>2. CASE i = Len(Unread')
      <4>1. w + i = Len(Unread)
        BY <2>5, <2>8, <2>14, <3>2
      <4> QED
        BY <2>11, <3>1, <3>2, <4>1 DEF Whole
    <3>3. CASE i # Len(Unread')
      <4>1. w + i # Len(Unread) /\ i + 1 \in 1..Len(Unread') /\ w + (i + 1) = w + i + 1
        BY <2>5, <2>8, <2>14, <3>3
      <4>2. Unread[w + i + 1].byte = "f"
        BY <2>11, <3>1, <4>1 DEF Whole
      <4> QED
        BY <2>15, <3>3, <4>1, <4>2
    <3> QED
      BY <3>2, <3>3
  <2> QED
    BY <2>9, <2>12, <2>16 DEF EscapesAreWhole
<1>4. CASE Finish
  <2>1. carry' = <<>> /\ pty' = <<>> /\ chunk' = <<>>
    BY <1>4 DEF Finish, Elsewhere, commandVars, InHand
  <2>2. <<>> \o <<>> = <<>>
    <3>1. <<>> \in Seq(Items)
      OBVIOUS
    <3> QED
      BY <3>1, ConcatEmptySeq
  <2>3. Unread' = <<>>
    BY <2>1, <2>2 DEF Unread
  <2> QED
    BY <2>1, <2>3 DEF EscapesAreWhole
<1>5. \/ Program \/ ReadKey \/ Read \/ Finish
      \/ UNCHANGED <<carry, pty, last>> /\ (chunk' = chunk \/ chunk' = <<>>)
  BY Asides DEF Observe, Push, Draw, DrawTail, KeepTail, End, Elsewhere, commandVars, readVars
<1> QED
  BY <1>0, <1>1, <1>2, <1>3, <1>4, <1>5

(* What the items of s were caused by was typed before the key k, and no later *)
(* than the n-th key.                                                         *)
Caused(s, k, n) ==
  \A i \in 1..Len(s) : s[i].cause <= n /\ (k # None => s[i].cause < k.id)

LEMMA CausedParts ==
  ASSUME NEW s \in Seq(Items), NEW t \in Seq(Items), NEW k, NEW n
  PROVE  Caused(s \o t, k, n) <=> Caused(s, k, n) /\ Caused(t, k, n)
<1>1. /\ Len(s) \in Nat /\ Len(t) \in Nat /\ Len(s \o t) = Len(s) + Len(t)
      /\ \A i \in 1..(Len(s) + Len(t)) : (s \o t)[i] = IF i <= Len(s) THEN s[i] ELSE t[i - Len(s)]
  BY ConcatProperties
<1> DEFINE u == s \o t
<1>4. Len(u) = Len(s) + Len(t) /\ \A i \in 1..Len(u) : u[i] = IF i <= Len(s) THEN s[i] ELSE t[i - Len(s)]
  BY <1>1
<1> HIDE DEF u
<1>2. ASSUME Caused(u, k, n) PROVE Caused(s, k, n) /\ Caused(t, k, n)
  <2>1. ASSUME NEW i \in 1..Len(s) PROVE i \in 1..Len(u) /\ u[i] = s[i]
    BY <1>1, <1>4
  <2>2. ASSUME NEW i \in 1..Len(t) PROVE Len(s) + i \in 1..Len(u) /\ u[Len(s) + i] = t[i]
    <3>1. Len(s) + i \in 1..Len(u) /\ ~(Len(s) + i <= Len(s)) /\ (Len(s) + i) - Len(s) = i
      BY <1>1, <1>4
    <3> QED
      BY <1>4, <3>1
  <2> QED
    BY <1>2, <2>1, <2>2 DEF Caused
<1>3. ASSUME Caused(s, k, n), Caused(t, k, n) PROVE Caused(u, k, n)
  <2> SUFFICES ASSUME NEW i \in 1..Len(u)
               PROVE  u[i].cause <= n /\ (k # None => u[i].cause < k.id)
    BY DEF Caused
  <2>1. CASE i <= Len(s)
    <3>1. i \in 1..Len(s) /\ u[i] = s[i]
      BY <1>1, <1>4, <2>1
    <3> QED
      BY <1>3, <3>1 DEF Caused
  <2>2. CASE ~(i <= Len(s))
    <3>1. i - Len(s) \in 1..Len(t) /\ u[i] = t[i - Len(s)]
      BY <1>1, <1>4, <2>2
    <3> QED
      BY <1>3, <3>1 DEF Caused
  <2> QED
    BY <2>1, <2>2
<1> QED
  BY <1>2, <1>3 DEF u

LEMMA CausedCut ==
  ASSUME NEW s \in Seq(Items), NEW m \in 0..Len(s), NEW k, NEW n
  PROVE  Caused(s, k, n) <=> Caused(SubSeq(s, 1, m), k, n) /\ Caused(Rest(s, m), k, n)
<1> DEFINE f == SubSeq(s, 1, m)
           r == Rest(s, m)
<1>1. f \in Seq(Items) /\ r \in Seq(Items) /\ f \o r = s
  BY CutFacts
<1> HIDE DEF f, r
<1>2. Caused(f \o r, k, n) <=> Caused(f, k, n) /\ Caused(r, k, n)
  BY <1>1, CausedParts
<1> QED
  BY <1>1, <1>2 DEF f, r

LEMMA CausedThree ==
  ASSUME NEW s \in Seq(Items), NEW t \in Seq(Items), NEW u \in Seq(Items), NEW k, NEW n
  PROVE  Caused(s \o t \o u, k, n) <=> Caused(s, k, n) /\ Caused(t, k, n) /\ Caused(u, k, n)
<1> DEFINE st == s \o t
<1>1. st \in Seq(Items)
  OBVIOUS
<1>2. Caused(st, k, n) <=> Caused(s, k, n) /\ Caused(t, k, n)
  BY CausedParts
<1> HIDE DEF st
<1>3. Caused(st \o u, k, n) <=> Caused(st, k, n) /\ Caused(u, k, n)
  BY <1>1, CausedParts
<1> QED
  BY <1>2, <1>3 DEF st

LEMMA CausedByNone ==
  ASSUME NEW k, NEW n PROVE Caused(<<>>, k, n)
BY DEF Caused

LEMMA EmitInOrder ==
  ASSUME TypeOK, NEW byte \in {"a", "s", "e", "f", "d", "p"}, NEW cause \in 0..MaxKeys, Emit(byte, cause),
         Caused(pty, key, typedKeys), cause <= typedKeys, key # None => cause < key.id
  PROVE  Caused(pty', key, typedKeys)
<1> DEFINE item == [id |-> Written + 1, byte |-> byte, cause |-> cause]
<1>1. item \in Items /\ pty \in Seq(Items) /\ pty' = Append(pty, item) /\ item.cause = cause
  BY EmitItem, Sequences DEF Emit
<1> HIDE DEF item
<1>2. /\ Len(pty') = Len(pty) + 1 /\ Len(pty) \in Nat /\ pty'[Len(pty) + 1] = item
      /\ \A i \in 1..Len(pty) : pty'[i] = pty[i]
  BY <1>1
<1> SUFFICES ASSUME NEW i \in 1..Len(pty')
             PROVE  pty'[i].cause <= typedKeys /\ (key # None => pty'[i].cause < key.id)
  BY DEF Caused
<1>3. CASE i = Len(pty) + 1
  BY <1>1, <1>2, <1>3
<1>4. CASE i # Len(pty) + 1
  <2>1. i \in 1..Len(pty)
    BY <1>2, <1>4
  <2> QED
    BY <1>2, <2>1 DEF Caused
<1> QED
  BY <1>3, <1>4

(* The three pieces of the output that has not been examined. *)
Unexamined(k, n) == Caused(chunk, k, n) /\ Caused(carry, k, n) /\ Caused(pty, k, n)

InputsBefore(k, n) ==
  \A i \in 1..Len(input) : input[i].id <= n /\ (k # None => input[i].id < k.id)

LEMMA KeysInOrderKept == TypeOK /\ TypeOK' /\ InHand /\ KeysInOrder /\ [Next]_vars => KeysInOrder'
<1> SUFFICES ASSUME TypeOK, TypeOK', InHand, KeysInOrder, [Next]_vars PROVE KeysInOrder'
  OBVIOUS
<1> DEFINE k == key
           n == typedKeys
<1>a. /\ k # None => k.id = n
      /\ InputsBefore(k, n) /\ Unexamined(k, n)
  <2>1. chunk \in Seq(Items) /\ carry \in Seq(Items) /\ pty \in Seq(Items)
    BY Sequences
  <2>2. Caused(chunk \o carry \o pty, k, n)
    BY DEF KeysInOrder, Caused
  <2>3. Unexamined(k, n)
    BY <2>1, <2>2, CausedThree DEF Unexamined
  <2> QED
    BY <2>3 DEF KeysInOrder, InputsBefore
<1>b. /\ typedKeys \in 0..MaxKeys /\ MaxKeys \in Nat /\ input \in Seq(Keys)
      /\ fwd \in {"send", "record", "write"} => key \in Keys
      /\ key # None => key \in Keys
      /\ key \in Keys => key # None /\ key.id \in 1..MaxKeys
  BY KeyFacts
<1>c. ASSUME key' # None => key'.id = typedKeys', InputsBefore(key, typedKeys)', Unexamined(key, typedKeys)'
      PROVE  KeysInOrder'
  <2>1. chunk' \in Seq(Items) /\ carry' \in Seq(Items) /\ pty' \in Seq(Items)
    BY DEF TypeOK
  <2>2. Caused(chunk', key', typedKeys') /\ Caused(carry', key', typedKeys') /\ Caused(pty', key', typedKeys')
    BY <1>c DEF Unexamined
  <2>3. Caused(chunk' \o carry' \o pty', key', typedKeys')
    BY <2>1, <2>2, CausedThree
  <2> QED
    BY <1>c, <2>3 DEF KeysInOrder, InputsBefore, Caused
<1>1. ASSUME UNCHANGED <<typedKeys, key, input, pty>>, chunk' = chunk \/ chunk' = <<>>,
             carry' = carry \/ carry' = <<>>
      PROVE  KeysInOrder'
  <2>1. Unexamined(key, typedKeys)'
    <3>1. Caused(chunk', key', typedKeys')
      BY <1>1, <1>a, CausedByNone DEF Unexamined
    <3>2. Caused(carry', key', typedKeys')
      BY <1>1, <1>a, CausedByNone DEF Unexamined
    <3>3. Caused(pty', key', typedKeys')
      BY <1>1, <1>a DEF Unexamined
    <3> QED
      BY <3>1, <3>2, <3>3 DEF Unexamined
  <2> QED
    BY <1>1, <1>a, <1>c, <2>1 DEF InputsBefore
<1>2. CASE Program
  <2>1. PICK byte \in {"a", "s", "e", "f", "d", "p"} : Emit(byte, 0)
    BY <1>2 DEF Program
  <2>2. UNCHANGED <<typedKeys, key, input, chunk, carry>>
    BY <1>2 DEF Program, userVars, fwdVars, readVars
  <2>3. 0 \in 0..MaxKeys /\ 0 <= typedKeys /\ (key # None => 0 < key.id)
    BY <1>b
  <2>4. Caused(pty', key, typedKeys)
    BY <1>a, <2>1, <2>3, EmitInOrder DEF Unexamined
  <2>5. InputsBefore(key, typedKeys)' /\ Unexamined(key, typedKeys)'
    BY <1>a, <2>2, <2>4 DEF InputsBefore, Unexamined
  <2> QED
    BY <1>a, <1>c, <2>2, <2>5
<1>3. CASE ReadKey
  <2>1. input # <<>> /\ input' = Tail(input) /\ UNCHANGED <<typedKeys, key, chunk, carry>>
    BY <1>3 DEF ReadKey, fwdVars, readVars
  <2>2. 1 \in 1..Len(input) /\ Head(input) = input[1] /\ Head(input) \in Keys
    BY <1>b, <2>1
  <2>3. Head(input).id \in 1..MaxKeys
    BY <2>2 DEF Keys
  <2>4. /\ 0 \in 0..MaxKeys /\ 0 <= typedKeys /\ (key # None => 0 < key.id)
        /\ Head(input).id \in 0..MaxKeys /\ Head(input).id <= typedKeys
        /\ (key # None => Head(input).id < key.id)
    BY <1>a, <1>b, <2>2, <2>3 DEF InputsBefore
  <2>5. Emit("a", 0) \/ Emit("s", Head(input).id) \/ UNCHANGED pty
    BY <1>3 DEF ReadKey
  <2>6. Caused(pty', key, typedKeys)
    <3>1. CASE Emit("a", 0)
      BY <1>a, <2>4, <3>1, EmitInOrder DEF Unexamined
    <3>2. CASE Emit("s", Head(input).id)
      BY <1>a, <2>4, <3>2, EmitInOrder DEF Unexamined
    <3>3. CASE UNCHANGED pty
      BY <1>a, <3>3 DEF Unexamined
    <3> QED
      BY <2>5, <3>1, <3>2, <3>3
  <2>7. Unexamined(key, typedKeys)'
    BY <1>a, <2>1, <2>6 DEF Unexamined
  <2>8. InputsBefore(key, typedKeys)'
    <3> SUFFICES ASSUME NEW i \in 1..Len(input')
                 PROVE  input'[i].id <= typedKeys /\ (key # None => input'[i].id < key.id)
      BY <2>1 DEF InputsBefore
    <3>1. i + 1 \in 1..Len(input) /\ input'[i] = input[i + 1]
      BY <1>b, <2>1
    <3> QED
      BY <1>a, <3>1 DEF InputsBefore
  <2> QED
    BY <1>a, <1>c, <2>1, <2>7, <2>8
<1>4. CASE ForwardRead
  <2>1. key = None /\ typedKeys' = typedKeys + 1 /\ key'.id = typedKeys + 1
        /\ UNCHANGED <<input, pty, chunk, carry>>
    BY <1>4 DEF ForwardRead, FwdStep, TypeOK, commandVars, readVars
  <2>2. ASSUME NEW s \in Seq(Items), Caused(s, key, typedKeys) PROVE Caused(s, key', typedKeys')
    <3> SUFFICES ASSUME NEW i \in 1..Len(s)
                 PROVE  s[i].cause <= typedKeys + 1 /\ s[i].cause < typedKeys + 1
      BY <2>1 DEF Caused
    <3>1. s[i] \in Items /\ s[i].cause <= typedKeys
      BY <2>2 DEF Caused
    <3>2. s[i].cause \in 0..MaxKeys
      BY <3>1 DEF Items
    <3> QED
      BY <1>b, <3>1, <3>2
  <2>3. Unexamined(key, typedKeys)'
    BY <1>a, <2>1, <2>2, Sequences DEF Unexamined
  <2>4. InputsBefore(key, typedKeys)'
    <3> SUFFICES ASSUME NEW i \in 1..Len(input)
                 PROVE  input[i].id <= typedKeys + 1 /\ input[i].id < typedKeys + 1
      BY <2>1 DEF InputsBefore
    <3>1. input[i] \in Keys /\ input[i].id <= typedKeys
      BY <1>a, <1>b DEF InputsBefore
    <3>2. input[i].id \in 1..MaxKeys
      BY <3>1 DEF Keys
    <3> QED
      BY <1>b, <3>1, <3>2
  <2> QED
    BY <1>c, <2>1, <2>3, <2>4
<1>5. CASE ForwardWrite
  <2>1. key \in Keys /\ key' = None /\ (input' = input \/ input' = Append(input, key))
        /\ UNCHANGED <<typedKeys, pty, chunk, carry>>
    BY <1>5, <1>b DEF ForwardWrite, FwdStep, commandVars, readVars
  <2>2. Unexamined(key, typedKeys)'
    BY <1>a, <2>1 DEF Unexamined, Caused
  <2>3. InputsBefore(key, typedKeys)'
    <3> SUFFICES ASSUME NEW i \in 1..Len(input') PROVE input'[i].id <= typedKeys
      BY <2>1 DEF InputsBefore
    <3>1. CASE input' = input
      BY <1>a, <3>1 DEF InputsBefore
    <3>2. CASE input' = Append(input, key)
      <4>1. Len(input') = Len(input) + 1 /\ Len(input) \in Nat /\ input'[Len(input) + 1] = key
            /\ \A j \in 1..Len(input) : input'[j] = input[j]
        BY <1>b, <2>1, <3>2
      <4>2. CASE i = Len(input) + 1
        BY <1>a, <1>b, <2>1, <4>1, <4>2
      <4>3. CASE i # Len(input) + 1
        <5>1. i \in 1..Len(input)
          BY <4>1, <4>3
        <5> QED
          BY <1>a, <4>1, <5>1 DEF InputsBefore
      <4> QED
        BY <4>2, <4>3
    <3> QED
      BY <2>1, <3>1, <3>2
  <2> QED
    BY <1>c, <2>1, <2>2, <2>3
<1>6. CASE Read
  <2>1. PICK m \in 1..Len(pty) :
          LET combined == carry \o SubSeq(pty, 1, m)
              whole == BeforeOpenEscape(combined)
          IN /\ pty' = Rest(pty, m)
             /\ chunk' = SubSeq(combined, 1, whole) /\ carry' = Rest(combined, whole)
    BY <1>6, Sequences DEF Read
  <2> DEFINE f == SubSeq(pty, 1, m)
             combined == carry \o f
             w == BeforeOpenEscape(combined)
  <2>2. pty \in Seq(Items) /\ m \in 0..Len(pty) /\ f \in Seq(Items) /\ carry \in Seq(Items)
    BY <2>1, Sequences, CutFacts
  <2>3. Caused(f, k, n) /\ Caused(pty', k, n)
    BY <1>a, <2>1, <2>2, CausedCut DEF Unexamined
  <2> HIDE DEF f
  <2>4. combined \in Seq(Items) /\ Caused(combined, k, n)
    BY <1>a, <2>2, <2>3, CausedParts DEF Unexamined
  <2>5. chunk' = SubSeq(combined, 1, w) /\ carry' = Rest(combined, w)
    BY <2>1 DEF f
  <2> HIDE DEF combined
  <2>6. w \in 0..Len(combined)
    BY <2>4, OpenEscapeFacts
  <2> HIDE DEF w
  <2>7. Caused(chunk', k, n) /\ Caused(carry', k, n)
    BY <2>4, <2>5, <2>6, CausedCut
  <2>8. UNCHANGED <<typedKeys, key, input>>
    BY <1>6 DEF Read, userVars, fwdVars
  <2>9. Unexamined(key, typedKeys)' /\ InputsBefore(key, typedKeys)'
    BY <1>a, <2>3, <2>7, <2>8 DEF Unexamined, InputsBefore
  <2> QED
    BY <1>a, <1>c, <2>8, <2>9
<1>7. \/ Program \/ ReadKey \/ ForwardRead \/ ForwardWrite \/ Read
      \/ /\ UNCHANGED <<typedKeys, key, input, pty>> /\ (chunk' = chunk \/ chunk' = <<>>)
         /\ (carry' = carry \/ carry' = <<>>)
  <2> USE DEF userVars, fwdVars, commandVars, readVars, Elsewhere
  <2>1. CASE Exit \/ ForwardSend \/ ForwardRecord
    BY <2>1 DEF Exit, ForwardSend, ForwardRecord, FwdStep
  <2>2. CASE Observe \/ Push \/ DrawEcho \/ DrawRedraw \/ HoldbackEnds \/ KeepTail \/ End \/ Finish
    BY <2>2 DEF Observe, Push, DrawEcho, DrawRedraw, HoldbackEnds, DrawTail, KeepTail, End, Finish
  <2>3. CASE UNCHANGED vars
    BY <2>3 DEF vars
  <2> QED
    BY <2>1, <2>2, <2>3 DEF Next, Command, Forwarder, Loop
<1> QED
  BY <1>1, <1>2, <1>3, <1>4, <1>5, <1>6, <1>7

(* No command of the chunk is still in the channel or about to be sent. *)
NotBehind(commands, keys, at, k) ==
  \A i \in 1..Len(commands) :
    /\ \A j \in 1..Len(keys) : commands[i].cause # keys[j].id
    /\ at = "send" => commands[i].cause # k.id

LEMMA NotBehindIs ==
  ASSUME TypeOK
  PROVE  CommandBeforeOutput <=> (pc = "push" => NotBehind(chunk, channel, fwd, key))
<1>1. DOMAIN chunk = 1..Len(chunk) /\ DOMAIN channel = 1..Len(channel)
  BY DEF TypeOK
<1> QED
  BY <1>1 DEF CommandBeforeOutput, NotBehind

LEMMA CommandBeforeOutputKept ==
  TypeOK /\ TypeOK' /\ KeysInOrder /\ CommandBeforeOutput /\ [Next]_vars => CommandBeforeOutput'
<1> SUFFICES ASSUME TypeOK, TypeOK', KeysInOrder, CommandBeforeOutput, [Next]_vars, pc' = "push"
             PROVE  NotBehind(chunk', channel', fwd', key')
  <2>1. DOMAIN chunk' = 1..Len(chunk') /\ DOMAIN channel' = 1..Len(channel')
    BY DEF TypeOK
  <2> QED
    BY <2>1 DEF CommandBeforeOutput, NotBehind
<1>a. pc = "push" => NotBehind(chunk, channel, fwd, key)
  BY NotBehindIs
<1>b. /\ typedKeys \in 0..MaxKeys /\ channel \in Seq(Keys) /\ MaxKeys \in Nat
      /\ fwd = "send" => key \in Keys /\ key # None
  BY KeyFacts DEF TypeOK
<1>c. ASSUME NEW i \in 1..Len(chunk)
      PROVE  /\ chunk[i].cause \in 0..MaxKeys /\ chunk[i].cause <= typedKeys
             /\ key # None => chunk[i].cause < key.id
  <2>1. chunk \in Seq(Items) /\ carry \in Seq(Items) /\ pty \in Seq(Items)
    BY Sequences
  <2>2. Caused(chunk \o carry \o pty, key, typedKeys)
    BY DEF KeysInOrder, Caused
  <2>3. Caused(chunk, key, typedKeys)
    BY <2>1, <2>2, CausedThree
  <2>4. chunk[i].cause \in 0..MaxKeys
    <3>1. chunk[i] \in Items
      BY <2>1
    <3> QED
      BY <3>1 DEF Items
  <2> QED
    BY <2>3, <2>4 DEF Caused
<1>1. CASE Observe
  <2>1. channel' = <<>> /\ UNCHANGED <<chunk, fwd, key>>
    BY <1>1 DEF Observe, Drained, Elsewhere, fwdVars
  <2>2. ASSUME NEW i \in 1..Len(chunk), fwd = "send" PROVE chunk[i].cause # key.id
    <3>1. key.id \in 1..MaxKeys /\ chunk[i].cause < key.id /\ chunk[i].cause \in 0..MaxKeys
      BY <1>b, <1>c, <2>2 DEF Keys
    <3> QED
      BY <1>b, <3>1
  <2> QED
    BY <2>1, <2>2 DEF NotBehind
<1>2. CASE ForwardRead
  <2>1. UNCHANGED <<pc, chunk, channel>> /\ key'.id = typedKeys + 1
    BY <1>2 DEF ForwardRead, FwdStep, readVars
  <2>2. ASSUME NEW i \in 1..Len(chunk) PROVE chunk[i].cause # typedKeys + 1
    BY <1>b, <1>c
  <2> QED
    BY <1>a, <2>1, <2>2 DEF NotBehind
<1>3. CASE ForwardSend
  <2>1. UNCHANGED <<pc, chunk>> /\ fwd = "send" /\ fwd' = "record" /\ key \in Keys
        /\ (channel' = channel \/ channel' = Append(channel, key))
    BY <1>3, <1>b DEF ForwardSend, FwdStep, SendKey, readVars
  <2>2. ASSUME NEW i \in 1..Len(chunk), NEW j \in 1..Len(channel') PROVE chunk[i].cause # channel'[j].id
    <3>1. CASE channel' = channel
      BY <1>a, <2>1, <3>1 DEF NotBehind
    <3>2. CASE channel' = Append(channel, key)
      <4>1. Len(channel') = Len(channel) + 1 /\ Len(channel) \in Nat /\ channel'[Len(channel) + 1] = key
            /\ \A l \in 1..Len(channel) : channel'[l] = channel[l]
        BY <1>b, <2>1, <3>2
      <4>2. CASE j = Len(channel) + 1
        BY <1>a, <2>1, <4>1, <4>2 DEF NotBehind
      <4>3. CASE j # Len(channel) + 1
        <5>1. j \in 1..Len(channel)
          BY <4>1, <4>3
        <5> QED
          BY <1>a, <2>1, <4>1, <5>1 DEF NotBehind
      <4> QED
        BY <4>2, <4>3
    <3> QED
      BY <2>1, <3>1, <3>2
  <2> QED
    BY <2>1, <2>2 DEF NotBehind
<1>4. CASE ForwardRecord \/ ForwardWrite
  <2>1. UNCHANGED <<pc, chunk, channel>> /\ fwd' # "send"
    BY <1>4 DEF ForwardRecord, ForwardWrite, FwdStep, readVars
  <2> QED
    BY <1>a, <2>1 DEF NotBehind
<1>5. CASE UNCHANGED <<pc, chunk, channel, fwd, key>>
  BY <1>a, <1>5
<1>6. CASE Command \/ UNCHANGED vars
  BY <1>5, <1>6 DEF Command, Program, ReadKey, Exit, vars, fwdVars, readVars
<1>7. CASE Loop
  BY <1>1, <1>7 DEF Loop, Read, Push, DrawEcho, DrawRedraw, HoldbackEnds, DrawTail, KeepTail, End, Finish
<1> QED
  BY <1>1, <1>2, <1>3, <1>4, <1>6, <1>7 DEF Next, Forwarder

LEMMA WaitsCleanKept ==
  ASSUME TypeOK, WaitsClean, HeldIsToken', EscapesAreWhole', TypeOK', [Next]_vars
  PROVE  WaitsClean'
<1> SUFFICES ASSUME pc' = "wait" PROVE outbuf' = <<>> /\ (overlay' => setup'.pty)
  <2>1. DOMAIN pending' = 1..Len(pending')
    BY DEF TypeOK
  <2> QED
    BY <2>1 DEF WaitsClean, HeldIsToken, EscapesAreWhole
<1> USE DEF readVars, renderVars, Elsewhere
<1>1. CASE Draw
  BY <1>1 DEF Draw, DrawTail
<1>2. CASE KeepTail
  BY <1>2 DEF KeepTail, FlushBeforeWait, TypeOK
<1>3. CASE UNCHANGED <<pc, outbuf, overlay, setup>>
  BY <1>3 DEF WaitsClean
<1>4. CASE Program \/ ReadKey
  BY <1>3, <1>4 DEF Program, ReadKey
<1>5. CASE Read \/ Observe \/ Push \/ End \/ Finish
  BY <1>5 DEF Read, Observe, Push, End, Finish
<1> QED
  BY <1>1, <1>2, <1>3, <1>4, <1>5, Asides

(* The named device *)

DeviceAt(items, base, seen) ==
  \E i \in 1..Len(items) :
    items[i].byte = "d" /\ base + i <= SampleLimit /\ base + i > seen

LEMMA LenConcat ==
  ASSUME NEW S, NEW s \in Seq(S), NEW t \in Seq(S)
  PROVE  Len(s \o t) = Len(s) + Len(t) /\ Len(s) \in Nat /\ Len(t) \in Nat
BY ConcatProperties

LEMMA SeenIs ==
  ASSUME NEW s \in Nat, NEW o \in Nat, NEW p \in Nat, NEW c \in Nat, NEW at \in BOOLEAN
  PROVE  (s + o + p + (IF at THEN c ELSE 0)) \in {s + o + p, s + o + p + c}
<1>1. CASE at
  BY <1>1
<1>2. CASE ~at
  BY <1>2
<1> QED
  BY <1>1, <1>2

LEMMA SeenFacts ==
  ASSUME TypeOK
  PROVE  /\ Len(pty) \in Nat /\ Len(chunk) \in Nat /\ Len(carry) \in Nat /\ Len(pending) \in Nat
         /\ Len(outbuf) \in Nat /\ Len(screen) \in Nat /\ Len(InFlight) \in Nat
         /\ SeenBy \in Nat /\ Len(screen) <= SeenBy /\ SeenBy <= Written
         /\ Written = Len(screen) + Len(InFlight) /\ SampleLimit \in Nat
<1>1. /\ Len(pty) \in Nat /\ Len(chunk) \in Nat /\ Len(carry) \in Nat /\ Len(pending) \in Nat
      /\ Len(outbuf) \in Nat /\ Len(screen) \in Nat
  BY Sequences
<1>2. /\ Len(InFlight) = Len(outbuf) + Len(pending) + Len(chunk) + Len(carry) + Len(pty)
      /\ Written = Len(screen) + Len(InFlight)
  BY FlightIsSeq
<1>3. SeenBy \in {Len(screen) + Len(outbuf) + Len(pending),
                   Len(screen) + Len(outbuf) + Len(pending) + Len(chunk)}
  BY <1>1, SeenIs DEF SeenBy
<1>4. SampleLimit \in Nat
  BY LoopAssumption
<1>5. SeenBy \in Nat /\ Len(screen) <= SeenBy
  BY <1>1, <1>3
<1>6. SeenBy <= Written
  BY <1>1, <1>2, <1>3
<1>7. Len(InFlight) \in Nat
  BY <1>1, <1>2
<1> QED
  BY <1>1, <1>2, <1>4, <1>5, <1>6, <1>7

LEMMA SeenKept ==
  ASSUME TypeOK, TypeOK', [Next]_vars
  PROVE  \/ Observe /\ SeenBy' = SeenBy + Len(chunk)
         \/ Finish
         \/ ~Observe /\ ~Finish /\ SeenBy' = SeenBy
<1>1. /\ pty \in Seq(Items) /\ chunk \in Seq(Items) /\ carry \in Seq(Items)
      /\ pending \in Seq(Items) /\ outbuf \in Seq(Items) /\ screen \in Seq(1..MaxOutput)
  BY Sequences
<1>2. /\ Len(chunk) \in Nat /\ Len(pending) \in Nat /\ Len(outbuf) \in Nat /\ Len(screen) \in Nat
  BY <1>1
<1>3. CASE Observe
  <2>1. pc = "observe" /\ pc' = "push" /\ UNCHANGED <<screen, outbuf, pending, chunk>>
    BY <1>3 DEF Observe, renderVars
  <2> QED
    BY <1>2, <1>3, <2>1 DEF SeenBy
<1>4. CASE Push
  <2> DEFINE combined == pending \o chunk
  <2>1. combined \in Seq(Items) /\ Len(combined) = Len(pending) + Len(chunk)
    BY <1>1
  <2>2. pc = "push" /\ pc' = "echo" /\ screen' = screen
    BY <1>4 DEF Push
  <2>3. PICK n : /\ n = SplitAt(combined) \/ n = BeforeOpenEscape(combined)
                 /\ outbuf' = outbuf \o SubSeq(combined, 1, n) /\ pending' = Rest(combined, n)
    <3> HIDE DEF combined
    <3> QED
      BY <1>4 DEF Push, combined
  <2> HIDE DEF combined
  <2>4. n \in 0..Len(combined)
    BY <2>1, <2>3, PushFacts
  <2>5. /\ SubSeq(combined, 1, n) \in Seq(Items) /\ Len(SubSeq(combined, 1, n)) = n
        /\ Len(pending') = Len(combined) - n
    BY <2>1, <2>3, <2>4, CutFacts
  <2>6. Len(outbuf') = Len(outbuf) + n
    <3> DEFINE u == SubSeq(combined, 1, n)
    <3>1. u \in Seq(Items) /\ Len(u) = n /\ outbuf' = outbuf \o u
      BY <2>3, <2>5
    <3>2. outbuf \in Seq(Items)
      BY <1>1
    <3> HIDE DEF u
    <3> QED
      BY <3>1, <3>2, LenConcat
  <2>7. SeenBy' = SeenBy
    <3>1. SeenBy' = Len(screen) + Len(outbuf') + Len(pending')
      BY <2>2 DEF SeenBy
    <3>2. SeenBy = Len(screen) + Len(outbuf) + Len(pending) + Len(chunk)
      BY <2>2 DEF SeenBy
    <3> QED
      BY <1>2, <2>1, <2>4, <2>5, <2>6, <3>1, <3>2
  <2> QED
    BY <2>2, <2>7 DEF Observe, Finish
<1>5. CASE Draw
  <2> DEFINE n == Len(BufferedEcho)
             x == outbuf \o BufferedEcho
  <2>1. n \in 0..Len(pending) /\ BufferedEcho \in Seq(Items)
    BY <1>1, EchoFacts
  <2>2. x \in Seq(Items) /\ Len(x) = Len(outbuf) + n
    <3> HIDE DEF BufferedEcho
    <3> QED
      BY <1>1, <2>1
  <2>3. outbuf' = <<>> /\ pending' = Rest(pending, n) /\ screen' = screen \o Numbers(x)
        /\ pc # "push" /\ pc' = "wait" /\ pc # "observe" /\ pc # "finish"
    BY <1>5 DEF Draw, DrawTail
  <2> HIDE DEF n, x
  <2>4. Len(pending') = Len(pending) - n
    BY <1>1, <2>1, <2>3, CutFacts
  <2>5. Numbers(x) \in Seq(1..MaxOutput) /\ Len(Numbers(x)) = Len(x)
    BY <2>2, NumbersFacts
  <2>6. Len(screen') = Len(screen) + Len(x)
    <3> DEFINE u == Numbers(x)
               S == 1..MaxOutput
    <3>1. u \in Seq(S) /\ Len(u) = Len(x) /\ screen' = screen \o u /\ screen \in Seq(S)
      BY <1>1, <2>3, <2>5
    <3> HIDE DEF u, S
    <3> QED
      BY <3>1, LenConcat
  <2>7. Len(outbuf') = 0
    BY <2>3
  <2>8. SeenBy' = SeenBy
    <3>1. SeenBy' = Len(screen') + Len(outbuf') + Len(pending')
      BY <2>3 DEF SeenBy
    <3>2. SeenBy = Len(screen) + Len(outbuf) + Len(pending)
      BY <1>2, <2>3 DEF SeenBy
    <3> QED
      BY <1>2, <2>1, <2>2, <2>4, <2>6, <2>7, <3>1, <3>2
  <2> QED
    BY <2>3, <2>8 DEF Observe, Finish
<1>6. CASE KeepTail
  <2>1. outbuf' = <<>> /\ pending' = pending /\ screen' = screen \o Numbers(outbuf)
        /\ pc = "echo" /\ pc' = "wait"
    BY <1>6 DEF KeepTail, FlushBeforeWait
  <2>2. Numbers(outbuf) \in Seq(1..MaxOutput) /\ Len(Numbers(outbuf)) = Len(outbuf)
    BY <1>1, NumbersFacts
  <2>3. Len(screen') = Len(screen) + Len(outbuf)
    <3> DEFINE u == Numbers(outbuf)
               S == 1..MaxOutput
    <3>1. u \in Seq(S) /\ Len(u) = Len(outbuf) /\ screen' = screen \o u /\ screen \in Seq(S)
      BY <1>1, <2>1, <2>2
    <3> HIDE DEF u, S
    <3> QED
      BY <3>1, LenConcat
  <2>4. SeenBy' = SeenBy
    <3>1. SeenBy' = Len(screen') + 0 + Len(pending)
      BY <2>1 DEF SeenBy
    <3>2. SeenBy = Len(screen) + Len(outbuf) + Len(pending)
      BY <1>2, <2>1 DEF SeenBy
    <3> QED
      BY <1>2, <2>3, <3>1, <3>2
  <2> QED
    BY <2>1, <2>4 DEF Observe, Finish
<1>7. CASE Read \/ End
  <2>1. UNCHANGED <<screen, outbuf, pending>> /\ pc = "wait" /\ pc' # "push"
    BY <1>7 DEF Read, End, renderVars
  <2> QED
    BY <1>2, <2>1 DEF SeenBy, Observe, Finish
<1>8. CASE UNCHANGED <<pc, chunk, screen, outbuf, pending>>
  BY <1>8 DEF SeenBy, Observe, Finish
<1>9. CASE Program \/ ReadKey
  BY <1>8, <1>9 DEF Program, ReadKey, readVars, renderVars
<1>10. CASE UNCHANGED <<setup, pty, last, named, readVars, renderVars, detectVars>> /\ (over => over')
  BY <1>8, <1>10 DEF readVars, renderVars
<1> QED
  BY <1>3, <1>4, <1>5, <1>6, <1>7, <1>9, <1>10, Asides

LEMMA FlightItems ==
  ASSUME TypeOK, NEW i \in 1..Len(InFlight), i > Len(outbuf) + Len(pending)
  PROVE  IF i <= Len(outbuf) + Len(pending) + Len(chunk)
         THEN InFlight[i] = chunk[i - (Len(outbuf) + Len(pending))]
         ELSE i <= Len(outbuf) + Len(pending) + Len(chunk) + Len(carry)
                => InFlight[i] = carry[i - (Len(outbuf) + Len(pending) + Len(chunk))]
<1>0. /\ Len(pty) \in Nat /\ Len(chunk) \in Nat /\ Len(carry) \in Nat /\ Len(pending) \in Nat
      /\ Len(outbuf) \in Nat
      /\ Len(InFlight) = Len(outbuf) + Len(pending) + Len(chunk) + Len(carry) + Len(pty)
  BY SeenFacts, FlightIsSeq
<1>1. /\ pty \in Seq(Items) /\ chunk \in Seq(Items) /\ carry \in Seq(Items)
      /\ pending \in Seq(Items) /\ outbuf \in Seq(Items)
  BY Sequences
<1> DEFINE h == outbuf \o pending
           hc == h \o chunk
           hcc == hc \o carry
<1>2. h \in Seq(Items) /\ Len(h) = Len(outbuf) + Len(pending)
  BY <1>1
<1> HIDE DEF h
<1>3. /\ hc \in Seq(Items) /\ Len(hc) = Len(h) + Len(chunk)
      /\ \A j \in 1..(Len(h) + Len(chunk)) : hc[j] = IF j <= Len(h) THEN h[j] ELSE chunk[j - Len(h)]
  <2>1. h \in Seq(Items) /\ chunk \in Seq(Items)
    BY <1>1, <1>2
  <2> QED
    BY <2>1, ConcatProperties
<1> HIDE DEF hc
<1>4. /\ hcc \in Seq(Items) /\ Len(hcc) = Len(hc) + Len(carry)
      /\ \A j \in 1..(Len(hc) + Len(carry)) : hcc[j] = IF j <= Len(hc) THEN hc[j] ELSE carry[j - Len(hc)]
  <2>1. hc \in Seq(Items) /\ carry \in Seq(Items)
    BY <1>1, <1>3
  <2> QED
    BY <2>1, ConcatProperties
<1> HIDE DEF hcc
<1>5. \A j \in 1..(Len(hcc) + Len(pty)) : (hcc \o pty)[j] = IF j <= Len(hcc) THEN hcc[j] ELSE pty[j - Len(hcc)]
  <2>1. hcc \in Seq(Items) /\ pty \in Seq(Items)
    BY <1>1, <1>4
  <2> QED
    BY <2>1, ConcatProperties
<1>6. InFlight = hcc \o pty
  BY DEF InFlight, h, hc, hcc
<1>7. CASE i <= Len(hc)
  <2>1. i \in 1..(Len(hcc) + Len(pty)) /\ i <= Len(hcc) /\ i \in 1..(Len(hc) + Len(carry))
        /\ i \in 1..(Len(h) + Len(chunk)) /\ ~(i <= Len(h))
    BY <1>0, <1>2, <1>3, <1>4, <1>7
  <2>2. InFlight[i] = hcc[i] /\ hcc[i] = hc[i] /\ hc[i] = chunk[i - Len(h)]
    BY <1>3, <1>4, <1>5, <1>6, <1>7, <2>1
  <2> QED
    BY <1>0, <1>2, <1>3, <1>7, <2>2
<1>8. CASE ~(i <= Len(hc)) /\ i <= Len(hcc)
  <2>1. i \in 1..(Len(hcc) + Len(pty)) /\ i \in 1..(Len(hc) + Len(carry))
    BY <1>0, <1>2, <1>3, <1>4, <1>8
  <2>2. InFlight[i] = hcc[i] /\ hcc[i] = carry[i - Len(hc)]
    BY <1>4, <1>5, <1>6, <1>8, <2>1
  <2> QED
    BY <1>0, <1>2, <1>3, <1>4, <1>8, <2>2
<1>9. CASE ~(i <= Len(hcc))
  BY <1>0, <1>2, <1>3, <1>4, <1>9
<1> QED
  BY <1>0, <1>2, <1>3, <1>4, <1>7, <1>8, <1>9

(* Of what has not been examined, only a cut-off escape sequence is left at    *)
(* the end.                                                                  *)
LEMMA NothingAtTheEnd ==
  ASSUME TypeOK, EscapesAreWhole, chunk = <<>>, pty = <<>>
  PROVE  ~DeviceAt(InFlight, Len(screen), SeenBy)
<1> SUFFICES ASSUME NEW i \in 1..Len(InFlight), InFlight[i].byte = "d", Len(screen) + i > SeenBy
             PROVE  FALSE
  BY DEF DeviceAt
<1>1. /\ Len(carry) \in Nat /\ Len(pending) \in Nat /\ Len(outbuf) \in Nat /\ Len(screen) \in Nat
      /\ Len(chunk) = 0 /\ Len(pty) = 0 /\ Len(InFlight) = Len(outbuf) + Len(pending) + Len(carry)
  BY SeenFacts, FlightIsSeq
<1>2. SeenBy = Len(screen) + Len(outbuf) + Len(pending)
  BY <1>1 DEF SeenBy
<1>3. i > Len(outbuf) + Len(pending) /\ i <= Len(outbuf) + Len(pending) + Len(carry)
  BY <1>1, <1>2
<1>4. InFlight[i] = carry[i - (Len(outbuf) + Len(pending))]
  BY <1>1, <1>3, FlightItems
<1>5. i - (Len(outbuf) + Len(pending)) \in 1..Len(carry)
  BY <1>1, <1>3
<1> QED
  BY <1>4, <1>5 DEF EscapesAreWhole

(* What is on its way keeps its place until it has been seen. *)
LEMMA DeviceStays ==
  ASSUME TypeOK, TypeOK', Stays \/ Grows \/ Drawn, SeenBy' = SeenBy,
         named => DeviceAt(InFlight, Len(screen), SeenBy), named'
  PROVE  DeviceAt(InFlight, Len(screen), SeenBy)'
<1>a. /\ Len(screen) \in Nat /\ Len(InFlight) \in Nat /\ SeenBy \in Nat /\ SampleLimit \in Nat
      /\ Len(screen) <= SeenBy /\ SeenBy <= Len(screen) + Len(InFlight)
      /\ Written = Len(screen) + Len(InFlight)
  BY SeenFacts
<1>1. CASE Stays
  BY <1>1 DEF Stays, DeviceAt
<1>2. CASE Grows
  <2>1. PICK item \in Items : /\ InFlight' = Append(InFlight, item)
                              /\ named' = (named \/ (item.byte = "d" /\ Written < SampleLimit))
    BY <1>2 DEF Grows
  <2>2. screen' = screen /\ InFlight \in Seq(Items)
    BY <1>2, FlightIsSeq DEF Grows
  <2>3. /\ Len(InFlight') = Len(InFlight) + 1 /\ InFlight'[Len(InFlight) + 1] = item
        /\ \A i \in 1..Len(InFlight) : InFlight'[i] = InFlight[i]
    BY <2>1, <2>2
  <2>4. CASE named
    <3>1. PICK i \in 1..Len(InFlight) : InFlight[i].byte = "d" /\ Len(screen) + i <= SampleLimit
                                        /\ Len(screen) + i > SeenBy
      BY <2>4 DEF DeviceAt
    <3>2. i \in 1..Len(InFlight') /\ InFlight'[i].byte = "d"
      BY <1>a, <2>3, <3>1
    <3> QED
      BY <2>2, <3>1, <3>2 DEF DeviceAt
  <2>5. CASE ~named
    <3>1. item.byte = "d" /\ Written < SampleLimit
      BY <2>1, <2>5
    <3> DEFINE i == Len(InFlight) + 1
    <3>2. i \in 1..Len(InFlight') /\ InFlight'[i].byte = "d" /\ Len(screen) + i <= SampleLimit
          /\ Len(screen) + i > SeenBy
      BY <1>a, <2>3, <3>1
    <3> HIDE DEF i
    <3> QED
      BY <2>2, <3>2 DEF DeviceAt
  <2> QED
    BY <2>4, <2>5
<1>3. CASE Drawn
  <2>1. PICK x \in Seq(Items), y \in Seq(Items) :
          InFlight = x \o y /\ InFlight' = y /\ screen' = screen \o Numbers(x)
    BY <1>3 DEF Drawn
  <2>2. Len(screen') = Len(screen) + Len(x)
    <3> DEFINE u == Numbers(x)
               S == 1..MaxOutput
    <3>1. u \in Seq(S) /\ Len(u) = Len(x) /\ screen' = screen \o u /\ screen \in Seq(S)
      BY <2>1, NumbersFacts, Sequences
    <3> HIDE DEF u, S
    <3> QED
      BY <3>1, LenConcat
  <2>3. PICK i \in 1..Len(InFlight) : InFlight[i].byte = "d" /\ Len(screen) + i <= SampleLimit
                                      /\ Len(screen) + i > SeenBy
    BY <1>3 DEF Drawn, DeviceAt
  <2>4. Len(screen') <= SeenBy
    <3>1. /\ Len(screen') \in Nat /\ Len(outbuf') \in Nat /\ Len(pending') \in Nat /\ Len(chunk') \in Nat
      <4>1. /\ screen' \in Seq(1..MaxOutput) /\ outbuf' \in Seq(Items) /\ pending' \in Seq(Items)
            /\ chunk' \in Seq(Items)
        BY DEF TypeOK
      <4> QED
        BY <4>1
    <3>2. SeenBy' \in {Len(screen') + Len(outbuf') + Len(pending'),
                       Len(screen') + Len(outbuf') + Len(pending') + Len(chunk')}
      BY <3>1, SeenIs DEF SeenBy
    <3> QED
      BY <3>1, <3>2
  <2>5. /\ Len(x) \in Nat /\ Len(y) \in Nat /\ Len(InFlight) = Len(x) + Len(y)
        /\ \A j \in 1..(Len(x) + Len(y)) : InFlight[j] = IF j <= Len(x) THEN x[j] ELSE y[j - Len(x)]
    BY <2>1, ConcatProperties
  <2>6. i - Len(x) \in 1..Len(y) /\ ~(i <= Len(x)) /\ i \in 1..(Len(x) + Len(y))
        /\ Len(screen') + (i - Len(x)) = Len(screen) + i
    BY <1>a, <2>2, <2>3, <2>4, <2>5
  <2>7. y[i - Len(x)].byte = "d"
    BY <2>3, <2>5, <2>6
  <2> QED
    BY <2>1, <2>3, <2>6, <2>7 DEF DeviceAt
<1> QED
  BY <1>1, <1>2, <1>3

(* A sample that says so, and is not waiting for its pass, has a profile. *)
PassDone == setup.builds /\ sample.device /\ ~Unseen => profile = "device"

SampleIsSettled == ~first /\ ~detecting /\ ~setup.dynamic => sample.device \/ sample.len >= SampleLimit

Named == named /\ ~setup.dynamic /\ ~sample.device => DeviceAt(InFlight, Len(screen), SeenBy)

AtTheEnd == pc = "finish" /\ setup.builds /\ ~setup.dynamic /\ named => profile = "device"

LEMMA AheadIs ==
  DeviceIsAhead <=> sample.len <= SeenBy /\ SampleIsSettled /\ PassDone /\ Named /\ AtTheEnd
BY DEF DeviceIsAhead, SampleIsSettled, PassDone, Named, AtTheEnd, DeviceAt

LEMMA ObserveDetects ==
  ASSUME TypeOK, DeviceIsAhead, Observe, SeenBy' = SeenBy + Len(chunk), InFlight' = InFlight,
         UNCHANGED <<screen, named>>
  PROVE  sample.len' <= SeenBy' /\ SampleIsSettled' /\ PassDone' /\ Named' /\ AtTheEnd'
<1>a. /\ Len(chunk) \in Nat /\ SeenBy \in Nat /\ Len(screen) \in Nat /\ SampleLimit \in Nat
      /\ Len(InFlight) \in Nat
  BY SeenFacts
<1>b. sample \in [len : Nat, device : BOOLEAN] /\ since \in Nat /\ detecting \in BOOLEAN
  BY DEF TypeOK
<1>c. sample.len <= SeenBy /\ SampleIsSettled /\ PassDone /\ Named
  BY AheadIs
<1>d. /\ Extended.len = sample.len + Len(chunk)
      /\ Extended.device = (sample.device \/ \E i \in 1..Len(chunk) : chunk[i].byte = "d")
  BY Sequences DEF Extended, TypeOK
<1>e. pc = "observe" /\ pc' = "push" /\ first' = FALSE /\ setup' = setup
      /\ (IF first THEN DetectFirst ELSE DetectLater)
  BY DEF Observe, Elsewhere
<1>1. AtTheEnd'
  BY <1>e DEF AtTheEnd
<1>2. sample'.len <= SeenBy'
  <2>1. sample' = Extended \/ sample' = sample
    BY <1>e, Zenon DEF DetectFirst, DetectLater, detectVars
  <2> QED
    BY <1>a, <1>b, <1>c, <1>d, <2>1
<1>3. CASE first \/ (detecting /\ sample.len < SampleLimit)
  <2>1. sample' = Extended
    BY <1>e, <1>3, Zenon DEF DetectFirst, DetectLater
  <2>2. Named'
    <3> SUFFICES ASSUME named, ~setup.dynamic, ~Extended.device
                 PROVE  DeviceAt(InFlight, Len(screen), SeenBy + Len(chunk))
      BY <1>e, <2>1 DEF Named
    <3>1. ~sample.device
      BY <1>d
    <3>2. PICK i \in 1..Len(InFlight) : InFlight[i].byte = "d" /\ Len(screen) + i <= SampleLimit
                                        /\ Len(screen) + i > SeenBy
      BY <1>c, <3>1 DEF Named, DeviceAt
    <3>3. CASE Len(screen) + i > SeenBy + Len(chunk)
      BY <3>2, <3>3 DEF DeviceAt
    <3>4. CASE ~(Len(screen) + i > SeenBy + Len(chunk))
      <4>1. Len(outbuf) \in Nat /\ Len(pending) \in Nat /\ SeenBy = Len(screen) + Len(outbuf) + Len(pending)
        BY <1>e, SeenFacts DEF SeenBy
      <4>2. i > Len(outbuf) + Len(pending) /\ i <= Len(outbuf) + Len(pending) + Len(chunk)
        BY <1>a, <3>2, <3>4, <4>1
      <4>3. InFlight[i] = chunk[i - (Len(outbuf) + Len(pending))]
        BY <4>2, FlightItems
      <4>4. i - (Len(outbuf) + Len(pending)) \in 1..Len(chunk)
        BY <1>a, <4>1, <4>2
      <4> QED
        BY <1>d, <3>2, <4>3, <4>4
    <3> QED
      BY <3>3, <3>4
  <2>3. CASE first
    <3>1. since' = 0 /\ Detect(Extended) /\ detecting' = (~setup.dynamic /\ ~Extended.device)
      BY <1>e, <2>3 DEF DetectFirst
    <3>2. PassDone'
      BY <1>e, <2>1, <3>1 DEF PassDone, Detect
    <3>3. SampleIsSettled'
      BY <1>e, <2>1, <3>1 DEF SampleIsSettled
    <3> QED
      BY <1>1, <1>2, <2>2, <3>2, <3>3
  <2>4. CASE ~first /\ Rerun
    <3>1. Detect(Extended) /\ detecting' = (~Extended.device /\ Extended.len < SampleLimit)
      BY <1>3, <1>e, <2>4, Zenon DEF DetectLater
    <3>2. PassDone'
      BY <1>e, <2>1, <3>1 DEF PassDone, Detect
    <3>3. SampleIsSettled'
      <4>1. Extended.len \in Nat
        BY <1>a, <1>b, <1>d
      <4> QED
        <5>1. ~detecting' => Extended.device \/ ~(Extended.len < SampleLimit)
          BY <3>1, Zenon
        <5>2. ~(Extended.len < SampleLimit) => Extended.len >= SampleLimit
          BY <1>a, <4>1
        <5> QED
          BY <1>e, <2>1, <5>1, <5>2, Zenon DEF SampleIsSettled
    <3> QED
      BY <1>1, <1>2, <2>2, <3>2, <3>3
  <2>5. CASE ~first /\ ~Rerun
    <3>1. since' = since + Len(chunk) /\ detecting' = detecting /\ profile' = profile /\ detecting
      BY <1>3, <1>e, <2>5, Zenon DEF DetectLater
    <3>2. PassDone'
      <4> SUFFICES ASSUME setup.builds, Extended.device, ~(since' > 0) PROVE profile = "device"
        BY <1>e, <2>1, <3>1 DEF PassDone, Unseen
      <4>1. since = 0 /\ Len(chunk) = 0
        BY <1>a, <1>b, <3>1
      <4>2. sample.device
        <5>1. \A i \in 1..Len(chunk) : FALSE
          BY <4>1
        <5> QED
          BY <1>d, <5>1, Zenon
      <4> QED
        BY <1>c, <4>1, <4>2 DEF PassDone, Unseen
    <3>3. SampleIsSettled'
      BY <3>1 DEF SampleIsSettled
    <3> QED
      BY <1>1, <1>2, <2>2, <3>2, <3>3
  <2> QED
    BY <2>3, <2>4, <2>5
<1>4. CASE ~first /\ ~(detecting /\ sample.len < SampleLimit)
  <2>1. UNCHANGED <<sample, since, detecting, profile>>
    BY <1>e, <1>4 DEF DetectLater, detectVars
  <2>2. PassDone' /\ SampleIsSettled'
    BY <1>c, <1>4, <1>e, <2>1 DEF PassDone, SampleIsSettled, Unseen
  <2>3. Named'
    <3> SUFFICES ASSUME named, ~setup.dynamic, ~sample.device PROVE FALSE
      BY <1>e, <2>1 DEF Named
    <3>1. sample.len >= SampleLimit
      BY <1>4, <1>a, <1>b, <1>c DEF SampleIsSettled
    <3>2. PICK i \in 1..Len(InFlight) : Len(screen) + i <= SampleLimit /\ Len(screen) + i > SeenBy
      BY <1>c DEF Named, DeviceAt
    <3> QED
      BY <1>a, <1>b, <1>c, <3>1, <3>2
  <2> QED
    BY <1>1, <1>2, <2>2, <2>3
<1> QED
  BY <1>3, <1>4

LEMMA DeviceIsAheadKept ==
  ASSUME TypeOK, TypeOK', InHand, EscapesAreWhole, DeviceIsAhead, [Next]_vars
  PROVE  DeviceIsAhead'
<1>a. sample.len <= SeenBy /\ SampleIsSettled /\ PassDone /\ Named /\ AtTheEnd
  BY AheadIs
<1>b. ASSUME (sample.len)' <= SeenBy', SampleIsSettled', PassDone', Named', AtTheEnd'
      PROVE  DeviceIsAhead'
  BY <1>b DEF DeviceIsAhead, SampleIsSettled, PassDone, Named, AtTheEnd, DeviceAt
<1>c. Stays \/ Grows \/ Drawn
  BY FlightSteps
<1>1. CASE Observe
  <2>1. SeenBy' = SeenBy + Len(chunk)
    BY <1>1, SeenKept DEF Observe, Finish
  <2>2. InFlight' = InFlight /\ UNCHANGED <<screen, named>>
    BY <1>1 DEF Observe, Elsewhere, commandVars, renderVars, InFlight
  <2> QED
    BY <1>1, <1>b, <2>1, <2>2, ObserveDetects
<1>2. CASE Finish
  <2>1. pc' = "over" /\ chunk = <<>> /\ pty = <<>>
        /\ UNCHANGED <<setup, named, first, sample, since, detecting, profile>>
    BY <1>2 DEF Finish, Elsewhere, commandVars, detectVars, InHand
  <2>2. SeenBy <= SeenBy' /\ sample.len \in Nat /\ SeenBy' \in Nat /\ SeenBy \in Nat
    <3>1. /\ Len(carry) \in Nat /\ Len(pending) \in Nat /\ Len(outbuf) \in Nat /\ Len(screen) \in Nat
          /\ SeenBy \in Nat
      BY SeenFacts
    <3>2. outbuf \o Leftover \in Seq(Items) /\ Len(outbuf \o Leftover) = Len(outbuf) + Len(pending) + Len(carry)
      <4>1. pending \in Seq(Items) /\ carry \in Seq(Items)
        BY Sequences
      <4>2. Leftover \in Seq(Items) /\ Len(Leftover) = Len(pending) + Len(carry)
        BY <4>1, LenConcat DEF Leftover
      <4>3. outbuf \in Seq(Items)
        BY Sequences
      <4> QED
        BY <3>1, <4>2, <4>3, LenConcat
    <3> DEFINE u == Numbers(outbuf \o Leftover)
               S == 1..MaxOutput
    <3>3. u \in Seq(S) /\ Len(u) = Len(outbuf) + Len(pending) + Len(carry)
          /\ screen' = screen \o u /\ screen \in Seq(S)
      BY <1>2, <3>2, NumbersFacts, Sequences DEF Finish
    <3> HIDE DEF u, S
    <3>4. Len(screen') = Len(screen) + Len(u)
      BY <3>3, LenConcat
    <3>5. outbuf' = <<>> /\ pending' = <<>>
      BY <1>2 DEF Finish
    <3>6. SeenBy' = Len(screen')
      <4>1. SeenBy' = Len(screen') + 0 + 0 + 0
        BY <2>1, <3>5 DEF SeenBy
      <4> QED
        BY <3>1, <3>3, <3>4, <4>1
    <3>7. SeenBy = Len(screen) + Len(outbuf) + Len(pending)
      <4>1. pc = "finish"
        BY <1>2 DEF Finish
      <4> QED
        BY <3>1, <4>1 DEF SeenBy
    <3>8. sample.len \in Nat
      BY DEF TypeOK
    <3> HIDE DEF SeenBy
    <3> QED
      BY <3>1, <3>3, <3>4, <3>6, <3>7, <3>8
  <2>3. ~DeviceAt(InFlight, Len(screen), SeenBy)
    BY <2>1, NothingAtTheEnd
  <2>4. (sample.len)' <= SeenBy' /\ SampleIsSettled' /\ PassDone' /\ AtTheEnd'
    BY <1>a, <2>1, <2>2 DEF SampleIsSettled, PassDone, AtTheEnd, Unseen
  <2>5. Named'
    BY <1>a, <2>1, <2>3 DEF Named
  <2> QED
    BY <1>b, <2>4, <2>5
<1>3. CASE ~Observe /\ ~Finish
  <2>1. SeenBy' = SeenBy
    BY <1>3, SeenKept
  <2>2. UNCHANGED <<setup, sample, since, detecting, first>>
    <3> USE DEF Elsewhere, detectVars, readVars
    <3>1. CASE Program \/ ReadKey \/ Read \/ Push \/ End
      BY <3>1 DEF Program, ReadKey, Read, Push, End
    <3>2. CASE Draw \/ KeepTail
      BY <3>2 DEF Draw, DrawTail, KeepTail
    <3> QED
      BY <1>3, <3>1, <3>2, Asides
  <2>3. Named'
    <3> SUFFICES ASSUME named', ~setup.dynamic, ~sample.device
                 PROVE  DeviceAt(InFlight, Len(screen), SeenBy)'
      BY <2>2 DEF Named
    <3>1. named => DeviceAt(InFlight, Len(screen), SeenBy)
      BY <1>a DEF Named
    <3> QED
      BY <1>c, <2>1, <3>1, DeviceStays
  <2>4. (sample.len)' <= SeenBy' /\ SampleIsSettled'
    BY <1>a, <2>1, <2>2 DEF SampleIsSettled
  <2>5. CASE End
    <3>1. pc = "wait" /\ pty = <<>> /\ chunk = <<>> /\ named' = named
          /\ (IF Unseen THEN Detect(sample) ELSE UNCHANGED profile)
      BY <2>5 DEF End, Elsewhere, commandVars, InHand
    <3>2. PassDone'
      BY <1>a, <2>2, <3>1 DEF PassDone, Detect, Unseen
    <3>3. ~DeviceAt(InFlight, Len(screen), SeenBy)
      BY <3>1, NothingAtTheEnd
    <3>4. AtTheEnd'
      <4> SUFFICES ASSUME setup.builds, ~setup.dynamic, named PROVE profile' = "device"
        BY <2>2, <3>1 DEF AtTheEnd
      <4>1. sample.device
        BY <1>a, <3>3 DEF Named
      <4> QED
        BY <1>a, <3>1, <4>1 DEF PassDone, Detect
    <3> QED
      BY <1>b, <2>3, <2>4, <3>2, <3>4
  <2>6. CASE ~End
    <3>1. profile' = profile /\ (pc' = "finish" => pc = "finish")
      <4> USE DEF Elsewhere, detectVars, readVars
      <4>1. CASE Program \/ ReadKey \/ Read \/ Push
        BY <4>1 DEF Program, ReadKey, Read, Push
      <4>2. CASE Draw \/ KeepTail
        BY <4>2 DEF Draw, DrawTail, KeepTail
      <4> QED
        BY <1>3, <2>6, <4>1, <4>2, Asides
    <3>2. PassDone'
      BY <1>a, <2>2, <3>1 DEF PassDone, Unseen
    <3>3. pc = "finish" => named' = named
      <4>1. CASE Program \/ ReadKey
        BY <4>1 DEF Program, ReadKey, InHand
      <4>2. CASE Read \/ Push \/ Draw \/ KeepTail
        BY <4>2 DEF Read, Push, Draw, KeepTail
      <4> QED
        BY <1>3, <2>6, <4>1, <4>2, Asides
    <3>4. AtTheEnd'
      BY <1>a, <2>2, <3>1, <3>3 DEF AtTheEnd
    <3> QED
      BY <1>b, <2>3, <2>4, <3>2, <3>4
  <2> QED
    BY <2>5, <2>6
<1> QED
  BY <1>1, <1>2, <1>3

LEMMA DeviceIsDetectedKept ==
  ASSUME InHand, DeviceIsAhead, DeviceIsDetected, [Next]_vars
  PROVE  DeviceIsDetected'
<1>1. CASE Finish
  <2>1. pc = "finish" /\ UNCHANGED <<setup, named, profile>>
    BY <1>1 DEF Finish, Elsewhere, commandVars, detectVars
  <2> QED
    BY <2>1 DEF DeviceIsAhead, DeviceIsDetected
<1>2. CASE Program \/ ReadKey
  BY <1>2 DEF Program, ReadKey, InHand, DeviceIsDetected, readVars
<1>3. CASE Read \/ Observe \/ Push \/ KeepTail \/ End
  BY <1>3 DEF Read, Observe, Push, KeepTail, End, DeviceIsDetected
<1>4. CASE Draw
  BY <1>4 DEF Draw, DrawTail, DeviceIsDetected
<1>5. CASE UNCHANGED <<setup, pty, last, named, readVars, renderVars, detectVars>>
  BY <1>5 DEF DeviceIsDetected, readVars, detectVars
<1> QED
  BY <1>1, <1>2, <1>3, <1>4, <1>5, Asides

-----------------------------------------------------------------------------
(* The loop's invariant *)

LEMMA LoopStarts == Init => StreamInv /\ CommandBeforeOutput
<1> SUFFICES ASSUME Init PROVE StreamInv /\ CommandBeforeOutput
  OBVIOUS
<1>1. /\ setup \in Setups /\ typedKeys = 0 /\ input = <<>> /\ pty = <<>> /\ last = "s" /\ over = FALSE
      /\ named = FALSE /\ fwd = "read" /\ key = None /\ channel = <<>> /\ recent = <<>> /\ pc = "wait"
      /\ chunk = <<>> /\ first = TRUE /\ carry = <<>> /\ pending = <<>> /\ outbuf = <<>>
      /\ screen = <<>> /\ overlay = FALSE /\ sample = [len |-> 0, device |-> FALSE] /\ since = 0
      /\ detecting = FALSE /\ profile = "generic"
  BY DEF Init
<1>2. MaxKeys \in Nat /\ TokenLimit \in Nat
  BY LoopAssumption
<1>3. TypeOK
  <2>1. <<>> \in Seq(Items) /\ <<>> \in Seq(Keys) /\ <<>> \in Seq(1..MaxOutput)
    OBVIOUS
  <2>2. {pty, chunk, carry, pending, outbuf} \subseteq Seq(Items) /\ {input, channel} \subseteq Seq(Keys)
        /\ screen \in Seq(1..MaxOutput)
    BY <1>1, <2>1
  <2>3. sample \in [len : Nat, device : BOOLEAN] /\ since \in Nat /\ typedKeys \in 0..MaxKeys
    BY <1>1, <1>2
  <2>4. {over, first, overlay, detecting, named} \subseteq BOOLEAN
    BY <1>1
  <2> QED
    BY <1>1, <2>2, <2>3, <2>4 DEF TypeOK
<1>4. <<>> \o <<>> = <<>>
  <2>1. <<>> \in Seq(Items)
    OBVIOUS
  <2> QED
    BY <2>1, ConcatEmptySeq
<1>5. WaitsClean /\ DeviceIsDetected /\ InHand /\ HeldIsToken /\ CommandBeforeOutput
  BY <1>1, <1>2 DEF WaitsClean, DeviceIsDetected, InHand, HeldIsToken, CommandBeforeOutput
<1>6. EscapesAreWhole
  BY <1>1, <1>4 DEF EscapesAreWhole, Unread
<1>7. DeviceIsAhead
  <2>1. SeenBy = 0
    BY <1>1 DEF SeenBy
  <2> QED
    BY <1>1, <2>1 DEF DeviceIsAhead
<1>8. KeysInOrder
  BY <1>1, <1>4 DEF KeysInOrder
<1> QED
  BY <1>3, <1>5, <1>6, <1>7, <1>8 DEF StreamInv

(* The invariant holds in every run, for every setup and every limit: nothing *)
(* rendered is left in a buffer while the loop waits, at most one short token *)
(* is held back, and a device named in the first output selects its profile.  *)
THEOREM LoopSafety == Spec => []StreamInv
<1>1. StreamInv /\ [Next]_vars => StreamInv'
  <2> SUFFICES ASSUME StreamInv, [Next]_vars PROVE StreamInv'
    OBVIOUS
  <2>1. TypeOK /\ WaitsClean /\ DeviceIsDetected /\ InHand /\ EscapesAreWhole /\ HeldIsToken
        /\ DeviceIsAhead /\ KeysInOrder
    BY DEF StreamInv
  <2>2. TypeOK'
    BY <2>1, TypeKept
  <2>3. InHand' /\ EscapesAreWhole' /\ HeldIsToken' /\ KeysInOrder'
    BY <2>1, <2>2, InHandKept, EscapesAreWholeKept, HeldIsTokenKept, KeysInOrderKept
  <2>4. WaitsClean'
    BY <2>1, <2>2, <2>3, WaitsCleanKept
  <2>5. DeviceIsAhead'
    BY <2>1, <2>2, DeviceIsAheadKept
  <2>6. DeviceIsDetected'
    BY <2>1, DeviceIsDetectedKept
  <2> QED
    BY <2>2, <2>3, <2>4, <2>5, <2>6 DEF StreamInv
<1> QED
  BY LoopStarts, <1>1, PTL DEF Spec

(* When the runtime has examined what a command put out, the command was      *)
(* recorded before, for every capacity of the channel.                       *)
THEOREM CommandsComeFirst == Spec => []CommandBeforeOutput
<1>1. StreamInv /\ StreamInv' /\ CommandBeforeOutput /\ [Next]_vars => CommandBeforeOutput'
  BY CommandBeforeOutputKept DEF StreamInv
<1> QED
  BY LoopStarts, LoopSafety, <1>1, PTL DEF Spec

-----------------------------------------------------------------------------
(* Every byte is drawn, once and in order *)

LEMMA TwoParts ==
  ASSUME NEW S, NEW f \in Seq(S), NEW g \in Seq(S)
  PROVE  /\ SubSeq(f \o g, 1, Len(f)) = f
         /\ SubSeq(f \o g, Len(f) + 1, Len(f \o g)) = g
<1>1. Len(f) \in Nat /\ Len(g) \in Nat /\ Len(f \o g) = Len(f) + Len(g)
  OBVIOUS
<1>2. SubSeq(f, 1, Len(f)) = f /\ SubSeq(g, 1, Len(g)) = g
  BY SubSeqFull
<1>3. SubSeq(f \o g, 1, Len(f)) = f
  <2>1. CASE f = <<>>
    BY <2>1, SubSeqEmpty
  <2>2. CASE f # <<>>
    <3>1. 1 \in 1..Len(f) /\ Len(f) \in 1..Len(f)
      BY <2>2
    <3> QED
      BY <1>2, <3>1, SubSeqOfConcat1
  <2> QED
    BY <2>1, <2>2
<1>4. SubSeq(f \o g, Len(f) + 1, Len(f \o g)) = g
  <2>1. CASE g = <<>>
    <3>1. SubSeq(f \o g, Len(f) + 1, Len(f \o g)) = <<>>
      BY <1>1, <2>1, SubSeqEmpty
    <3> QED
      BY <2>1, <3>1
  <2>2. CASE g # <<>>
    <3>1. Len(g) > 0
      BY <2>2
    <3>2. Len(f) + 1 \in Len(f)+1 .. Len(f)+Len(g) /\ Len(f) + Len(g) \in Len(f)+1 .. Len(f)+Len(g)
      BY <1>1, <3>1
    <3>3. SubSeq(f \o g, Len(f) + 1, Len(f) + Len(g))
            = SubSeq(g, Len(f) + 1 - Len(f), Len(f) + Len(g) - Len(f))
      BY <3>2, SubSeqOfConcat2
    <3>4. Len(f) + 1 - Len(f) = 1 /\ Len(f) + Len(g) - Len(f) = Len(g)
      BY <1>1
    <3> QED
      BY <1>1, <1>2, <3>3, <3>4
  <2> QED
    BY <2>1, <2>2
<1> QED
  BY <1>3, <1>4

LEMMA StaysIsStutter ==
  ASSUME Stays
  PROVE  UNCHANGED <<Numbers(InFlight), screen>>
BY DEF Stays

LEMMA GrowsIsSend ==
  ASSUME TypeOK, Grows
  PROVE  Relay!Send
<1>1. PICK item \in Items : InFlight' = Append(InFlight, item)
  BY DEF Grows
<1> DEFINE f == Numbers(InFlight)
           g == Numbers(<<item>>)
<1>2. InFlight \in Seq(Items) /\ <<item>> \in Seq(Items) /\ Len(<<item>>) = 1
  BY FlightIsSeq
<1>3. Append(InFlight, item) = InFlight \o <<item>>
  BY <1>2, AppendIsConcat
<1>4. Numbers(InFlight)' = f \o g
  BY <1>1, <1>2, <1>3, NumbersConcat
<1>5. f \in Seq(1..MaxOutput) /\ g \in Seq(1..MaxOutput) /\ Len(g) = 1
  BY <1>2, NumbersFacts
<1>6. Len(f \o g) = Len(f) + 1 /\ Len(f) \in Nat
  <2> DEFINE S == 1..MaxOutput
  <2> HIDE DEF f, g, S
  <2>1. f \in Seq(S) /\ g \in Seq(S) /\ Len(g) = 1
    BY <1>5 DEF S
  <2>2. Len(f \o g) = Len(f) + Len(g) /\ Len(f) \in Nat
    BY <2>1, ConcatProperties
  <2> QED
    BY <2>1, <2>2
<1>7. SubSeq(f \o g, 1, Len(f)) = f /\ SubSeq(f, 1, Len(f)) = f
  <2> DEFINE S == 1..MaxOutput
  <2> HIDE DEF f, g, S
  <2>1. f \in Seq(S) /\ g \in Seq(S)
    BY <1>5 DEF S
  <2> QED
    BY <2>1, TwoParts, SubSeqFull
<1>8. UNCHANGED screen
  BY DEF Grows
<1> DEFINE h == f \o g
<1>10. Len(h) = Len(f) + 1 /\ Len(f) \in Nat /\ SubSeq(h, 1, Len(f)) = SubSeq(f, 1, Len(f))
  BY <1>6, <1>7
<1> HIDE DEF f, g, h
<1>9. f # h /\ Relay!IsPrefix(f, h)
  BY <1>10 DEF Relay!IsPrefix
<1> QED
  BY <1>4, <1>8, <1>9 DEF Relay!Send, f, h

LEMMA DrawnIsDeliver ==
  ASSUME TypeOK, Drawn
  PROVE  Relay!Deliver \/ UNCHANGED <<Numbers(InFlight), screen>>
<1>1. PICK x \in Seq(Items), y \in Seq(Items) :
        InFlight = x \o y /\ InFlight' = y /\ screen' = screen \o Numbers(x)
  BY DEF Drawn
<1> DEFINE f == Numbers(x)
           g == Numbers(y)
           S == 1..MaxOutput
<1>2. f \in Seq(S) /\ g \in Seq(S)
  BY NumbersFacts
<1>3. Numbers(InFlight) = f \o g /\ Numbers(InFlight)' = g
  BY <1>1, NumbersConcat
<1>4. screen' = screen \o f /\ screen \in Seq(S)
  BY <1>1 DEF TypeOK
<1> HIDE DEF f, g, S
<1>5. CASE f = <<>>
  <2>1. f \o g = g /\ screen \o f = screen
    BY <1>2, <1>4, <1>5, ConcatEmptySeq
  <2> QED
    BY <1>3, <1>4, <2>1
<1>6. CASE f # <<>>
  <2>1. SubSeq(f \o g, 1, Len(f)) = f /\ SubSeq(f \o g, Len(f) + 1, Len(f \o g)) = g
    BY <1>2, TwoParts
  <2>2. Len(f) \in DOMAIN (f \o g)
    BY <1>2, <1>6
  <2> QED
    BY <1>3, <1>4, <2>1, <2>2 DEF Relay!Deliver
<1> QED
  BY <1>5, <1>6

(* The read loop implements ByteRelay: whatever the reads' cuts, the holding  *)
(* back and the end of the command, every byte is drawn once and in order.   *)
THEOREM LoopRelays == Spec => DrawnInOrder
<1>1. Init => Relay!Init
  <2> SUFFICES ASSUME Init PROVE Relay!Init
    OBVIOUS
  <2>1. <<>> \in Seq(Items)
    OBVIOUS
  <2>2. <<>> \o <<>> = <<>>
    BY <2>1, ConcatEmptySeq
  <2>3. InFlight = <<>> /\ screen = <<>>
    BY <2>2 DEF Init, InFlight
  <2>4. Numbers(<<>>) = <<>>
    <3>1. Numbers(<<>>) \in Seq(1..MaxOutput) /\ Len(Numbers(<<>>)) = 0
      BY <2>1, NumbersFacts
    <3> HIDE DEF Numbers
    <3> QED
      BY <3>1, EmptySeq
  <2> QED
    BY <2>3, <2>4 DEF Relay!Init
<1>2. TypeOK /\ InHand /\ [Next]_vars
        => [Relay!Send \/ Relay!Deliver]_<<Numbers(InFlight), screen>>
  BY FlightSteps, StaysIsStutter, GrowsIsSend, DrawnIsDeliver
<1>3. StreamInv => TypeOK /\ InHand
  BY DEF StreamInv
<1> QED
  BY <1>1, <1>2, <1>3, LoopSafety, PTL DEF Spec, DrawnInOrder, Relay!Spec
=============================================================================
