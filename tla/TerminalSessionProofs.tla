------------------------ MODULE TerminalSessionProofs ------------------------
(***************************************************************************)
(* Raw mode between the wrapper and the shell, for every length of the     *)
(* session's self-pipe: the terminal is left as it was found, touched only *)
(* in turn, and no stop request is replayed after a resume.                *)
(***************************************************************************)
EXTENDS TerminalSession, SequenceTheorems, WellFoundedInduction, TLAPS

Ops == Entering \cup Leaving

-----------------------------------------------------------------------------
(* The drain of the self-pipe. *)

(* A set of naturals with 0, closed under successor up to n, has all of 0..n. *)
LEMMA CountingUp ==
  ASSUME NEW n \in Nat, NEW S, 0 \in S, \A i \in 0..n : i < n /\ i \in S => i + 1 \in S
  PROVE  0..n \subseteq S
<1> DEFINE Less == {ss \in Nat \X Nat : ss[1] < ss[2]}
           T == (0..n) \ S
<1>1. IsWellFoundedOn(Less, Nat)
  BY NatLessThanWellFounded, Zenon DEF OpToRel
<1>2. SUFFICES ASSUME T # {} PROVE FALSE
  OBVIOUS
<1>3. PICK m \in T : \A k \in T : <<k, m>> \notin Less
  <2> HIDE DEF Less
  <2>1. T \subseteq Nat
    OBVIOUS
  <2> QED
    BY <1>1, <1>2, <2>1, WFMin
<1>4. m \in 0..n /\ m # 0
  BY <1>3
<1>5. m - 1 \in 0..n /\ m - 1 < n /\ m = (m - 1) + 1 /\ <<m - 1, m>> \in Less
  BY <1>4
<1>6. m - 1 \in S
  BY <1>3, <1>5
<1> QED
  BY <1>3, <1>5, <1>6

(* The definition by recursion has a solution. *)
LEMMA KeptDefined ==
  ASSUME NEW bytes \in Seq(Bytes)
  PROVE  \A n \in 0..Len(bytes) :
           KeptOf(bytes)[n] = IF n = 0 THEN <<>>
                              ELSE IF bytes[n].sig \in StopRequests THEN KeptOf(bytes)[n - 1]
                              ELSE Append(KeptOf(bytes)[n - 1], bytes[n])
<1> DEFINE N == Len(bytes)
           Value(f, n) == IF n = 0 THEN <<>>
                          ELSE IF bytes[n].sig \in StopRequests THEN f[n - 1]
                          ELSE Append(f[n - 1], bytes[n])
           Solves(f, n) == f = [i \in 0..n |-> Value(f, i)]
           S == {n \in 0..N : \E f : Solves(f, n)}
<1>1. 0 \in S
  <2>1. Solves([i \in 0..0 |-> <<>>], 0)
    OBVIOUS
  <2> HIDE DEF Solves
  <2> QED
    BY <2>1
<1>2. ASSUME NEW n \in 0..N, n < N, n \in S PROVE n + 1 \in S
  <2>1. PICK f : Solves(f, n)
    BY <1>2
  <2> DEFINE g == [i \in 0..(n + 1) |-> Value(f, i)]
  <2>2. ASSUME NEW i \in 0..(n + 1) PROVE Value(g, i) = Value(f, i)
    <3>1. CASE i = 0
      BY <3>1
    <3>2. CASE i # 0
      <4>1. i - 1 \in 0..n /\ i - 1 \in 0..(n + 1)
        BY <3>2
      <4>2. f[i - 1] = Value(f, i - 1) /\ g[i - 1] = Value(f, i - 1)
        <5> HIDE DEF Value
        <5> QED
          BY <2>1, <4>1
      <4> HIDE DEF g
      <4> QED
        BY <3>2, <4>2
    <3> QED
      BY <3>1, <3>2
  <2>3. Solves(g, n + 1)
    <3> HIDE DEF Value
    <3> QED
      BY <2>2
  <2> HIDE DEF Solves, g
  <2> QED
    BY <1>2, <2>3
<1>3. \E f : Solves(f, N)
  <2>1. N \in S
    <3>1. N \in Nat
      OBVIOUS
    <3> HIDE DEF S, N
    <3>2. 0..N \subseteq S
      BY <1>1, <1>2, <3>1, CountingUp
    <3> QED
      BY <3>1, <3>2
  <2> HIDE DEF Solves
  <2> QED
    BY <2>1
<1>4. KeptOf(bytes) = CHOOSE f : Solves(f, N)
  BY DEF KeptOf
<1>5. Solves(KeptOf(bytes), N)
  <2> HIDE DEF Solves
  <2> QED
    BY <1>3, <1>4
<1>6. ASSUME NEW n \in 0..N PROVE KeptOf(bytes)[n] = Value(KeptOf(bytes), n)
  <2> HIDE DEF Value
  <2> QED
    BY <1>5
<1> QED
  BY <1>6

(* What is kept is bytes of the queue, and no stop request. *)
Others(bytes) == {bytes[i] : i \in {j \in 1..Len(bytes) : bytes[j].sig \notin StopRequests}}

LEMMA DropFacts ==
  ASSUME NEW bytes \in Seq(Bytes)
  PROVE  DropStopRequests(bytes) \in Seq(Others(bytes))
<1> DEFINE kept == KeptOf(bytes)
           Clean(k) == k \in Seq(Others(bytes))
           S == {n \in 0..Len(bytes) : Clean(kept[n])}
<1>1. 0 \in S
  <2>1. 0 \in 0..Len(bytes)
    OBVIOUS
  <2>2. kept[0] = <<>>
    BY <2>1, KeptDefined
  <2> HIDE DEF kept
  <2>3. Clean(kept[0])
    BY <2>2
  <2> HIDE DEF Clean
  <2> QED
    BY <2>1, <2>3
<1>2. ASSUME NEW n \in 0..Len(bytes), n < Len(bytes), n \in S PROVE n + 1 \in S
  <2>0. n + 1 \in 0..Len(bytes) /\ n + 1 # 0 /\ (n + 1) - 1 = n
    BY <1>2
  <2>1. kept[n + 1] = IF bytes[n + 1].sig \in StopRequests THEN kept[n]
                      ELSE Append(kept[n], bytes[n + 1])
    <3>1. kept[n + 1] = IF n + 1 = 0 THEN <<>>
                        ELSE IF bytes[n + 1].sig \in StopRequests THEN kept[(n + 1) - 1]
                        ELSE Append(kept[(n + 1) - 1], bytes[n + 1])
      BY <2>0, KeptDefined
    <3> QED
      BY <2>0, <3>1
  <2>3. Clean(kept[n])
    BY <1>2
  <2> HIDE DEF kept
  <2>4. Clean(kept[n + 1])
    <3>1. CASE bytes[n + 1].sig \in StopRequests
      BY <2>1, <2>3, <3>1
    <3>2. CASE bytes[n + 1].sig \notin StopRequests
      <4>1. kept[n + 1] = Append(kept[n], bytes[n + 1])
        BY <2>1, <3>2
      <4>2. bytes[n + 1] \in Others(bytes)
        BY <2>0, <3>2 DEF Others
      <4> QED
        BY <2>3, <4>1, <4>2
    <3> QED
      BY <3>1, <3>2
  <2> HIDE DEF Clean
  <2> QED
    BY <2>0, <2>4
<1>3. Clean(kept[Len(bytes)])
  <2>1. 0..Len(bytes) \subseteq S
    <3>1. Len(bytes) \in Nat
      OBVIOUS
    <3> HIDE DEF S
    <3> QED
      BY <1>1, <1>2, <3>1, CountingUp
  <2> QED
    BY <2>1
<1> QED
  BY <1>3 DEF DropStopRequests
-----------------------------------------------------------------------------
(* Types *)

LEMMA TypeKept == TypeOK /\ [Next]_vars => TypeOK'
<1> SUFFICES ASSUME TypeOK, [Next]_vars PROVE TypeOK'
  OBVIOUS
<1> USE DEF TypeOK, shellVars, signalVars, rawVars
<1>1. CASE Shell
  BY <1>1 DEF Shell, ShellTakes, GiveTerminal
<1>2. CASE Continue
  BY <1>2 DEF Continue, Signals, StopRequests
<1>3. CASE ExternalStop
  BY <1>3 DEF ExternalStop, Freeze
<1>4. ASSUME NEW sig \in Signals, Signal(sig) PROVE TypeOK'
  BY <1>4 DEF Signal
<1>5. ASSUME NEW sig \in Signals, TakeSignal(sig) PROVE TypeOK'
  <2>1. [sig |-> sig, age |-> "new"] \in Bytes
    BY DEF Bytes
  <2> QED
    BY <1>5, <2>1 DEF TakeSignal
<1>6. ASSUME NEW byte \in handling, WriteByte(byte) PROVE TypeOK'
  <2>1. queue' \in Seq(Bytes) /\ handling' \subseteq Bytes
    BY <1>6 DEF WriteByte
  <2> QED
    BY <1>6, <2>1 DEF WriteByte
<1>7. ASSUME NEW op \in Ops,
             Ask(op) \/ SettleEntering(op) \/ SettleLeaving(op) \/ Pass(op),
             main' \in MainPlaces, watch' \in WatchPlaces
      PROVE  TypeOK'
  <2>1. CASE Ask(op)
    <3>1. busy' \in Asked
      BY <2>1 DEF Ask, Asked, Ops, OwnsTerminal
    <3> QED
      BY <1>7, <2>1, <3>1 DEF Ask
  <2>2. CASE SettleEntering(op)
    BY <1>7, <2>2 DEF SettleEntering, Answered, SavedMode
  <2>3. CASE SettleLeaving(op)
    BY <1>7, <2>3 DEF SettleLeaving, Answered, RestoreTerminalAttrs
  <2>4. CASE Pass(op)
    BY <1>7, <2>4 DEF Pass
  <2> QED
    BY <1>7, <2>1, <2>2, <2>3, <2>4
<1>8. CASE Main
  <2>1. CASE Activate
    BY <1>7, <2>1 DEF Activate, Enter, Ops, Entering, MainPlaces
  <2>2. CASE StopRaw
    BY <1>7, <2>2 DEF StopRaw, Leave, Ops, Leaving, MainPlaces
  <2>3. CASE WriteStopByte
    <3>1. [sig |-> "stop", age |-> "new"] \in Bytes
      BY DEF Bytes
    <3>2. queue' \in Seq(Bytes)
      BY <2>3, <3>1 DEF WriteStopByte
    <3> QED
      BY <2>3, <3>2 DEF WriteStopByte, MainPlaces
  <2>4. CASE StartWatcher \/ TakeSnapshot \/ StartSession \/ BeginStop \/ JoinWatcher
    BY <2>4 DEF StartWatcher, TakeSnapshot, StartSession, BeginStop, JoinWatcher, Quiet,
                MainPlaces, WatchPlaces
  <2> QED
    BY <1>8, <2>1, <2>2, <2>3, <2>4 DEF Main
<1>9. CASE Watcher
  <2>1. CASE ReadByte
    <3>1. queue' \in Seq(Bytes) /\ Head(queue) \in Bytes
      BY <2>1 DEF ReadByte
    <3>2. watch' \in WatchPlaces
      BY <2>1, <3>1 DEF ReadByte, Bytes, Signals, StopRequests, WatchPlaces
    <3> QED
      BY <2>1, <3>1, <3>2 DEF ReadByte
  <2>2. CASE Terminate
    BY <1>7, <2>2 DEF Terminate, Leave, Ops, Leaving, WatchPlaces
  <2>3. CASE Reassert
    BY <1>7, <2>3 DEF Reassert, Enter, Ops, Entering, WatchPlaces
  <2>4. CASE Suspend
    BY <1>7, <2>4 DEF Suspend, Leave, Ops, Leaving, WatchPlaces
  <2>5. CASE Resume
    BY <1>7, <2>5 DEF Resume, Enter, Ops, Entering, WatchPlaces
  <2>6. CASE ExitBySignal
    BY <2>6 DEF ExitBySignal, WatchPlaces
  <2>7. CASE RaiseStop
    BY <2>7 DEF RaiseStop, Freeze, WatchPlaces
  <2>8. CASE Resumed
    <3>1. \A byte \in Bytes, age \in {"queued", "handling"} : Aged(byte, age) \in Bytes
      BY DEF Aged, Bytes
    <3>2. handling' \subseteq Bytes /\ queue' \in Seq(Bytes)
      BY <2>8, <3>1 DEF Resumed
    <3> QED
      BY <2>8, <3>2 DEF Resumed, WatchPlaces
  <2>9. CASE Drain
    <3>1. Others(queue) \subseteq Bytes
      BY DEF Others
    <3>2. queue' \in Seq(Bytes)
      BY <2>9, <3>1, DropFacts DEF Drain
    <3> QED
      BY <2>9, <3>2 DEF Drain, WatchPlaces
  <2> QED
    BY <1>9, <2>1, <2>2, <2>3, <2>4, <2>5, <2>6, <2>7, <2>8, <2>9 DEF Watcher
<1>10. CASE WindowCloses
  BY <1>10 DEF WindowCloses
<1>11. CASE UNCHANGED vars
  BY <1>11 DEF vars
<1> QED
  BY <1>1, <1>2, <1>3, <1>4, <1>5, <1>6, <1>8, <1>9, <1>10, <1>11 DEF Next
-----------------------------------------------------------------------------
(* Raw mode: what a question asked under the mutex is worth when it is acted *)
(* on, and the mode saved for the user.                                      *)

Raw == AnswerHolds /\ SavedForTheUser /\ LifeOfThreads

(* The question.  The process runs, so nothing has come in between yet. *)
LEMMA AskKeeps ==
  ASSUME TypeOK, Raw, ~frozen, NEW op \in Ops, Ask(op)
  PROVE  AnswerHolds' /\ SavedForTheUser' /\ life' = life
<1> USE DEF Raw
<1>1. /\ busy' = [op |-> op, owns |-> fg = "us"] /\ Concerned(op)
      /\ UNCHANGED <<fg, mode, frozen, life, original, stale, misread, interrupted>>
  BY DEF Ask, OwnsTerminal, shellVars
<1>2. AnswerHolds'
  BY <1>1 DEF AnswerHolds, Concerned, Ops, Entering, Leaving
<1>3. SavedForTheUser'
  BY <1>1 DEF SavedForTheUser
<1> QED
  BY <1>1, <1>2, <1>3

(* Entering raw mode, or leaving it for later. *)
LEMMA EnteringKeeps ==
  ASSUME TypeOK, Raw, NEW op \in Entering, SettleEntering(op)
  PROVE  /\ AnswerHolds' /\ SavedForTheUser'
         /\ Concerned(op) /\ life' \in {"active", "suspended"}
<1> USE DEF Raw
<1>1. busy # None /\ busy.op = op /\ busy' = None /\ fg' = fg /\ Concerned(op)
  BY DEF SettleEntering, Answered, AnswerHolds, shellVars
<1>2. CASE /\ busy.owns /\ life' = "active" /\ mode' = "raw"
           /\ original' = SavedMode /\ stale' = FALSE /\ misread' = (misread \/ Misread)
  BY <1>1, <1>2 DEF AnswerHolds, SavedForTheUser, SavedMode, Misread, TypeOK
<1>3. CASE /\ ~busy.owns /\ life' = "suspended" /\ stale' = (stale \/ op = "activate")
           /\ UNCHANGED <<mode, original, misread>>
  <2>1. op = "activate" => life = "inactive"
    BY <1>1 DEF Concerned, Leaving
  <2>2. fg = "us" => mode = "cooked"
    BY <1>1, <1>3 DEF AnswerHolds
  <2>3. mode # "raw" \/ ~stale'
    BY <1>3, <2>1 DEF SavedForTheUser
  <2> QED
    BY <1>1, <1>3, <2>2, <2>3 DEF AnswerHolds, SavedForTheUser
<1> QED
  BY <1>1, <1>2, <1>3 DEF SettleEntering

(* Leaving it: the terminal is restored if it was the wrapper's when asked. *)
LEMMA LeavingKeeps ==
  ASSUME TypeOK, Raw, NEW op \in Leaving, SettleLeaving(op)
  PROVE  /\ AnswerHolds' /\ SavedForTheUser'
         /\ life = "active" /\ life' = IF op = "terminate" THEN "terminating" ELSE "suspended"
<1> USE DEF Raw
<1>1. /\ busy # None /\ busy.op = op /\ busy' = None /\ fg' = fg
      /\ life' = IF op = "terminate" THEN "terminating" ELSE "suspended"
      /\ mode' = IF busy.owns THEN original ELSE mode
      /\ UNCHANGED <<original, stale, misread>>
  BY DEF SettleLeaving, Answered, RestoreTerminalAttrs, shellVars
<1>2. life = "active"
  BY <1>1 DEF AnswerHolds, Concerned, Leaving
<1> QED
  BY <1>1, <1>2 DEF AnswerHolds, SavedForTheUser, TypeOK

(* Nothing to do at the terminal. *)
LEMMA PassKeeps ==
  ASSUME TypeOK, Raw, NEW op \in Ops, Pass(op)
  PROVE  /\ AnswerHolds' /\ SavedForTheUser' /\ ~Concerned(op)
         /\ life' = IF op = "terminate" THEN "terminating" ELSE life
<1> USE DEF Raw
<1>1. /\ busy' = None /\ busy = None /\ ~Concerned(op)
      /\ life' = IF op = "terminate" THEN "terminating" ELSE life
      /\ UNCHANGED <<fg, mode, original, stale, misread>>
  BY DEF Pass, shellVars
<1> QED
  BY <1>1 DEF AnswerHolds, SavedForTheUser, Concerned, Leaving

(* The shell and the stops: a terminal that changes hands while the wrapper *)
(* is between question and write does so in a stop.                         *)
LEMMA ShellKeeps ==
  ASSUME TypeOK, Raw, Shell \/ Continue \/ ExternalStop
  PROVE  Raw'
<1> USE DEF Raw
<1>1. CASE ShellTakes /\ Shell
  BY <1>1 DEF Shell, ShellTakes, AnswerHolds, SavedForTheUser, LifeOfThreads, Concerned, rawVars
<1>2. CASE GiveTerminal /\ Shell
  BY <1>2 DEF Shell, GiveTerminal, AnswerHolds, SavedForTheUser, LifeOfThreads, Concerned, rawVars
<1>3. CASE Continue
  BY <1>3 DEF Continue, AnswerHolds, SavedForTheUser, LifeOfThreads, Concerned, rawVars
<1>4. CASE ExternalStop
  BY <1>4 DEF ExternalStop, Freeze, AnswerHolds, SavedForTheUser, LifeOfThreads, Concerned,
              rawVars, shellVars
<1> QED
  BY <1>1, <1>2, <1>3, <1>4 DEF Shell

(* The steps of the main thread.  The watcher is quiet until the mask is    *)
(* restored, so that the main thread finds the lifecycle as it left it.      *)
LEMMA MainKeeps ==
  ASSUME TypeOK, Raw, QuietStart, ~frozen, ~ended, Main
  PROVE  Raw'
<1>1. CASE Activate
  <2>1. /\ main = "activate" /\ watch' = watch /\ UNCHANGED ended
        /\ main' \in {"activate", "unmask"}
    BY <1>1 DEF Activate, Enter, Ask, SettleEntering, Answered
  <2>2. watch # "raise" /\ watch # "leaving"
    BY <2>1 DEF QuietStart, Masked
  <2>3. AnswerHolds' /\ SavedForTheUser' /\ (main' = "activate" => life' = life)
    BY <1>1, AskKeeps, EnteringKeeps DEF Activate, Enter, Ops, Entering
  <2> QED
    BY <2>1, <2>2, <2>3 DEF Raw, LifeOfThreads
<1>2. CASE StopRaw
  <2>1. /\ main = "terminate" /\ watch' = watch /\ UNCHANGED ended
        /\ main' \in {"terminate", "stop"}
    BY <1>2 DEF StopRaw, Leave, Ask, SettleLeaving, Answered, Pass
  <2>2. /\ AnswerHolds' /\ SavedForTheUser'
        /\ (main' = "terminate" /\ life' = life) \/ life' = "terminating"
    BY <1>2, AskKeeps, LeavingKeeps, PassKeeps DEF StopRaw, Leave, Ops, Leaving
  <2> QED
    BY <2>1, <2>2 DEF Raw, LifeOfThreads
<1>3. CASE TakeSnapshot
  <2>1. /\ main = "snapshot" /\ main' = "activate" /\ original' = mode
        /\ UNCHANGED <<fg, mode, frozen, life, stale, misread, busy, watch, interrupted, ended>>
    BY <1>3 DEF TakeSnapshot, Quiet, shellVars
  <2>2. life = "inactive"
    BY <2>1 DEF Raw, LifeOfThreads
  <2> QED
    BY <2>1, <2>2 DEF Raw, LifeOfThreads, AnswerHolds, SavedForTheUser, Concerned
<1>4. CASE StartWatcher \/ StartSession \/ BeginStop \/ WriteStopByte \/ JoinWatcher
  <2>1. UNCHANGED <<fg, mode, frozen, life, original, stale, misread, busy, interrupted>>
    BY <1>4 DEF StartWatcher, StartSession, BeginStop, WriteStopByte, JoinWatcher, Quiet,
                shellVars, rawVars
  <2>2. LifeOfThreads'
    BY <1>4, <2>1 DEF StartWatcher, StartSession, BeginStop, WriteStopByte, JoinWatcher,
                Quiet, Raw, LifeOfThreads
  <2> QED
    BY <2>1, <2>2 DEF Raw, AnswerHolds, SavedForTheUser, Concerned
<1> QED
  BY <1>1, <1>2, <1>3, <1>4 DEF Main

(* The steps of the watcher. *)
LEMMA WatcherKeeps ==
  ASSUME TypeOK, Raw, QuietStart, ~frozen, ~ended, Watcher
  PROVE  Raw'
<1>1. CASE Terminate \/ Suspend
  <2>1. /\ watch \in {"terminate", "suspend"} /\ main' = main /\ UNCHANGED ended
        /\ watch' \in {"terminate", "suspend", "leaving", "raise"}
    BY <1>1 DEF Terminate, Suspend, Leave, Ask, SettleLeaving, Answered, Pass
  <2>2. ~Masked
    BY <2>1 DEF QuietStart
  <2>3. /\ AnswerHolds' /\ SavedForTheUser'
        /\ \/ watch' = watch /\ life' = life
           \/ watch' = "leaving" /\ life' = "terminating"
           \/ watch' = "raise" /\ life' = "suspended" /\ life = "active"
           \/ watch' = "raise" /\ life' = life /\ life # "active"
    BY <1>1, AskKeeps, LeavingKeeps, PassKeeps
    DEF Terminate, Suspend, Leave, Ops, Leaving, Concerned
  <2> QED
    BY <2>1, <2>2, <2>3 DEF Raw, LifeOfThreads, Masked
<1>2. CASE Reassert \/ Resume
  <2>1. /\ watch \in {"reassert", "resume"} /\ main' = main /\ UNCHANGED ended
        /\ watch' \in {"reassert", "resume", "read", "drain"}
    BY <1>2 DEF Reassert, Resume, Enter, Ask, SettleEntering, Answered, Pass
  <2>2. /\ AnswerHolds' /\ SavedForTheUser'
        /\ life' = life \/ (life \in {"active", "suspended"} /\ life' \in {"active", "suspended"})
    BY <1>2, AskKeeps, EnteringKeeps, PassKeeps
    DEF Reassert, Resume, Enter, Ops, Entering, Concerned
  <2> QED
    BY <2>1, <2>2 DEF Raw, LifeOfThreads
<1>3. CASE RaiseStop
  BY <1>3 DEF RaiseStop, Freeze, Raw, AnswerHolds, SavedForTheUser, LifeOfThreads, Concerned,
              rawVars, shellVars
<1>4. CASE ReadByte \/ ExitBySignal \/ Resumed \/ Drain
  <2>1. UNCHANGED <<fg, mode, frozen, life, original, stale, misread, busy, interrupted, main>>
    BY <1>4 DEF ReadByte, ExitBySignal, Resumed, Drain, shellVars, rawVars
  <2>2. ended' => life = "terminating"
    BY <1>4 DEF ReadByte, ExitBySignal, Resumed, Drain, Raw, LifeOfThreads
  <2>3. watch' \notin {"raise", "leaving"}
    <3>1. CASE ReadByte
      <4>1. Head(queue) \in Bytes
        BY <3>1 DEF ReadByte, TypeOK
      <4> QED
        BY <3>1, <4>1 DEF ReadByte, Bytes, Signals, StopRequests
    <3> QED
      BY <1>4, <3>1 DEF ExitBySignal, Resumed, Drain
  <2> QED
    BY <2>1, <2>2, <2>3 DEF Raw, AnswerHolds, SavedForTheUser, LifeOfThreads, Concerned
<1> QED
  BY <1>1, <1>2, <1>3, <1>4 DEF Watcher

LEMMA RawKept ==
  ASSUME TypeOK, Raw, QuietStart, [Next]_vars
  PROVE  Raw'
<1>1. ASSUME UNCHANGED <<fg, mode, frozen, rawVars, interrupted, main, watch, ended>>
      PROVE  Raw'
  BY <1>1 DEF Raw, AnswerHolds, SavedForTheUser, LifeOfThreads, Concerned, rawVars
<1>2. CASE \E sig \in Signals : Signal(sig) \/ TakeSignal(sig)
  BY <1>1, <1>2 DEF Signal, TakeSignal, shellVars
<1>3. CASE \E byte \in handling : WriteByte(byte)
  BY <1>1, <1>3 DEF WriteByte, shellVars
<1>4. CASE WindowCloses \/ UNCHANGED vars
  BY <1>1, <1>4 DEF WindowCloses, vars, shellVars
<1> QED
  BY <1>2, <1>3, <1>4, ShellKeeps, MainKeeps, WatcherKeeps DEF Next, Running
-----------------------------------------------------------------------------
(* The bytes the watcher acts on. *)

Queued == QuietStart /\ QueuedAtResume

(* Steps that leave the handlers and the queue alone. *)
LEMMA QueueUntouched ==
  ASSUME Queued, UNCHANGED <<handling, queue>>,
         Masked' => Masked /\ (watch' \in {"none", "read", "reassert"}),
         watch \in {"resume", "drain"} => watch' \in {"resume", "drain"}
  PROVE  Queued'
BY DEF Queued, QuietStart, QueuedAtResume

(* A byte enters the queue from its handler. *)
LEMMA WriteKeeps ==
  ASSUME TypeOK, Queued, NEW byte \in handling, WriteByte(byte)
  PROVE  Queued'
<1>1. queue' = Append(queue, byte) /\ handling' = handling \ {byte} /\ UNCHANGED <<main, watch>>
  BY DEF WriteByte
<1>2. ASSUME NEW i \in 1..Len(queue')
      PROVE  \/ i \in 1..Len(queue) /\ queue'[i] = queue[i]
             \/ queue'[i] = byte
  BY <1>1 DEF TypeOK
<1> QED
  BY <1>1, <1>2 DEF Queued, QuietStart, QueuedAtResume, Masked

(* A handler takes a signal. *)
LEMMA TakeKeeps ==
  ASSUME TypeOK, Queued, NEW sig \in Signals, TakeSignal(sig)
  PROVE  Queued'
<1>1. /\ handling' = handling \cup {[sig |-> sig, age |-> "new"]}
      /\ Masked => sig = "cont"
      /\ UNCHANGED <<queue, main, watch>>
  BY DEF TakeSignal
<1> QED
  BY <1>1 DEF Queued, QuietStart, QueuedAtResume, Masked

(* The watcher takes the first byte. *)
LEMMA ReadKeeps ==
  ASSUME TypeOK, Queued, ReadByte
  PROVE  Queued'
<1>1. /\ watch = "read" /\ queue # <<>> /\ queue' = Tail(queue)
      /\ UNCHANGED <<handling, main>>
  BY DEF ReadByte
<1>2. ASSUME NEW i \in 1..Len(queue')
      PROVE  i + 1 \in 1..Len(queue) /\ queue'[i] = queue[i + 1]
  BY <1>1 DEF TypeOK
<1>3. 1 \in 1..Len(queue) /\ Head(queue) = queue[1] /\ Head(queue) \in Bytes
  BY <1>1 DEF TypeOK
<1>4. Masked => watch' = "reassert"
  <2>1. ASSUME Masked PROVE Head(queue).sig = "cont"
    BY <1>3, <2>1 DEF Queued, QuietStart
  <2> QED
    BY <2>1 DEF ReadByte, StopRequests
<1>5. watch' \notin {"resume", "drain"}
  BY <1>3 DEF ReadByte, Bytes, Signals, StopRequests
<1> QED
  BY <1>1, <1>2, <1>4 DEF Queued, QuietStart, QueuedAtResume, Masked

(* The main thread's own byte. *)
LEMMA StopByteKeeps ==
  ASSUME TypeOK, Queued, WriteStopByte
  PROVE  Queued'
<1>1. /\ main' = "join" /\ UNCHANGED <<handling, watch>>
      /\ queue' = Append(queue, [sig |-> "stop", age |-> "new"])
  BY DEF WriteStopByte
<1>2. ASSUME NEW i \in 1..Len(queue')
      PROVE  \/ i \in 1..Len(queue) /\ queue'[i] = queue[i]
             \/ queue'[i] = [sig |-> "stop", age |-> "new"]
  BY <1>1 DEF TypeOK
<1> QED
  BY <1>1, <1>2 DEF Queued, QuietStart, QueuedAtResume, Masked

(* At the resume the requests so far grow old, in their handlers and in the queue. *)
LEMMA ResumedKeeps ==
  ASSUME TypeOK, Queued, Resumed
  PROVE  Queued'
<1>1. /\ watch = "stopped" /\ watch' = "resume" /\ main' = main
      /\ handling' = {Aged(byte, "handling") : byte \in handling}
      /\ queue' = [i \in DOMAIN queue |-> Aged(queue[i], "queued")]
  BY DEF Resumed
<1>2. ~Masked
  BY <1>1 DEF Queued, QuietStart
<1>3. ASSUME NEW byte \in handling' PROVE byte.age # "queued"
  <2>1. PICK old \in handling : byte = Aged(old, "handling")
    BY <1>1
  <2>2. old.age # "queued" /\ old \in Bytes
    BY DEF Queued, QueuedAtResume, TypeOK
  <2> QED
    BY <2>1, <2>2 DEF Aged, Bytes
<1>4. ASSUME NEW i \in 1..Len(queue'), queue'[i].age = "queued"
      PROVE  queue'[i].sig \in StopRequests
  <2>1. i \in 1..Len(queue) /\ queue'[i] = Aged(queue[i], "queued") /\ queue[i] \in Bytes
    BY <1>1 DEF TypeOK
  <2>2. queue[i].age = "queued" => queue[i].sig \in StopRequests
    BY <2>1 DEF Queued, QueuedAtResume
  <2> QED
    BY <1>4, <2>1, <2>2 DEF Aged, Bytes
<1> QED
  BY <1>1, <1>2, <1>3, <1>4 DEF Queued, QuietStart, QueuedAtResume, Masked

(* And the drain drops what it finds in the queue. *)
LEMMA DrainKeeps ==
  ASSUME TypeOK, Queued, Drain
  PROVE  Queued'
<1>1. /\ watch = "drain" /\ watch' = "read" /\ UNCHANGED <<handling, main>>
      /\ queue' = DropStopRequests(queue)
  BY DEF Drain
<1>2. ~Masked
  BY <1>1 DEF Queued, QuietStart
<1>3. \A i \in 1..Len(queue') : queue'[i] \in Others(queue)
  <2>1. queue' \in Seq(Others(queue))
    BY <1>1, DropFacts DEF TypeOK
  <2> QED
    BY <2>1
<1>4. \A byte \in Others(queue) : byte.age # "queued"
  BY DEF Queued, QueuedAtResume, Others
<1> QED
  BY <1>1, <1>2, <1>3, <1>4 DEF Queued, QuietStart, QueuedAtResume, Masked
(* Every step. *)
LEMMA QueuedKept ==
  ASSUME TypeOK, Queued, [Next]_vars
  PROVE  Queued'
<1> USE DEF shellVars, signalVars, rawVars
<1>1. CASE Shell \/ Continue \/ ExternalStop \/ WindowCloses \/ UNCHANGED vars
  BY <1>1, QueueUntouched
  DEF Shell, Continue, ExternalStop, WindowCloses, vars, Masked, Queued, QuietStart
<1>2. CASE \E sig \in Signals : Signal(sig)
  BY <1>2, QueueUntouched DEF Signal, Masked, Queued, QuietStart
<1>3. CASE Main
  <2>1. CASE WriteStopByte
    BY <2>1, StopByteKeeps
  <2>2. CASE Activate \/ StopRaw
    <3>1. /\ UNCHANGED <<handling, queue, watch>>
          /\ main \in {"activate", "terminate"} /\ (main' = main \/ main' \in {"unmask", "stop"})
          /\ main = "terminate" => main' # "unmask"
      BY <2>2 DEF Activate, StopRaw, Enter, Leave, Ask, SettleEntering, SettleLeaving, Pass,
                  Answered
    <3> QED
      BY <3>1, QueueUntouched DEF Masked, Queued, QuietStart
  <2>3. CASE StartWatcher \/ TakeSnapshot \/ StartSession \/ BeginStop \/ JoinWatcher
    <3>1. /\ UNCHANGED <<handling, queue>> /\ (watch' = watch \/ watch' = "read")
          /\ watch' # watch => main = "start"
          /\ Masked' => Masked
      BY <2>3 DEF StartWatcher, TakeSnapshot, StartSession, BeginStop, JoinWatcher, Quiet, Masked
    <3>2. watch \in {"resume", "drain"} => watch' = watch
      BY <3>1 DEF Queued, QuietStart, Masked
    <3> QED
      BY <3>1, <3>2, QueueUntouched DEF Queued, QuietStart
  <2> QED
    BY <1>3, <2>1, <2>2, <2>3 DEF Main
<1>4. CASE Watcher
  <2>1. CASE ReadByte \/ Resumed \/ Drain
    BY <2>1, ReadKeeps, ResumedKeeps, DrainKeeps
  <2>2. CASE Terminate \/ Reassert \/ Suspend \/ Resume
    <3>1. /\ UNCHANGED <<handling, queue, main>>
          /\ watch' \in {watch, "leaving", "read", "raise", "drain"}
          /\ watch = "resume" => watch' \in {"resume", "drain"}
          /\ watch \in {"terminate", "reassert", "suspend", "resume"}
          /\ watch = "reassert" => watch' \in {"reassert", "read"}
      BY <2>2 DEF Terminate, Reassert, Suspend, Resume, Enter, Leave, Ask, SettleEntering,
                  SettleLeaving, Pass, Answered
    <3> QED
      BY <3>1, QueueUntouched DEF Masked, Queued, QuietStart
  <2>3. CASE ExitBySignal \/ RaiseStop
    <3>1. /\ UNCHANGED <<handling, queue, main>> /\ watch \in {"leaving", "raise"}
      BY <2>3 DEF ExitBySignal, RaiseStop
    <3> QED
      BY <3>1, QueueUntouched DEF Masked, Queued, QuietStart
  <2> QED
    BY <1>4, <2>1, <2>2, <2>3 DEF Watcher
<1> QED
  BY <1>1, <1>2, <1>3, <1>4, TakeKeeps, WriteKeeps DEF Next

-----------------------------------------------------------------------------
(* The theorems *)

(* A terminal that is the wrapper's is the user's when it is left. *)
LEMMA LeftCooked == SavedForTheUser /\ LifeOfThreads => CookedWhenLeft
BY DEF SavedForTheUser, LifeOfThreads, CookedWhenLeft

LEMMA InitInv == Init => TerminalInv
<1> SUFFICES ASSUME Init PROVE TerminalInv
  OBVIOUS
<1>1. TypeOK
  <2>1. queue \in Seq(Bytes) /\ signals \subseteq Signals /\ handling \subseteq Bytes
    BY DEF Init
  <2>2. fg \in {"us", "shell"} /\ {mode, original} \subseteq {"cooked", "edit", "raw"}
    BY DEF Init
  <2> QED
    BY <2>1, <2>2 DEF Init, TypeOK, MainPlaces, WatchPlaces
<1>2. AnswerHolds /\ SavedForTheUser /\ LifeOfThreads
  BY DEF Init, AnswerHolds, SavedForTheUser, LifeOfThreads
<1>3. QuietStart /\ QueuedAtResume
  BY DEF Init, QuietStart, QueuedAtResume
<1> QED
  BY <1>1, <1>2, <1>3, LeftCooked DEF TerminalInv

LEMMA NextInv == TerminalInv /\ [Next]_vars => TerminalInv'
<1> SUFFICES ASSUME TerminalInv, [Next]_vars PROVE TerminalInv'
  OBVIOUS
<1>1. TypeOK'
  BY TypeKept DEF TerminalInv
<1>2. AnswerHolds' /\ SavedForTheUser' /\ LifeOfThreads'
  BY RawKept DEF TerminalInv, Raw
<1>3. QuietStart' /\ QueuedAtResume'
  BY QueuedKept DEF TerminalInv, Queued
<1>4. CookedWhenLeft'
  BY <1>2 DEF SavedForTheUser, LifeOfThreads, CookedWhenLeft
<1> QED
  BY <1>1, <1>2, <1>3, <1>4 DEF TerminalInv

(* However the shell passes the terminal around, and wherever the stops and  *)
(* the termination fall, the wrapper leaves a terminal it owns in the user's *)
(* own mode when it stops and when it ends.                                  *)
THEOREM TerminalSafety == Spec => []TerminalInv
<1>1. Init => TerminalInv
  BY InitInv
<1>2. TerminalInv /\ [Next]_vars => TerminalInv'
  BY NextInv
<1> QED
  BY <1>1, <1>2, PTL DEF Spec

(* A step that changes the mode of a terminal that stays with its owner is   *)
(* the wrapper's, and takes it in turn.                                      *)
LEMMA TouchesInTurn ==
  ASSUME TerminalInv, [Next]_vars, Touches
  PROVE  (fg = "us" \/ interrupted) /\ life # "terminating"
<1>1. PICK op \in Ops : SettleEntering(op) \/ SettleLeaving(op)
  <2> USE DEF Touches, shellVars
  <2>1. ~(Shell \/ Continue \/ ExternalStop \/ WindowCloses \/ UNCHANGED vars)
    BY DEF Shell, ShellTakes, GiveTerminal, Continue, ExternalStop, WindowCloses, vars
  <2>2. ~\E sig \in Signals : Signal(sig) \/ TakeSignal(sig)
    BY DEF Signal, TakeSignal
  <2>3. ~\E byte \in handling : WriteByte(byte)
    BY DEF WriteByte
  <2>4. CASE Main
    <3>1. Activate \/ StopRaw
      BY <2>4 DEF Main, StartWatcher, TakeSnapshot, StartSession, BeginStop, WriteStopByte,
                  JoinWatcher, Quiet
    <3> QED
      BY <3>1 DEF Activate, StopRaw, Enter, Leave, Ask, Pass, Ops, Entering, Leaving
  <2>5. CASE Watcher
    <3>1. Terminate \/ Reassert \/ Suspend \/ Resume
      BY <2>5 DEF Watcher, ReadByte, ExitBySignal, RaiseStop, Resumed, Drain
    <3> QED
      BY <3>1 DEF Terminate, Reassert, Suspend, Resume, Enter, Leave, Ask, Pass, Ops,
                  Entering, Leaving
  <2> QED
    BY <2>1, <2>2, <2>3, <2>4, <2>5 DEF Next
<1>2. busy # None /\ busy.op = op /\ Concerned(op) /\ busy.owns
  BY <1>1 DEF SettleEntering, SettleLeaving, Answered, RestoreTerminalAttrs, Touches,
              TerminalInv, AnswerHolds
<1>3. life # "terminating"
  BY <1>2 DEF Concerned, Ops, Entering, Leaving
<1>4. fg = "us" \/ interrupted
  BY <1>2 DEF TerminalInv, AnswerHolds
<1> QED
  BY <1>3, <1>4

(* The wrapper writes the terminal's mode only while it owns the terminal,   *)
(* unless it was stopped between the question and the write, and never once  *)
(* it has begun to terminate.                                                *)
THEOREM TouchesOnlyInTurn == Spec => TouchedInTurn
<1>1. TerminalInv /\ [Next]_vars =>
        [Touches => (fg = "us" \/ interrupted) /\ life # "terminating"]_vars
  BY TouchesInTurn
<1> QED
  BY <1>1, TerminalSafety, PTL DEF Spec, TouchedInTurn

(* The byte the watcher is about to suspend for. *)
LEMMA SuspendsForNew ==
  ASSUME TerminalInv, [Next]_vars, watch = "read", watch' = "suspend"
  PROVE  /\ Head(queue).age # "queued"
         /\ Head(queue).age = "handling" => Head(queue).sig = "tstp" \/ ~recent \/ fg # "us"
<1> USE DEF shellVars, signalVars, rawVars
<1>1. ReadByte
  <2>1. ~(Shell \/ Continue \/ ExternalStop \/ WindowCloses \/ UNCHANGED vars)
    BY DEF Shell, Continue, ExternalStop, WindowCloses, vars
  <2>2. ~\E sig \in Signals : Signal(sig) \/ TakeSignal(sig)
    BY DEF Signal, TakeSignal
  <2>3. ~\E byte \in handling : WriteByte(byte)
    BY DEF WriteByte
  <2>4. ~Main
    BY DEF Main, StartWatcher, TakeSnapshot, Activate, StartSession, BeginStop, StopRaw,
           WriteStopByte, JoinWatcher, Quiet
  <2> QED
    BY <2>1, <2>2, <2>3, <2>4
    DEF Next, Watcher, Terminate, Reassert, Suspend, Resume, ExitBySignal, RaiseStop, Resumed,
        Drain
<1>2. 1 \in 1..Len(queue) /\ Head(queue) = queue[1] /\ Head(queue) \in Bytes
  BY <1>1 DEF ReadByte, TerminalInv, TypeOK
<1>3. Head(queue).age # "queued"
  BY <1>2 DEF TerminalInv, QueuedAtResume
<1>4. Head(queue).sig \in StopRequests /\ ~Stale(Head(queue).sig)
  BY <1>1, <1>2 DEF ReadByte, Bytes, Signals, StopRequests
<1> QED
  BY <1>3, <1>4 DEF Stale, StopRequests

(* A stop request that was queued when the wrapper was continued does not    *)
(* stop it again.                                                            *)
THEOREM NoStopIsReplayed == Spec => NoReplayedStop
<1>1. TerminalInv /\ [Next]_vars =>
        [watch = "read" /\ watch' = "suspend" =>
           /\ Head(queue).age # "queued"
           /\ Head(queue).age = "handling" => Head(queue).sig = "tstp" \/ ~recent \/ fg # "us"]_vars
  BY SuspendsForNew
<1> QED
  BY <1>1, TerminalSafety, PTL DEF Spec, NoReplayedStop
=============================================================================
