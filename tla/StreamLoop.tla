------------------------------ MODULE StreamLoop ------------------------------
(***************************************************************************)
(* The read loop (src/src/cli/stream.rs, highlight_stream) between the     *)
(* wrapped command and the terminal, with the worker that forwards typed    *)
(* input (src/src/cli/pty.rs, forward_stdin_to_pty) and the part of         *)
(* StreamingHighlighter that holds output back (src/src/highlight.rs).      *)
(*                                                                         *)
(* Colours are left out: a rendered byte is the byte.  Output is a sequence *)
(* of numbered items whose byte is "a" or "d" (parts of a token; "d" names  *)
(* a device), "s" (ends a token and a line), "p" (a prompt's sign, ends a    *)
(* token), "e" and "f" (an escape sequence's start and its end).  A key is  *)
(* "a", "tab" or "cr", which submits a command.                             *)
(***************************************************************************)
EXTENDS Naturals, Sequences, SequencesExt, FiniteSets

CONSTANTS
  None,
  Setups,          \* the ways it is started that are examined
  MaxKeys,         \* bound on the keys typed
  MaxOutput,       \* bound on the items written
  ChannelCap,      \* capacity of the profile input channel
  TokenLimit,      \* longest tail that is held back
  Window,          \* RECENT_INPUT_WINDOW
  SampleLimit,     \* AUTO_DETECT_SAMPLE_LIMIT
  Interval         \* AUTO_DETECT_BYTE_INTERVAL

ASSUME LoopAssumption ==
  /\ Setups \subseteq
       {su \in [interactive : BOOLEAN, pty : BOOLEAN, dynamic : BOOLEAN, builds : BOOLEAN] :
          su.dynamic => su.interactive /\ su.pty}
  /\ {MaxKeys, MaxOutput, ChannelCap, TokenLimit, Window, SampleLimit, Interval} \subseteq Nat

VARIABLES
  setup,           \* interactive, with a PTY, dynamic profiles, the device's set builds
  typedKeys, input,\* number of keys typed; written to the PTY, not read by the command
  pty, last, over, \* written by the command, not read yet; its last byte; its end
  fwd, key,        \* the forwarding worker
  channel, recent, \* keys sent to the runtime; keys the echo may match
  pc, chunk, first,\* the loop, the read it is at, no read yet
  carry,           \* ChunkFilterState: an escape sequence cut off by the read
  pending,         \* held-back tail
  outbuf, screen,  \* rendered but not flushed; drawn (the items' numbers)
  overlay,         \* a highlight's colour may be open on the terminal
  sample, since,   \* detection_sample, bytes_since_auto_detect
  detecting, profile,
  named            \* history: a device was named in the first SampleLimit items

userVars == <<typedKeys, input>>
commandVars == <<pty, last, over, named>>
fwdVars == <<fwd, key>>
readVars == <<pc, chunk, first, carry>>
renderVars == <<pending, outbuf, screen, overlay>>
detectVars == <<sample, since, detecting, profile>>
vars == <<setup, userVars, commandVars, fwdVars, channel, recent, readVars, renderVars,
          detectVars>>

Init ==
  /\ setup \in Setups
  /\ typedKeys = 0 /\ input = <<>>
  /\ pty = <<>> /\ last = "s" /\ over = FALSE /\ named = FALSE
  /\ fwd = "read" /\ key = None
  /\ channel = <<>> /\ recent = <<>>
  /\ pc = "wait" /\ chunk = <<>> /\ first = TRUE /\ carry = <<>>
  /\ pending = <<>> /\ outbuf = <<>> /\ screen = <<>> /\ overlay = FALSE
  /\ sample = [len |-> 0, device |-> FALSE] /\ since = 0 /\ detecting = FALSE
  /\ profile = "generic"

Numbers(items) == [i \in DOMAIN items |-> items[i].id]
Bytes(items) == [i \in DOMAIN items |-> items[i].byte]

-----------------------------------------------------------------------------
(* The command behind the PTY, or the pipe on stdin *)

Written == Len(screen) + Len(outbuf \o pending \o chunk \o carry \o pty)

Emit(byte, cause) ==
  /\ Written < MaxOutput
  /\ pty' = Append(pty, [id |-> Written + 1, byte |-> byte, cause |-> cause])
  /\ last' = byte
  /\ named' = (named \/ (byte = "d" /\ Written < SampleLimit))

(* It writes on its own, whole escape sequences but in any number of writes. *)
(* Only startup detection tells "d" from "a" and "p" from "s".             *)
Program ==
  /\ ~over
  /\ \E byte \in {"a", "s", "e", "f"} \cup (IF setup.dynamic THEN {} ELSE {"d", "p"}) :
       (byte = "f") = (last = "e") /\ Emit(byte, 0)
  /\ UNCHANGED <<setup, userVars, over, fwdVars, channel, recent, readVars, renderVars,
                 detectVars>>

(* It reads a key: a letter is echoed, or not (a password); a command runs. *)
ReadKey ==
  /\ ~over /\ input # <<>> /\ last # "e"
  /\ input' = Tail(input)
  /\ \/ Head(input).byte = "a" /\ Emit("a", 0)
     \/ Head(input).byte = "cr" /\ Emit("s", Head(input).id)
     \/ Head(input).byte # "cr" /\ UNCHANGED <<pty, last, named>>
  /\ UNCHANGED <<setup, typedKeys, over, fwdVars, channel, recent, readVars, renderVars,
                 detectVars>>

Exit ==
  /\ ~over /\ over' = TRUE
  /\ UNCHANGED <<setup, userVars, pty, last, named, fwdVars, channel, recent, readVars,
                 renderVars, detectVars>>

Command == Program \/ ReadKey \/ Exit

-----------------------------------------------------------------------------
(* forward_stdin_to_pty *)

FwdStep(from, to) ==
  /\ setup.pty /\ fwd = from /\ fwd' = to
  /\ UNCHANGED <<setup, commandVars, readVars, renderVars, detectVars>>

ForwardRead ==
  /\ FwdStep("read", "send")
  /\ typedKeys < MaxKeys
  /\ typedKeys' = typedKeys + 1
  /\ \E byte \in {"a", "tab", "cr"} : key' = [id |-> typedKeys + 1, byte |-> byte]
  /\ UNCHANGED <<input, channel, recent>>

(* try_send: a full channel loses the key. *)
SendKey ==
  channel' = IF setup.dynamic /\ Len(channel) < ChannelCap THEN Append(channel, key)
                                                          ELSE channel

ForwardSend ==
  /\ FwdStep("send", "record")
  /\ SendKey
  /\ UNCHANGED <<userVars, key, recent>>

LastN(keys, n) == SubSeq(keys, 1 + (IF Len(keys) > n THEN Len(keys) - n ELSE 0), Len(keys))

RecordRecent(keys) ==
  LET breaks == {i \in DOMAIN keys : keys[i] = "cr"}
      line == {i \in DOMAIN keys : \A b \in breaks : b < i}
  IN LastN(SubSeq(keys, Len(keys) - Cardinality(line) + 1, Len(keys)), Window)

ForwardRecord ==
  /\ FwdStep("record", "write")
  /\ recent' = RecordRecent(Append(recent, key.byte))
  /\ UNCHANGED <<userVars, key, channel>>

(* EIO: the command has exited, which is no failure of the input. *)
ForwardWrite ==
  /\ IF over THEN FwdStep("write", "gone") /\ input' = input
             ELSE FwdStep("write", "read") /\ input' = Append(input, key)
  /\ key' = None
  /\ UNCHANGED <<typedKeys, channel, recent>>

Forwarder == ForwardRead \/ ForwardSend \/ ForwardRecord \/ ForwardWrite

-----------------------------------------------------------------------------
(* Holding back: prepare_chunk, streaming_split_at, flush_buffered_echo *)

TokenBytes == {"a", "d"}

(* The items before an escape sequence that has not ended. *)
BeforeOpenEscape(items) ==
  IF items # <<>> /\ Last(items).byte = "e" THEN Len(items) - 1 ELSE Len(items)

TokenStart(items) ==
  LET others == {i \in DOMAIN items : items[i].byte \notin TokenBytes}
  IN IF others = {} THEN 0 ELSE Max(others)

(* How many items can be rendered: all before an open escape sequence, else  *)
(* all before the last token, if it is not too long.                        *)
SplitAt(items) ==
  IF BeforeOpenEscape(items) < Len(items) THEN BeforeOpenEscape(items)
  ELSE IF Len(items) - TokenStart(items) > TokenLimit THEN Len(items)
  ELSE TokenStart(items)

BufferedEcho ==
  IF setup.interactive THEN SubSeq(pending, 1, BeforeOpenEscape(pending)) ELSE <<>>

Rest(items, n) == SubSeq(items, n + 1, Len(items))

-----------------------------------------------------------------------------
(* The read loop *)

Elsewhere == UNCHANGED <<setup, userVars, commandVars, fwdVars>>

Read ==
  /\ pc = "wait"
  /\ \E n \in DOMAIN pty :
       LET combined == carry \o SubSeq(pty, 1, n)
           whole == BeforeOpenEscape(combined)
       IN /\ pty' = Rest(pty, n)
          /\ chunk' = SubSeq(combined, 1, whole) /\ carry' = Rest(combined, whole)
  /\ pc' = "observe"
  /\ UNCHANGED <<setup, userVars, last, over, named, fwdVars, channel, recent, first, renderVars,
                 detectVars>>

(* Fault: one message is taken for each read of output. *)
DrainOne == Rest(channel, 1)

Drained == <<>>

Extended ==
  [len |-> sample.len + Len(chunk),
   device |-> sample.device \/ \E i \in DOMAIN chunk : chunk[i].byte = "d"]

EndsInPrompt ==
  \E i \in DOMAIN chunk :
    chunk[i].byte = "p" /\ \A j \in DOMAIN chunk : j > i => chunk[j].byte \in {"e", "f"}

Rerun ==
  \/ since + Len(chunk) >= Interval
  \/ Extended.len >= SampleLimit
  \/ \E i \in DOMAIN chunk : chunk[i].byte = "s"
  \/ EndsInPrompt

(* select_profile_names_with_store and apply_automatic_profile_switch: the    *)
(* device's set is taken if it builds.                                        *)
Detect(seen) ==
  profile' = IF seen.device /\ setup.builds THEN "device" ELSE profile

DetectFirst ==
  /\ sample' = Extended /\ since' = 0
  /\ Detect(Extended)
  /\ detecting' = (~setup.dynamic /\ ~Extended.device)

DetectLater ==
  IF detecting /\ sample.len < SampleLimit
  THEN /\ sample' = Extended
       /\ IF Rerun
          THEN /\ since' = 0
               /\ Detect(Extended)
               /\ detecting' = (~Extended.device /\ Extended.len < SampleLimit)
          ELSE /\ since' = since + Len(chunk)
               /\ UNCHANGED <<detecting, profile>>
  ELSE UNCHANGED detectVars

(* observe_dynamic_profile takes what was typed before it examines what came  *)
(* back; without dynamic profiles the channel stays empty.                   *)
Observe ==
  /\ pc = "observe"
  /\ channel' = Drained
  /\ IF first THEN DetectFirst ELSE DetectLater
  /\ pc' = "push" /\ first' = FALSE
  /\ Elsewhere /\ UNCHANGED <<recent, chunk, carry, renderVars>>

(* push_combined_chunk.  On the alternate screen, in a repaint and in a       *)
(* prompt's echo an interactive chunk is passed through whole.                *)
Push ==
  /\ pc = "push"
  /\ LET combined == pending \o chunk
     IN \E n \in {SplitAt(combined)} \cup
                 (IF setup.interactive THEN {BeforeOpenEscape(combined)} ELSE {}) :
          /\ outbuf' = outbuf \o SubSeq(combined, 1, n)
          /\ pending' = Rest(combined, n)
          /\ overlay' = (setup.interactive /\ (overlay \/ n > 0))
  /\ chunk' = <<>> /\ pc' = "echo"
  /\ Elsewhere /\ UNCHANGED <<channel, recent, first, carry, screen, detectVars>>

(* flush_before_wait *)
FlushBeforeWait ==
  /\ screen' = screen \o Numbers(outbuf) /\ outbuf' = <<>>
  /\ overlay' = (overlay /\ setup.pty)

(* flush_buffered_echo, then flush_before_wait. *)
DrawTail ==
  /\ screen' = screen \o Numbers(outbuf \o BufferedEcho) /\ outbuf' = <<>>
  /\ pending' = Rest(pending, Len(BufferedEcho))
  /\ overlay' = setup.pty
  /\ pc' = "wait"
  /\ Elsewhere /\ UNCHANGED <<channel, chunk, first, carry, detectVars>>

(* consume_echo_suffix, which takes no notice of completion keys at the end. *)
EchoMatches ==
  LET others == {i \in DOMAIN recent : recent[i] # "tab"}
      typed == SubSeq(recent, 1, IF others = {} THEN 0 ELSE Max(others))
  IN setup.pty /\ BufferedEcho # <<>> /\ IsSuffix(Bytes(BufferedEcho), typed)

(* A failed poll counts as idle, so the echo may be drawn at any time. *)
DrawEcho ==
  /\ pc = "echo" /\ EchoMatches
  /\ recent' = <<>>
  /\ DrawTail

(* The tail looks like a prompt's echo or a line edit, and nothing follows. *)
DrawRedraw ==
  /\ pc = "echo" /\ setup.pty /\ pty = <<>> /\ ~EchoMatches /\ BufferedEcho # <<>>
  /\ UNCHANGED recent
  /\ DrawTail

(* Nothing qualifies, or the poll does not say that the command is idle. *)
KeepTail ==
  /\ pc = "echo" /\ (EchoMatches => pty # <<>>)
  /\ FlushBeforeWait
  /\ pc' = "wait"
  /\ Elsewhere /\ UNCHANGED <<channel, recent, chunk, first, carry, pending, detectVars>>

Quiet == pty = <<>> /\ ~over

(* Fault: only the PTY's end is watched, not the pipe's. *)
HeldPtyTail == setup.pty /\ BufferedEcho # <<>> /\ Quiet

(* wait_idle: a read that has something, or the end, ends the wait. *)
HeldTail == BufferedEcho # <<>> /\ Quiet

HoldbackEnds ==
  /\ pc = "wait" /\ HeldTail
  /\ UNCHANGED recent
  /\ DrawTail

(* Fault: a sample that is not full gets no last pass. *)
FullSampleUnseen == detecting /\ since > 0 /\ sample.len >= SampleLimit

Unseen == detecting /\ since > 0

(* Output that ended in the middle of a line gets its pass now. *)
End ==
  /\ pc = "wait" /\ pty = <<>> /\ over
  /\ pc' = "finish"
  /\ IF Unseen THEN Detect(sample) ELSE UNCHANGED profile
  /\ Elsewhere
  /\ UNCHANGED <<channel, recent, chunk, first, carry, renderVars, sample, since, detecting>>

(* Fault: an escape sequence cut off by the end is forgotten. *)
PendingOnly == pending

Leftover == pending \o carry

Finish ==
  /\ pc = "finish"
  /\ screen' = screen \o Numbers(outbuf \o Leftover)
  /\ outbuf' = <<>> /\ pending' = <<>> /\ carry' = <<>> /\ overlay' = FALSE
  /\ pc' = "over"
  /\ Elsewhere /\ UNCHANGED <<channel, recent, chunk, first, detectVars>>

Loop ==
  \/ Read \/ Observe \/ Push \/ DrawEcho \/ DrawRedraw \/ KeepTail \/ HoldbackEnds
  \/ End \/ Finish

Next == Command \/ Forwarder \/ Loop

(* The loop waits for a bounded time, or for a read that has something. *)
Spec == Init /\ [][Next]_vars /\ WF_vars(Loop)

-----------------------------------------------------------------------------
Items == [id : 1..MaxOutput, byte : {"a", "d", "s", "p", "e", "f"}, cause : 0..MaxKeys]
Keys == [id : 1..MaxKeys, byte : {"a", "tab", "cr"}]

ASSUME NoneAssumption == None \notin Keys

TypeOK ==
  /\ setup \in Setups /\ typedKeys \in 0..MaxKeys
  /\ {input, channel} \subseteq Seq(Keys)
  /\ fwd \in {"read", "send", "record", "write", "gone"}
  /\ key \in IF fwd \in {"read", "gone"} THEN {None} ELSE Keys
  /\ {pty, chunk, carry, pending, outbuf} \subseteq Seq(Items)
  /\ screen \in Seq(1..MaxOutput)
  /\ {over, first, overlay, detecting, named} \subseteq BOOLEAN
  /\ pc \in {"wait", "observe", "push", "echo", "finish", "over"}
  /\ sample \in [len : Nat, device : BOOLEAN] /\ since \in Nat
  /\ profile \in {"generic", "device"}

(* While the loop waits, nothing it rendered sits in a buffer, no colour is  *)
(* left open on a terminal that will echo by itself, and what it holds back  *)
(* is one short token, then an unfinished escape sequence.                   *)
WaitsClean ==
  pc = "wait" =>
    /\ outbuf = <<>> /\ (overlay => setup.pty)
    /\ Len(pending) <= TokenLimit /\ Len(carry) <= 1
    /\ \A i \in DOMAIN pending : pending[i].byte \in TokenBytes

(* A device named in the first output selects its profile, wherever the      *)
(* reads cut the output and even when no line end ever follows the name.     *)
DeviceIsDetected ==
  pc = "over" /\ setup.builds /\ ~setup.dynamic /\ named => profile = "device"

(* What the loop has in hand, at each of its places. *)
InHand ==
  /\ pc \notin {"observe", "push"} => chunk = <<>>
  /\ pc \in {"finish", "over"} => pty = <<>> /\ over

(* Escape sequences come whole, but for the last one; a cut-off one is       *)
(* carried to the next read, so that no piece ends in one.                   *)
Unread == carry \o pty

EscapesAreWhole ==
  /\ \A i \in 1..Len(Unread) :
       Unread[i].byte = "e" => IF i = Len(Unread) THEN last = "e" ELSE Unread[i + 1].byte = "f"
  /\ Len(carry) <= 1 /\ \A i \in 1..Len(carry) : carry[i].byte = "e"
  /\ chunk # <<>> => Last(chunk).byte # "e"

(* What is held back after a push is one short token. *)
HeldIsToken ==
  /\ Len(pending) <= TokenLimit
  /\ \A i \in 1..Len(pending) : pending[i].byte \in TokenBytes

(* A named device is in the sample or still ahead of it, and the sample says *)
(* so before the profile does.                                              *)
InFlight == outbuf \o pending \o chunk \o carry \o pty

SeenBy == Len(screen) + Len(outbuf) + Len(pending) + (IF pc = "push" THEN Len(chunk) ELSE 0)

DeviceIsAhead ==
  /\ sample.len <= SeenBy
  /\ ~first /\ ~detecting /\ ~setup.dynamic => sample.device \/ sample.len >= SampleLimit
  /\ setup.builds /\ sample.device /\ ~Unseen => profile = "device"
  /\ named /\ ~setup.dynamic /\ ~sample.device =>
       \E i \in 1..Len(InFlight) :
         /\ InFlight[i].byte = "d" /\ Len(screen) + i <= SampleLimit
         /\ Len(screen) + i > SeenBy
  /\ pc = "finish" /\ setup.builds /\ ~setup.dynamic /\ named => profile = "device"

(* A key is numbered when it is read, and what the command has read or put   *)
(* out was typed before the key that is being forwarded.                     *)
KeysInOrder ==
  /\ key # None => key.id = typedKeys
  /\ \A i \in 1..Len(input) : input[i].id <= typedKeys /\ (key # None => input[i].id < key.id)
  /\ \A i \in 1..Len(chunk \o carry \o pty) :
       LET cause == (chunk \o carry \o pty)[i].cause
       IN cause <= typedKeys /\ (key # None => cause < key.id)

(* The invariant of the loop, inductive. *)
StreamInv ==
  /\ TypeOK /\ WaitsClean /\ DeviceIsDetected
  /\ InHand /\ EscapesAreWhole /\ HeldIsToken /\ DeviceIsAhead /\ KeysInOrder

(* When the runtime has examined what a command put out, the command is not   *)
(* still on its way to the runtime: it was recorded first (or, on a full     *)
(* channel, never).                                                         *)
CommandBeforeOutput ==
  pc = "push" => \A i \in DOMAIN chunk :
    chunk[i].cause \notin {channel[j].id : j \in DOMAIN channel} \cup
                         (IF fwd = "send" THEN {key.id} ELSE {})

(* Every byte of the command is drawn, once and in order.                    *)
Relay == INSTANCE ByteRelay WITH flight <- Numbers(InFlight)

DrawnInOrder == Relay!Spec

(* A tail held back from an interactive terminal never stays there, however   *)
(* quiet the command is (what leaves it is drawn: DrawnInOrder); and the      *)
(* output of a command that ended is drawn to its end.                       *)
TailIsDrawn ==
  /\ []<>(BufferedEcho = <<>>)
  /\ over ~> pc = "over"
=============================================================================
