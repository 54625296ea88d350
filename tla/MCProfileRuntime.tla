-------------------------- MODULE MCProfileRuntime --------------------------
(* A small instance of ProfileRuntime: a local profile, an ordinary vendor  *)
(* and one whose prompt alone is trusted; three frames, so that the collapse*)
(* at the limit has frames inside to choose from.                           *)
EXTENDS ProfileRuntime

CONSTANTS lin, cis, frt, h1, h2

Pri == lin :> 3 @@ cis :> 2 @@ frt :> 1

Trust == lin :> "Repeated" @@ cis :> "Repeated" @@ frt :> "SingleFromBaselineOrRemoteHint"

Plain == [strong |-> {}, startup |-> {}, prompts |-> {}, waits |-> FALSE,
          close |-> None, failures |-> {}]

Banner(p) == [Plain EXCEPT !.strong = {p}, !.startup = {p}]
Prompt(p) == [Plain EXCEPT !.startup = {p}, !.prompts = {p}, !.waits = TRUE]
(* The workers of TLC share these records and each would sort the fields of  *)
(* one in place: they are written in the order in which they are first met.  *)
Failure(policy) == [Plain EXCEPT !.failures = {policy}]
Close(kind, host) == [Plain EXCEPT !.close = [kind |-> kind, target |-> host]]

Ssh(host) == [policy |-> "SshLike", target |-> host, session |-> TRUE]

Complete(lines) == [lines |-> lines, tail |-> None, bulk |-> FALSE]
Unfinished(line) == [lines |-> {}, tail |-> line, bulk |-> FALSE]

MCCommands == {Ssh(h1)}

(* The banner of cis comes with its prompt, that of frt alone. *)
MCReads ==
  {Complete({l}) : l \in {Banner(frt), Close("SshLike", h1), Close("SshLike", h2)}}
  \cup {Unfinished(l) : l \in {Prompt(frt), Prompt(lin), Failure("SshLike")}}
  \cup {[Complete({Banner(cis)}) EXCEPT !.tail = Prompt(cis)]}

(* The view of the run.  It leaves out the counts of an attempt that has     *)
(* ended: no step reads them before the next command sets them to zero.      *)
WithoutOldCounts ==
  <<connectionVars, pendingRemote, baselineLocked, promptVars, window, inputVars, rollback,
    IF pendingRemote = None THEN None ELSE <<pendingLines, linesTyped>> >>
=============================================================================
