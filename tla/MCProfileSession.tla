-------------------------- MODULE MCProfileSession --------------------------
(***************************************************************************)
(* A session whose user profile bad may fail to compile after a reload; and *)
(* of RemoteCommand, behind the commands of a session, the lines of a few   *)
(* characters in every quoting and those of four words.  Every behaviour is *)
(* of one of the two, the other is at rest.                                *)
(***************************************************************************)
EXTENDS ProfileSession

CONSTANTS lin, cis, bad, h1, h2

VARIABLES command, byWord, typed, meant, open

lineVars == <<command, byWord, typed, meant, open>>

MCWords ==
  {<<"h">>, <<"h", "@", "u">>, <<"~", "h">>, <<"-", "p">>, <<"-", "p", "t">>, <<"-", "t", "p">>,
   <<"-", "N">>, <<"-", "t">>, <<"-", "h", "O">>, <<"-", "-">>, <<"-", "-", "p">>}

Client == INSTANCE RemoteCommand WITH
            Letters <- {"h", "-"}, Words <- MCWords, MaxTyped <- 5, MaxWords <- 4

Pri == lin :> 3 @@ cis :> 1 @@ bad :> 2

Trust == [p \in Profiles |-> "Repeated"]

(* ssh to h1, and a run of one command on h2, which is tracked from h1 only. *)
MCCommands ==
  {[policy |-> "SshLike", target |-> h1, session |-> TRUE],
   [policy |-> "SshLike", target |-> h2, session |-> FALSE]}

Plain == [strong |-> {}, startup |-> {}, prompts |-> {}, waits |-> FALSE,
          close |-> None, failures |-> {}]

Banner(p) == [Plain EXCEPT !.strong = {p}, !.startup = {p}]
Prompt(p) == [Plain EXCEPT !.startup = {p}, !.prompts = {p}, !.waits = TRUE]
Close(kind, host) == [Plain EXCEPT !.close = [kind |-> kind, target |-> host]]

Complete(line) == [lines |-> {line}, tail |-> None, bulk |-> FALSE]

MCReads == {Complete(l) : l \in {Banner(cis), Banner(bad), Prompt(lin), Close("SshLike", h1)}}

MCStores ==
  {[known |-> Profiles, sound |-> Profiles],
   [known |-> Profiles, sound |-> Profiles \ {bad}],
   [known |-> {lin}, sound |-> {lin}]}

Session == command = None

MCInit ==
  \/ /\ Init
     /\ command = None /\ byWord = FALSE /\ typed = <<>> /\ meant = <<>> /\ open = FALSE
  \/ /\ Init /\ activeProfiles = {lin} /\ store.sound = Profiles /\ rejectedSets = <<>>
     /\ Client!Init

SessionStep == Session /\ Next /\ UNCHANGED lineVars

LineStep == ~Session /\ Client!Next /\ UNCHANGED vars

LineAtRest == ~Session /\ UNCHANGED <<vars, lineVars>>

LinesAreRead == ~Session => Client!LinesAreRead

MCSpec == MCInit /\ [][SessionStep \/ LineStep \/ LineAtRest]_<<vars, lineVars>>
=============================================================================
