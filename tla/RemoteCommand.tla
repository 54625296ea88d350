---------------------------- MODULE RemoteCommand ----------------------------
(***************************************************************************)
(* Reading a typed command line (src/src/profile_runtime.rs): its words    *)
(* after the first, the options among them and the remote target, which    *)
(* ProfileRuntime's commands abstract.  A line is typed word by word in    *)
(* every way of quoting it, so that what it means is known.                *)
(*                                                                         *)
(* A character stands for its class: t forces a terminal, N opens no       *)
(* session, p and O take a value, and O opens no session either.  The      *)
(* letter case, brackets around an address and the tables of the other     *)
(* clients are left out.                                                   *)
(***************************************************************************)
EXTENDS Naturals, SequencesExt

CONSTANTS
  Letters,         \* characters typed one by one
  Words,           \* words typed at once
  MaxTyped, MaxWords,
  None

VARIABLES
  command,         \* the client
  byWord,          \* the line is typed in whole words, or else character by character
  typed,           \* the characters after the client
  meant,           \* the words they are for a shell
  open             \* the last word may still grow

vars == <<command, byWord, typed, meant, open>>

Clients == {"ssh", "mosh", "screen"}
Special == {"blank", "'", "dquote", "backslash"}

-----------------------------------------------------------------------------
(* split_shell_words: the quote a character is in, and the word it adds to. *)

EndWord(s) ==
  IF s.started
  THEN [s EXCEPT !.words = Append(@, s.word), !.word = <<>>, !.started = FALSE]
  ELSE s

SplitStep(s, c) ==
  LET added == [s EXCEPT !.word = Append(@, c), !.started = TRUE]
  IN CASE s.escaped -> [added EXCEPT !.escaped = FALSE]
       [] ~s.escaped /\ c = "backslash" /\ s.quote # "'" -> [s EXCEPT !.escaped = TRUE]
       [] ~s.escaped /\ s.quote = None /\ c = "blank" -> EndWord(s)
       [] ~s.escaped /\ s.quote = None /\ c \in {"'", "dquote"} ->
            [s EXCEPT !.quote = c, !.started = TRUE]
       [] ~s.escaped /\ s.quote = c -> [s EXCEPT !.quote = None]
       [] OTHER -> added

SplitShellWords(line) ==
  LET end == FoldLeft(SplitStep,
                      [quote |-> None, escaped |-> FALSE, started |-> FALSE,
                       word |-> <<>>, words |-> <<>>],
                      line)
  IN IF end.escaped \/ end.quote # None THEN None ELSE EndWord(end).words

-----------------------------------------------------------------------------
(* remote_attempt *)

Value(client) == IF client = "ssh" THEN {"p", "O"} ELSE {"p"}

OptionWordTakesValue(client, word) ==
  \/ Len(word) = 2 /\ word[1] = "-" /\ word[2] \in Value(client)
  \/ client = "mosh" /\ word = <<"-", "-", "p">>

(* The flags of a cluster, up to the first that takes a value. *)
OptionFlags(client, word) ==
  IF Len(word) < 2 \/ word[2] = "-" THEN <<>>
  ELSE LET values == {i \in 2 .. Len(word) : word[i] \in Value(client)}
       IN SubSeq(word, 2, IF values = {} THEN Len(word) ELSE Min(values))

OptionTakesValue(client, word) ==
  \/ OptionWordTakesValue(client, word)
  \/ LET flags == OptionFlags(client, word)
     IN /\ Len(flags) > 0 /\ Len(flags) = Len(word) - 1
        /\ Last(flags) \in Value(client)

OpensNoSession(client, word) ==
  CASE client = "ssh" -> {"N", "O"} \cap Range(OptionFlags(client, word)) # {}
    [] client = "screen" -> word = <<"-", "N">>
    [] OTHER -> FALSE

ForcesTty(client, word) == client = "ssh" /\ "t" \in Range(OptionFlags(client, word))

NormalizeRemoteTarget(word) ==
  LET ats == {i \in 1 .. Len(word) : word[i] = "@"}
  IN IF ats = {} THEN word ELSE SubSeq(word, Max(ats) + 1, Len(word))

IsLiteral(word) == (word = <<>> \/ word[1] # "~") /\ "$" \notin Range(word)

RemoteTarget(word) == IF IsLiteral(word) THEN NormalizeRemoteTarget(word) ELSE None

ReadOption(client, s, word) ==
  [s EXCEPT !.skip = OptionTakesValue(client, word),
            !.noSession = @ \/ OpensNoSession(client, word),
            !.tty = @ \/ ForcesTty(client, word)]

ReadWord(client, s, word) ==
  IF s.over THEN s
  ELSE IF s.skip THEN [s EXCEPT !.skip = FALSE]
  ELSE IF ~s.ended /\ word = <<"-", "-">> THEN [s EXCEPT !.ended = TRUE]
  ELSE IF ~s.ended /\ word # <<>> /\ word[1] = "-" THEN ReadOption(client, s, word)
  ELSE IF s.seen THEN [s EXCEPT !.command = TRUE, !.over = TRUE]
  ELSE [s EXCEPT !.seen = TRUE, !.target = RemoteTarget(word), !.over = client # "ssh"]

NoAttempt == <<"no session">>

RemoteAttempt(client, line, opensshClient) ==
  LET words == SplitShellWords(line)
      read == FoldLeft(LAMBDA s, word : ReadWord(client, s, word),
                       [skip |-> FALSE, ended |-> FALSE, seen |-> FALSE, over |-> FALSE,
                        command |-> FALSE, tty |-> FALSE, noSession |-> FALSE, target |-> None],
                       words)
  IN IF words = None THEN [target |-> None]
     ELSE IF opensshClient /\ (read.noSession \/ (read.command /\ ~read.tty))
     THEN [target |-> NoAttempt]
     ELSE [target |-> read.target]

-----------------------------------------------------------------------------
Init ==
  /\ command \in Clients /\ byWord \in BOOLEAN
  /\ typed = <<>> /\ meant = <<>> /\ open = FALSE

Type(characters, letters) ==
  /\ ~byWord /\ Len(typed) + Len(characters) <= MaxTyped
  /\ typed' = typed \o characters
  /\ meant' = IF open THEN [meant EXCEPT ![Len(meant)] = @ \o letters]
              ELSE Append(meant, letters)
  /\ open' = TRUE
  /\ UNCHANGED <<command, byWord>>

TypePlain == \E c \in Letters : Type(<<c>>, <<c>>)

TypeEscaped == \E c \in Letters \cup Special : Type(<<"backslash", c>>, <<c>>)

TypeInSingleQuotes ==
  \E s \in BoundedSeq((Letters \cup Special) \ {"'"}, 2) : Type(<<"'">> \o s \o <<"'">>, s)

(* A backslash in double quotes stands before a quote or another backslash. *)
TypeInDoubleQuotes ==
  \/ \E s \in BoundedSeq(Letters \cup {"blank", "'"}, 2) :
       Type(<<"dquote">> \o s \o <<"dquote">>, s)
  \/ \E c \in {"dquote", "backslash"} :
       Type(<<"dquote", "backslash", c, "dquote">>, <<c>>)

TypeBlank ==
  /\ ~byWord /\ Len(typed) < MaxTyped
  /\ typed' = Append(typed, "blank") /\ open' = FALSE
  /\ UNCHANGED <<command, byWord, meant>>

TypeWord ==
  /\ byWord /\ Len(meant) < MaxWords
  /\ \E word \in Words :
       /\ typed' = typed \o <<"blank">> \o word
       /\ meant' = Append(meant, word)
  /\ UNCHANGED <<command, byWord, open>>

Next ==
  TypePlain \/ TypeEscaped \/ TypeInSingleQuotes \/ TypeInDoubleQuotes \/ TypeBlank \/ TypeWord

-----------------------------------------------------------------------------
(* How the client itself reads its words.  getopt takes the rest of a word   *)
(* as the value of a flag, or the next word when nothing is left of it.      *)
IsOption(word) == Len(word) > 1 /\ word[1] = "-"

TakesNext(client, word) ==
  \/ client = "mosh" /\ word = <<"-", "-", "p">>
  \/ /\ word[2] # "-" /\ Last(word) \in Value(client)
     /\ \A i \in 2 .. Len(word) - 1 : word[i] \notin Value(client)

(* "--" ends the options; the ones after the host are a list of their own.   *)
Roles(client, words) ==
  LET role[i \in 1 .. Len(words)] ==
        LET Is(j, what) == role[j] = what
            hosts == {j \in 1 .. i - 1 : Is(j, "host")}
            ended == \E j \in 1 .. i - 1 : Is(j, "end") /\ \A k \in hosts : k < j
        IN CASE \E j \in 1 .. i - 1 : Is(j, "command") -> "command"
             [] i > 1 /\ role[i - 1] = "option" /\ TakesNext(client, words[i - 1]) -> "value"
             [] OTHER -> IF IsOption(words[i]) /\ ~ended
                         THEN IF words[i] = <<"-", "-">> THEN "end" ELSE "option"
                         ELSE IF hosts = {} THEN "host" ELSE "command"
  IN role

(* The code does not begin the options anew after a host that "--" precedes. *)
EndsBeforeHost(roles) ==
  \E i, j \in DOMAIN roles : i < j /\ roles[i] = "end" /\ roles[j] = "host"

HasFlag(client, word, flags) ==
  \E i \in 2 .. Len(word) :
    word[i] \in flags /\ \A j \in 2 .. i - 1 : word[j] # "-" /\ word[j] \notin Value(client)

SessionOf(client, words) ==
  LET roles == Roles(client, words)
      With(flags) == \E i \in DOMAIN roles :
                       roles[i] = "option" /\ HasFlag(client, words[i], flags)
      Has(what) == \E i \in DOMAIN roles : roles[i] = what
      host == words[CHOOSE i \in DOMAIN roles : roles[i] = "host"]
  IN IF client = "ssh" /\ (With({"N", "O"}) \/ (Has("command") /\ ~With({"t"}))) THEN NoAttempt
     ELSE IF Has("host") THEN NormalizeRemoteTarget(host)
     ELSE None

(* However a line is quoted it splits into the words a shell makes of it; and *)
(* the target noted for it is the host the client connects to, or unknown      *)
(* where a shell would have expanded it, with nothing noted for a line that    *)
(* opens no session (a word that is only a dash is left out).  A target that   *)
(* is wrong leaves the connection's close unrecognised                         *)
(* (profile_runtime.rs:782).                                                   *)
LinesAreRead ==
  /\ SplitShellWords(typed) = meant
  /\ (command # "screen" /\ <<"-">> \notin Range(meant)
       /\ ~EndsBeforeHost(Roles(command, meant))) =>
       LET noted == RemoteAttempt(command, typed, TRUE).target
           session == SessionOf(command, meant)
       IN \/ noted = session
          \/ noted = None /\ session # NoAttempt /\ \E i \in DOMAIN meant : ~IsLiteral(meant[i])
=============================================================================
