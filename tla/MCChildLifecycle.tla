-------------------------- MODULE MCChildLifecycle --------------------------
(***************************************************************************)
(* Instances of ChildLifecycle (one child, as in the program) and of       *)
(* CommandSpawn, which comes before it: every behaviour is of one of them, *)
(* the other is at rest.  The #! lines are all those of up to four         *)
(* characters, one more than the scaled buffer of the check holds.         *)
(***************************************************************************)
EXTENDS WrappedCommand, SequencesExt

Paths == {<<>>, <<"bin">>, <<".", "bin">>, <<"bin", ".">>}
Characters == {"/", "n", "blank", "newline", "#"}
Slash == <<"/", "newline">>

Invocation(program, interactive, entered, homeOpen, path, kernel, edited) ==
  [program |-> program, interactive |-> interactive, entered |-> entered,
   homeOpen |-> homeOpen, path |-> path, kernel |-> kernel, edited |-> edited]

Disk(here, bin, text, good, bad) ==
  [files |-> [here |-> here, home |-> "binary", bin |-> bin] @@ ("below bin" :> "binary"),
   line |-> text, usable |-> good, denial |-> bad]

(* Every command where the files stay, commands where they are edited, and   *)
(* scripts with every #! line.                                               *)
SpawnInit ==
  \/ \E program \in Command!Programs, interactive, entered, homeOpen \in BOOLEAN,
        path \in Paths, here, bin \in Command!Kinds, bad \in {"none", "denied"} :
       /\ entered => homeOpen
       /\ Command!Begin(
            Invocation(program, interactive, entered, homeOpen, path, "refuses", FALSE),
            Disk(here, bin, Slash, {}, bad))
  \/ \E program \in {"bare", "bin/tool"}, interactive \in BOOLEAN, here, bin \in Command!Kinds :
       Command!Begin(
         Invocation(program, interactive, TRUE, TRUE, <<".", "bin">>, "refuses", TRUE),
         Disk(here, bin, Slash, {<<"/">>}, "none"))
  \/ \E entered, interactive \in BOOLEAN, kernel \in Command!Kernels,
        text \in BoundedSeq(Characters, 4),
        good \in {{}, {<<"/", "n">>}, {<<"/", "n", "n">>}, {<<"/", "n", "n", "n">>, <<"n">>}} :
       Command!Begin(
         Invocation("/bin/tool", interactive, entered, TRUE, <<>>, kernel, FALSE),
         Disk("none", "script", text, good, "none"))

ChildAtRest ==
  /\ child = "none" /\ pending = {} /\ others = FALSE /\ ignoresHup = FALSE /\ stuck = FALSE
  /\ stranger = FALSE /\ struck = {} /\ registered = FALSE /\ lock = None
  /\ main = "ended" /\ watch = "idle" /\ input = "none"
  /\ cleanup = [t \in Cleaners |-> "none"]
  /\ slaveClosed = FALSE /\ inputFailed = FALSE /\ outcome = "setupfailure"

CommandAtRest ==
  /\ setup = None /\ files = None /\ line = None /\ usable = None /\ denial = None
  /\ before = None /\ at = "over" /\ resolved = None /\ result = None

MCInit == (Init /\ CommandAtRest) \/ (SpawnInit /\ ChildAtRest)

SpawnStep == Command!Next /\ UNCHANGED vars

ChildStep == setup = None /\ Next /\ UNCHANGED spawnVars

MCSpec == MCInit /\ [][SpawnStep \/ ChildStep]_<<vars, spawnVars>> /\ Fairness
=============================================================================
