---------------------------- MODULE CommandSpawn ----------------------------
(***************************************************************************)
(* Finding and executing the wrapped command (src/src/cli/pty.rs): the     *)
(* directory it starts in, the check of its #! line, the two ways it is    *)
(* spawned (by portable-pty from a terminal, by spawn_with_caller_stdin    *)
(* otherwise) and the code a failure is reported with.  The files may      *)
(* change once between two of these steps.                                 *)
(*                                                                         *)
(* Left out: a PTY slave that cannot be opened or taken (the generic code  *)
(* 1), descriptors, signal dispositions, an executable that is no regular  *)
(* file or cannot be read.                                                 *)
(***************************************************************************)
EXTENDS Naturals, Sequences, FiniteSetsExt

CONSTANTS
  BufferBytes,     \* bytes after #! that every kernel reads
  LongBuffer,      \* and that a Linux since 5.1 reads
  None

(* Where the program may be: under the caller's directory, under $HOME, in a *)
(* directory of PATH, and below that one when a name with a / is looked up.   *)
Places == {"here", "home", "bin", "below bin"}
Programs == {"empty", "bare", "bin/tool", "./bin/tool", "/bin/tool"}
Kinds == {"none", "directory", "plain", "binary", "orphan", "script"}
Kernels == {"cuts", "refuses", "long", "xnu", "unknown"}

VARIABLES
  setup,           \* the invocation: program, interactive, entered, homeOpen, path, kernel
  files,           \* what each place holds; an orphan lacks its loader
  line,            \* what follows #! in a script
  usable, denial,  \* interpreters that can be executed, and what the others are
  before,          \* history: the files before they changed
  at,              \* the next step
  resolved,        \* the place the program was found at
  outcome

worldVars == <<files, line, usable, denial>>
vars == <<setup, worldVars, before, at, resolved, outcome>>

World == [files |-> files, line |-> line, usable |-> usable, denial |-> denial]

Begin(invocation, w) ==
  /\ setup = invocation
  /\ files = w.files /\ line = w.line /\ usable = w.usable /\ denial = w.denial
  /\ before = None /\ at = "check" /\ resolved = None /\ outcome = None

Invocations ==
  [program : Programs, interactive : BOOLEAN, entered : BOOLEAN, homeOpen : BOOLEAN,
   path : Seq({".", "bin"}), kernel : Kernels, edited : BOOLEAN]

FileSystems ==
  [files : [Places -> Kinds], line : Seq(STRING), usable : SUBSET Seq(STRING),
   denial : {"none", "denied"}]

(* Nothing below a directory that cannot be searched is seen. *)
Seen(w, place) ==
  IF (place = "here" /\ ~setup.entered) \/ (place = "home" /\ ~setup.homeOpen)
  THEN "none" ELSE w.files[place]

Code(n) == <<"exit", n>>
Ran(place) == <<"ran", place>>
Aborted == <<"aborted">>

SpawnConstants ==
  /\ BufferBytes \in Nat \ {0} /\ LongBuffer \in Nat /\ BufferBytes <= LongBuffer
  /\ None \notin Places \cup {"ENOENT", "EACCES"}
  /\ None \notin {Code(126), Code(127)} /\ None \notin FileSystems

Executable(kind) == kind \in {"binary", "orphan", "script"}

(* child_working_directory, and home_dir in its place. *)
StartDirectory == IF setup.entered THEN "here" ELSE "home"

(* Fault: the name is handed to portable-pty as it was typed. *)
AsTyped(program) == program

CwdRelativeProgram(program) == IF program = "bin/tool" THEN "./bin/tool" ELSE program

SearchPath(base, found) ==
  [i \in 1 .. Len(setup.path) |-> IF setup.path[i] = "." THEN base ELSE found]

ProgramCandidates(program, base) ==
  CASE program = "empty" -> <<>>
    [] program = "bare" -> SearchPath(base, "bin")
    [] program = "/bin/tool" -> <<"bin">>
    [] OTHER -> <<base>>

(* portable-pty looks a name up in PATH unless it is absolute or starts with *)
(* ./ or ../                                                                  *)
PortableCandidates(program, base) ==
  IF program = "bin/tool" THEN SearchPath(base, "below bin") ELSE ProgramCandidates(program, base)

Viable(w, candidates) ==
  {i \in 1 .. Len(candidates) : Executable(Seen(w, candidates[i]))}

ResolveProgram(w, candidates) ==
  IF Viable(w, candidates) = {} THEN None ELSE candidates[Min(Viable(w, candidates))]

SpawnFailureExitCode(w, candidates) ==
  IF Viable(w, candidates) # {} THEN Code(1)
  ELSE IF \E i \in 1 .. Len(candidates) : Seen(w, candidates[i]) # "none"
  THEN Code(126) ELSE Code(127)

-----------------------------------------------------------------------------
(* The #! line *)

LinuxShebang == [size |-> BufferBytes, ends |-> {"newline", "nul"}, unended |-> TRUE]
XnuShebang == [size |-> BufferBytes, ends |-> {"newline", "#"}, unended |-> FALSE]

(* What the checks assume of the kernel they were compiled for. *)
KernelShebang == IF setup.kernel = "xnu" THEN XnuShebang ELSE LinuxShebang

(* The interpreter named in a line read into a buffer and zero-filled.  A    *)
(* name the buffer may have cut off counts only when whole is FALSE.         *)
NameInLine(text, syntax, whole) ==
  LET buffer == [i \in 1 .. syntax.size |-> IF i <= Len(text) THEN text[i] ELSE "nul"]
      ends == {i \in 1 .. syntax.size : buffer[i] \in syntax.ends}
      end == IF ends = {} THEN syntax.size + 1 ELSE Min(ends)
      inked == {i \in 1 .. end - 1 : buffer[i] # "blank"}
      first == Min(inked)
      breaks == {i \in first .. end - 1 : buffer[i] \in {"blank", "nul"}}
      name == SubSeq(buffer, first, (IF breaks = {} THEN end ELSE Min(breaks)) - 1)
  IN IF \/ inked = {} \/ name = <<>>
        \/ ends = {} /\ (~syntax.unended \/ (breaks = {} /\ whole))
     THEN None ELSE name

ScriptInterpreter(text, syntax) == NameInLine(text, syntax, TRUE)

(* Kernels of one syntax differ in the size of the buffer and in what they   *)
(* do with a name that does not end in it.                                   *)
KernelInterpreter(text) ==
  NameInLine(text,
             [KernelShebang EXCEPT !.size = IF setup.kernel = "long" THEN LongBuffer ELSE @],
             setup.kernel # "cuts")

InterpreterState(w, name) == IF name \in w.usable THEN "usable" ELSE w.denial

(* The code unusable_script_interpreter refuses the program with, if it does. *)
InterpreterRefusal(w) ==
  LET candidates == ProgramCandidates(CwdRelativeProgram(setup.program), "here")
      script == ResolveProgram(w, candidates)
      name == ScriptInterpreter(w.line, KernelShebang)
  IN IF \/ setup.kernel = "unknown" \/ script = None
        \/ Seen(w, script) # "script" \/ name = None
        \/ (~setup.entered /\ name[1] # "/")
        \/ InterpreterState(w, name) = "usable"
     THEN None
     ELSE IF InterpreterState(w, name) = "none" THEN Code(127) ELSE Code(126)

(* execve, and execvp's use of /bin/sh for a file in no known format. *)
ExecError(w, place) ==
  LET name == KernelInterpreter(w.line)
      kind == w.files[place]
  IN CASE kind \in {"none", "orphan"} -> "ENOENT"
       [] kind \in {"directory", "plain"} -> "EACCES"
       [] kind = "script" /\ name # None /\ InterpreterState(w, name) # "usable" ->
            IF InterpreterState(w, name) = "none" THEN "ENOENT" ELSE "EACCES"
       [] OTHER -> None

ExecFailureExitCode(error) == IF error = "ENOENT" THEN Code(127) ELSE Code(126)

-----------------------------------------------------------------------------
Ends(result) == outcome' = result /\ at' = "over" /\ UNCHANGED resolved

Refuse ==
  /\ at = "check" /\ InterpreterRefusal(World) # None
  /\ Ends(InterpreterRefusal(World))
  /\ UNCHANGED <<setup, worldVars, before>>

Accept ==
  /\ at = "check" /\ InterpreterRefusal(World) = None
  /\ at' = "resolve"
  /\ UNCHANGED <<setup, worldVars, before, resolved, outcome>>

SpawnCandidates ==
  LET program == CwdRelativeProgram(setup.program)
  IN IF setup.interactive THEN PortableCandidates(program, StartDirectory)
     ELSE ProgramCandidates(program, StartDirectory)

Resolve ==
  /\ at = "resolve"
  /\ resolved' = ResolveProgram(World, SpawnCandidates)
  /\ at' = IF resolved' = None THEN "report" ELSE "exec"
  /\ UNCHANGED <<setup, worldVars, before, outcome>>

(* From a terminal the candidates are those of the caller's directory. *)
Report ==
  /\ at = "report"
  /\ Ends(SpawnFailureExitCode(World,
            ProgramCandidates(CwdRelativeProgram(setup.program),
                              IF setup.interactive THEN "here" ELSE StartDirectory)))
  /\ UNCHANGED <<setup, worldVars, before>>

(* The child enters its directory before it executes the program. *)
CannotEnter ==
  /\ at = "exec" /\ ~setup.entered /\ ~setup.homeOpen
  /\ IF setup.interactive
     THEN at' = "report" /\ UNCHANGED <<resolved, outcome>>
     ELSE Ends(Code(1))
  /\ UNCHANGED <<setup, worldVars, before>>

(* portable-pty has closed the descriptor the error would be reported on. *)
Exec ==
  /\ at = "exec" /\ (setup.entered \/ setup.homeOpen)
  /\ LET error == ExecError(World, resolved)
     IN Ends(IF error = None THEN Ran(resolved)
             ELSE IF setup.interactive THEN Aborted
             ELSE ExecFailureExitCode(error))
  /\ UNCHANGED <<setup, worldVars, before>>

Edit ==
  /\ at # "over" /\ before = None /\ setup.edited
  /\ before' = World
  /\ \/ /\ \E place \in {"here", "bin"}, kind \in Kinds :
             files' = [files EXCEPT ![place] = kind]
        /\ UNCHANGED <<line, usable, denial>>
     \/ usable' = {} /\ UNCHANGED <<files, line, denial>>
  /\ UNCHANGED <<setup, at, resolved, outcome>>

Next == Refuse \/ Accept \/ Resolve \/ Report \/ CannotEnter \/ Exec \/ Edit

Init == \E invocation \in Invocations, w \in FileSystems : Begin(invocation, w)

Spec == Init /\ [][Next]_vars

-----------------------------------------------------------------------------
(* What a shell in the directory the child starts in does with the command. *)
ShellOutcome(w) ==
  LET tried == ProgramCandidates(setup.program, StartDirectory)
      found == ResolveProgram(w, tried)
      error == ExecError(w, found)
  IN IF found = None
     THEN IF \E i \in 1 .. Len(tried) : Seen(w, tried[i]) # "none" THEN Code(126) ELSE Code(127)
     ELSE IF error = None THEN Ran(found)
     ELSE ExecFailureExitCode(error)

Failed(result) == result[1] # "ran"

(* What only execve can tell: a loader that is missing, and an interpreter   *)
(* the check does not know, or cannot look for.                              *)
OnlyExecKnows ==
  \/ files[resolved] = "orphan"
  \/ setup.kernel = "unknown"
  \/ LET name == ScriptInterpreter(line, KernelShebang)
     IN name = None \/ (~setup.entered /\ name[1] # "/")

(* The files, and what they were before they changed. *)
Worlds == {World} \cup (IF before = None THEN {} ELSE {before})

TypeOK ==
  /\ setup \in Invocations /\ World \in FileSystems /\ before \in FileSystems \cup {None}
  /\ at \in {"check", "resolve", "report", "exec", "over"}
  /\ resolved \in Places \cup {None}

OneChange ==
  before # None =>
    /\ line = before.line /\ denial = before.denial
    /\ \/ /\ usable = before.usable
          /\ \A p, q \in Places :
               files[p] # before.files[p] /\ files[q] # before.files[q] => p = q
       \/ usable = {} /\ files = before.files

(* The check passed, and the program was looked up, before or after. *)
OnItsWay ==
  /\ at # "over" => outcome = None
  /\ at \in {"check", "resolve"} => resolved = None
  /\ at \in {"resolve", "exec"} => \E w \in Worlds : InterpreterRefusal(w) = None
  /\ at \in {"exec", "report"} => \E w \in Worlds : resolved = ResolveProgram(w, SpawnCandidates)
  /\ at = "exec" => resolved # None
  /\ at = "report" => resolved = None \/ (~setup.entered /\ ~setup.homeOpen)

(* A command ends as it would from a shell, with the same program or the     *)
(* same code; from a terminal the child aborts only where nothing but execve *)
(* can tell, and 1 is left for a $HOME it cannot enter.  When the files       *)
(* change meanwhile, it is the outcome of before or of after, or a failure    *)
(* where one of them fails or the program found was changed (pty.rs:747,     *)
(* :857, :1082).  A directory that cannot be entered is left out for a name   *)
(* relative to it.                                                            *)
SpawnsAsAShell ==
  LET relative == "here" \in {ProgramCandidates(setup.program, "here")[i] :
                                i \in DOMAIN ProgramCandidates(setup.program, "here")}
  IN outcome # None /\ (setup.entered \/ ~relative) =>
       \/ \E w \in Worlds : outcome = ShellOutcome(w)
       \/ /\ before # None /\ Failed(outcome)
          /\ \/ \E w \in Worlds : Failed(ShellOutcome(w))
             \/ resolved # None /\ files[resolved] # before.files[resolved]
       \/ outcome = Aborted /\ setup.interactive /\ OnlyExecKnows
       \/ outcome = Code(1) /\ ~setup.entered /\ ~setup.homeOpen

SpawnInv == TypeOK /\ OneChange /\ OnItsWay /\ SpawnsAsAShell
=============================================================================
