--------------------------- MODULE ProfileRuntime ---------------------------
(***************************************************************************)
(* The dynamic profile state machine of src/src/profile_runtime.rs: which  *)
(* profile set highlights the output now, which sets the enclosing remote  *)
(* connections will go back to, and which remote command typed by the user *)
(* is still waiting for the output that shows its device.                  *)
(*                                                                         *)
(* Data abstraction.  A line of output is what the matchers say of it      *)
(* (Line); a read is the complete lines it brings and what the             *)
(* unterminated line reads as after it (Reads).  A profile list of the     *)
(* code always starts with "generic" and is sorted by priority, so the set *)
(* of its specific profiles stands for it, {} being the generic list.      *)
(* A typed line is the remote command it parses as, or None.               *)
(***************************************************************************)
EXTENDS Naturals, FiniteSets, SequencesExt

CONSTANTS
  Profiles,        \* the specific profile names of the store
  Priority,        \* their order: [Profiles -> Nat], smaller first
  LocalProfiles,   \* those whose runtime.local_baseline is set
  Confidence,      \* their runtime.prompt_confidence
  Targets,         \* host names a command or a close line may name
  Commands,        \* the remote commands the user may type
  Reads,           \* the reads of output the wrapped program may produce
  InitialSets,     \* the profile sets a session may start with
  StackLimit,      \* PROFILE_STACK_LIMIT
  LineGrace,       \* REMOTE_ATTEMPT_LINE_GRACE
  None             \* Option::None

Policies == {"SshLike", "Telnet", "Screen", "Serial", "Generic"}
MarkerKinds == {"SshLike", "Telnet", "Screen", "Serial", "Logout"}
Confidences == {"Repeated", "SingleAfterRemoteHint", "SingleFromBaselineOrRemoteHint"}
Evidence == {"Weak", "Banner", "BannerAndPrompt"}

RemoteAttempt == [policy : Policies, target : Targets \cup {None}]
CloseMarker == [kind : MarkerKinds, target : Targets \cup {None}]

(* strong: profiles with a strong signal on the line; startup: profiles that *)
(* startup detection finds in it; prompts: profiles whose runtime prompt     *)
(* matcher accepts it; waits: it ends in one of # > $ %; close: the teardown *)
(* marker it is; failures: policies for which it reports a failed open.      *)
Line == [strong : SUBSET Profiles, startup : SUBSET Profiles,
         prompts : SUBSET Profiles, waits : BOOLEAN,
         close : CloseMarker \cup {None}, failures : SUBSET Policies]

(* bulk: 4096 bytes have arrived since the last detection pass. *)
Read == [lines : SUBSET Line, tail : Line \cup {None}, bulk : BOOLEAN]

(* session: FALSE for a command OpenSSH runs without an interactive session. *)
Command == [policy : Policies \ {"Generic"}, target : Targets \cup {None},
            session : BOOLEAN]

Windows == [lines : SUBSET Line, tail : Line \cup {None}]

ProfileFrame == [profiles : SUBSET Profiles, closePolicy : Policies,
                 target : Targets \cup {None}, unresolved : BOOLEAN,
                 nestedSeen : BOOLEAN]

TransitionStates ==
  [active : SUBSET Profiles, evidence : Evidence, baseline : SUBSET Profiles,
   stack : Seq(ProfileFrame), pending : RemoteAttempt \cup {None},
   locked : BOOLEAN, prompt : Profiles \cup {None}, hits : Nat]

ProfilesAssumption ==
  /\ LocalProfiles \subseteq Profiles
  /\ Priority \in [Profiles -> Nat]
  /\ \A p, q \in Profiles : Priority[p] = Priority[q] => p = q
  /\ Confidence \in [Profiles -> Confidences]
  /\ InitialSets \subseteq SUBSET Profiles

(* A strong signal is also a startup detection (matches_startup_detection). *)
InputsAssumption ==
  /\ Commands \subseteq Command
  /\ Reads \subseteq Read
  /\ \A r \in Reads : \A l \in r.lines \cup ({r.tail} \ {None}) : l.strong \subseteq l.startup

(* The second frame of a full stack must exist to be collapsed. *)
LimitsAssumption ==
  /\ StackLimit \in Nat /\ StackLimit >= 2
  /\ LineGrace \in Nat

NoneAssumption ==
  /\ None \notin RemoteAttempt /\ None \notin CloseMarker /\ None \notin Line
  /\ None \notin Command
  /\ None \notin Targets /\ None \notin Profiles /\ None \notin TransitionStates

ASSUME RuntimeAssumptions ==
  ProfilesAssumption /\ InputsAssumption /\ LimitsAssumption /\ NoneAssumption

VARIABLES
  activeProfiles, activeEvidence, baselineProfiles, stack,
  pendingRemote, pendingLines, baselineLocked,
  promptProfile, promptHits,
  window,            \* output_window: complete lines kept, and the tail
  typedLine, lineReliable, unreliableAttempt,
  rollback,          \* transition_rollback: Some while a proposal is undecided
  linesTyped         \* history: lines submitted since the command in flight was

inputVars == <<typedLine, lineReliable, unreliableAttempt>>
promptVars == <<promptProfile, promptHits>>
connectionVars == <<activeProfiles, activeEvidence, baselineProfiles, stack>>
runtimeVars == <<connectionVars, pendingRemote, pendingLines, baselineLocked,
                 promptVars, window, inputVars, rollback, linesTyped>>

EmptyWindow == [lines |-> {}, tail |-> None]

RuntimeInit ==
  /\ activeProfiles \in InitialSets
  /\ baselineProfiles = activeProfiles
  /\ activeEvidence = "Weak"
  /\ stack = <<>>
  /\ pendingRemote = None /\ pendingLines = 0
  /\ baselineLocked = (activeProfiles # {})
  /\ promptProfile = None /\ promptHits = 0
  /\ window = EmptyWindow
  /\ typedLine = None /\ lineReliable = TRUE /\ unreliableAttempt = None
  /\ rollback = None /\ linesTyped = 0

-----------------------------------------------------------------------------
(* The profile store's answers (src/src/profiles.rs). *)

ByPriority(S) == CHOOSE p \in S : \A q \in S : Priority[p] <= Priority[q]

ActiveSpecific == IF activeProfiles = {} THEN None ELSE ByPriority(activeProfiles)

IsLocal(S) == S \subseteq LocalProfiles

AllLines(w) == w.lines \cup ({w.tail} \ {None})

Detected(w) == UNION {l.startup : l \in AllLines(w)}

Showing(w, S) == S \cap UNION {l.prompts : l \in AllLines(w)}

StrongCandidates(w) ==
  (Detected(w) \ {ActiveSpecific}) \cap UNION {l.strong : l \in AllLines(w)}

PromptCandidates(w) == Showing(w, Detected(w) \ {ActiveSpecific})

WaitingAtPrompt(w, p) == w.tail # None /\ w.tail.waits /\ p \in w.tail.prompts

-----------------------------------------------------------------------------
(* Teardown lines. *)

Accepts(policy, kind) ==
  policy = "Generic" \/ kind = "Logout" \/ policy = kind

(* Two names are compared only when both are known. *)
Matches(m, policy, target) ==
  /\ Accepts(policy, m.kind)
  /\ m.target = None \/ target = None \/ m.target = target

(* A targeted ssh close that names no tracked connection. *)
UntrackedSshClose(m) ==
  /\ m.kind = "SshLike" /\ m.target # None
  /\ \A i \in DOMAIN stack : stack[i].target # m.target

CloseMarkers(w) == {l.close : l \in w.lines} \ {None}

MatchesPending(m) ==
  pendingRemote # None /\ Matches(m, pendingRemote.policy, pendingRemote.target)

MatchesTop(m) ==
  stack # <<>> /\ Matches(m, Last(stack).closePolicy, Last(stack).target)

(* The close names the top connection and not the attempt in flight. *)
NamesTopOnly(m) ==
  /\ m.target # None /\ MatchesTop(m)
  /\ ~ (MatchesPending(m) /\ pendingRemote.target # None)

(* Fault: the attempt in flight takes every close that it could be. *)
TopClosesLast(w) ==
  /\ \A m \in CloseMarkers(w) : ~ MatchesPending(m)
  /\ \E m \in CloseMarkers(w) : MatchesTop(m)

ClosesTop(w) ==
  \/ \E m \in CloseMarkers(w) : NamesTopOnly(m)
  \/ /\ \A m \in CloseMarkers(w) : ~ MatchesPending(m)
     /\ \E m \in CloseMarkers(w) : MatchesTop(m)

ClosesPending(w) == \E m \in CloseMarkers(w) : MatchesPending(m)

(* OpenSSH names the HostName an alias resolves to: with nothing typed inside *)
(* this connection, an unknown name can only be its own.                      *)
ClosesAliasedTop(w) ==
  /\ pendingRemote = None /\ stack # <<>> /\ ~ Last(stack).nestedSeen
  /\ \E m \in CloseMarkers(w) :
       Accepts(Last(stack).closePolicy, m.kind) /\ UntrackedSshClose(m)

ClosesAliasedPending(w) ==
  /\ pendingRemote # None
  /\ \E m \in CloseMarkers(w) :
       Accepts(pendingRemote.policy, m.kind) /\ UntrackedSshClose(m)

OpenFailed(w) ==
  pendingRemote # None /\ \E l \in AllLines(w) : pendingRemote.policy \in l.failures

-----------------------------------------------------------------------------
(* Steps the handlers are built from. *)

TransitionState ==
  [active |-> activeProfiles, evidence |-> activeEvidence,
   baseline |-> baselineProfiles, stack |-> stack, pending |-> pendingRemote,
   locked |-> baselineLocked, prompt |-> promptProfile, hits |-> promptHits]

(* observe_output returns Some exactly when it keeps a rollback. *)
Propose(changed) == rollback' = IF changed THEN TransitionState ELSE None

ClearPendingPrompt == promptProfile' = None /\ promptHits' = 0

ClearOutputWindow == window' = EmptyWindow

RetainUnterminatedTail(w) == window' = [w EXCEPT !.lines = {}]

(* pending_remote.take() *)
TakePending == pendingRemote' = None

NewFrame(profiles, attempt, unresolved) ==
  [profiles |-> profiles, closePolicy |-> attempt.policy, target |-> attempt.target,
   unresolved |-> unresolved, nestedSeen |-> FALSE]

(* Fault: the very first frame gives way. *)
PushFrameDroppingFirst(frames, profiles, attempt, unresolved) ==
  Append(IF Len(frames) >= StackLimit THEN Tail(frames) ELSE frames,
         NewFrame(profiles, attempt, unresolved))

(* The oldest interior level gives way; the first frame stays. *)
PushFrame(frames, profiles, attempt, unresolved) ==
  Append(IF Len(frames) >= StackLimit THEN RemoveAt(frames, 2) ELSE frames,
         NewFrame(profiles, attempt, unresolved))

(* Fault: a resolved detection stays marked. *)
ResolveNothing == stack

ResolveTop ==
  IF stack = <<>> THEN stack ELSE [stack EXCEPT ![Len(stack)].unresolved = FALSE]

FramesNaming(profiles) == {i \in DOMAIN stack : stack[i].profiles = profiles}

FirstNaming(profiles) ==
  CHOOSE i \in FramesNaming(profiles) : \A j \in FramesNaming(profiles) : i <= j

(* Fault: the frame gone back to stays open. *)
FramesThrough(profiles) == SubSeq(stack, 1, FirstNaming(profiles))

FramesUnder(profiles) == SubSeq(stack, 1, FirstNaming(profiles) - 1)

(* A switch without a typed command refines the current connection, goes back *)
(* to the frame or baseline it names, or leaves the local shell unannounced.  *)
StackAfterSwitch(profiles, attempt, openBaselineFrame) ==
  IF attempt # None THEN PushFrame(stack, activeProfiles, attempt, FALSE)
  ELSE IF profiles = activeProfiles THEN ResolveTop
  ELSE IF FramesNaming(profiles) # {} THEN FramesUnder(profiles)
  ELSE IF profiles = baselineProfiles THEN <<>>
  ELSE IF openBaselineFrame
    THEN PushFrame(ResolveTop, activeProfiles, [policy |-> "Generic", target |-> None], FALSE)
  ELSE ResolveTop

SwitchTo(profiles, attempt, openBaselineFrame, evidence) ==
  /\ stack' = StackAfterSwitch(profiles, attempt, openBaselineFrame)
  /\ activeProfiles' = profiles
  /\ activeEvidence' = evidence
  /\ Propose(profiles # activeProfiles)
  /\ UNCHANGED <<baselineProfiles, baselineLocked>>

PopProfile ==
  LET restored == IF stack = <<>> THEN baselineProfiles ELSE Last(stack).profiles
  IN /\ stack' = IF stack = <<>> THEN stack ELSE Front(stack)
     /\ activeProfiles' = restored
     /\ activeEvidence' = "Weak"
     /\ Propose(restored # activeProfiles)
     /\ UNCHANGED <<baselineProfiles, baselineLocked>>

-----------------------------------------------------------------------------
(* observe_output: the window with a read in it, then one examination of it. *)

(* What the unterminated line reads as now; a signal found in it stays in it. *)
Lengthened(old, new) ==
  IF old = None THEN new
  ELSE IF new = None THEN old
  ELSE [new EXCEPT !.strong = @ \cup old.strong, !.startup = @ \cup old.strong]

WindowWith(r) ==
  IF r.lines = {} THEN [window EXCEPT !.tail = Lengthened(window.tail, r.tail)]
  ELSE [lines |-> window.lines \cup r.lines \cup ({window.tail} \ {None}),
        tail  |-> r.tail]

Quiet(w) ==
  ~ (ClosesTop(w) \/ ClosesPending(w) \/ ClosesAliasedTop(w)
     \/ ClosesAliasedPending(w) \/ OpenFailed(w))

ShouldDetectProfiles(r) ==
  \/ pendingRemote # None \/ r.bulk \/ r.lines # {}
  \/ r.tail # None /\ r.tail.waits

(* The device's prompt followed the banner that selected it. *)
EvidenceAfter(w) ==
  IF activeEvidence = "Banner" /\ activeProfiles # {} /\ Showing(w, {ActiveSpecific}) # {}
  THEN "BannerAndPrompt" ELSE activeEvidence

AtLocalBaseline ==
  stack = <<>> /\ activeProfiles = baselineProfiles /\ IsLocal(activeProfiles)

ShouldLearnBaseline(w) ==
  /\ ~ baselineLocked /\ stack = <<>> /\ activeProfiles = {}
  /\ IsLocal(Detected(w))

HasRemoteHint ==
  pendingRemote # None \/ (stack # <<>> /\ Last(stack).unresolved)

(* A banner-identified device that showed its prompt keeps its profile. *)
IdentifiedRemote ==
  /\ activeEvidence = "BannerAndPrompt" /\ ~ HasRemoteHint
  /\ activeProfiles # {} /\ ActiveSpecific \notin LocalProfiles

TakesStrong(w) == ~ IdentifiedRemote /\ StrongCandidates(w) # {}

TakesPrompt(w) ==
  /\ HasRemoteHint \/ activeProfiles = {} \/ AtLocalBaseline
  /\ PromptCandidates(w) # {}

PromptSwitchesOnFirstDetection(w, p) ==
  /\ \/ Confidence[p] = "SingleAfterRemoteHint" /\ HasRemoteHint
     \/ Confidence[p] = "SingleFromBaselineOrRemoteHint" /\ (HasRemoteHint \/ AtLocalBaseline)
  /\ HasRemoteHint \/ WaitingAtPrompt(w, p)

(* An examination that opens, closes or switches nothing. *)
NothingSwitched ==
  /\ Propose(FALSE)
  /\ UNCHANGED <<activeProfiles, baselineProfiles, stack, baselineLocked>>

PopOnClose(w) ==
  /\ ClosesTop(w) \/ (~ ClosesPending(w) /\ ClosesAliasedTop(w))
  /\ pendingRemote' = None
  /\ ClearOutputWindow /\ ClearPendingPrompt
  /\ PopProfile

(* The attempt closed, under its own name or its alias's, or never opened. *)
EndAttempt(w) ==
  /\ ~ ClosesTop(w)
  /\ ClosesPending(w) \/ (~ ClosesAliasedTop(w) /\ (ClosesAliasedPending(w) \/ OpenFailed(w)))
  /\ pendingRemote' = None
  /\ ClearOutputWindow /\ ClearPendingPrompt
  /\ NothingSwitched /\ UNCHANGED activeEvidence

WaitForMore(w, r) ==
  /\ Quiet(w) /\ ~ ShouldDetectProfiles(r)
  /\ window' = w
  /\ NothingSwitched /\ UNCHANGED <<activeEvidence, pendingRemote, promptVars>>

DetectNothing(w) ==
  /\ Detected(w) = {}
  /\ activeEvidence' = EvidenceAfter(w)
  /\ RetainUnterminatedTail(w) /\ ClearPendingPrompt
  /\ NothingSwitched /\ UNCHANGED pendingRemote

(* The active set again: only a typed command makes it another connection. *)
DetectActive(w) ==
  /\ Detected(w) # {} /\ Detected(w) = activeProfiles
  /\ ClearPendingPrompt
  /\ \/ /\ pendingRemote # None
        /\ TakePending
        /\ ClearOutputWindow
        /\ SwitchTo(activeProfiles, pendingRemote, FALSE, "Weak")
     \/ /\ pendingRemote = None
        /\ activeEvidence' = EvidenceAfter(w)
        /\ RetainUnterminatedTail(w)
        /\ NothingSwitched /\ UNCHANGED pendingRemote

DetectsOther(w) == Detected(w) # {} /\ Detected(w) # activeProfiles

LearnBaseline(w) ==
  /\ DetectsOther(w) /\ ShouldLearnBaseline(w)
  /\ baselineProfiles' = Detected(w)
  /\ activeProfiles' = Detected(w)
  /\ activeEvidence' = "Weak"
  /\ baselineLocked' = TRUE
  /\ ClearOutputWindow /\ ClearPendingPrompt
  /\ Propose(TRUE)
  /\ UNCHANGED <<stack, pendingRemote>>

SwitchOnStrongSignal(w) ==
  /\ DetectsOther(w) /\ ~ ShouldLearnBaseline(w) /\ TakesStrong(w)
  /\ LET p == ByPriority(StrongCandidates(w))
     IN SwitchTo({p}, pendingRemote, AtLocalBaseline,
                 IF WaitingAtPrompt(w, p) THEN "BannerAndPrompt" ELSE "Banner")
  /\ TakePending
  /\ ClearOutputWindow /\ ClearPendingPrompt

(* A prompt switches at first sight or, repeated, at the second. *)
SwitchOnPrompt(w) ==
  /\ DetectsOther(w) /\ ~ ShouldLearnBaseline(w) /\ ~ TakesStrong(w) /\ TakesPrompt(w)
  /\ LET p == ByPriority(PromptCandidates(w))
     IN /\ PromptSwitchesOnFirstDetection(w, p) \/ (promptProfile = p /\ promptHits >= 1)
        /\ SwitchTo({p}, pendingRemote, AtLocalBaseline, "Weak")
  /\ TakePending
  /\ ClearOutputWindow /\ ClearPendingPrompt

NotePrompt(w) ==
  /\ DetectsOther(w) /\ ~ ShouldLearnBaseline(w) /\ ~ TakesStrong(w) /\ TakesPrompt(w)
  /\ LET p == ByPriority(PromptCandidates(w))
     IN /\ ~ PromptSwitchesOnFirstDetection(w, p) /\ promptProfile # p
        /\ promptProfile' = p /\ promptHits' = 1
  /\ activeEvidence' = EvidenceAfter(w)
  /\ RetainUnterminatedTail(w)
  /\ NothingSwitched /\ UNCHANGED pendingRemote

DismissDetection(w) ==
  /\ DetectsOther(w) /\ ~ ShouldLearnBaseline(w) /\ ~ TakesStrong(w) /\ ~ TakesPrompt(w)
  /\ activeEvidence' = EvidenceAfter(w)
  /\ ClearPendingPrompt
  /\ IF activeProfiles # {} THEN ClearOutputWindow ELSE RetainUnterminatedTail(w)
  /\ NothingSwitched /\ UNCHANGED pendingRemote

Detect(w) ==
  \/ DetectNothing(w)
  \/ DetectActive(w)
  \/ LearnBaseline(w)
  \/ SwitchOnStrongSignal(w)
  \/ SwitchOnPrompt(w)
  \/ NotePrompt(w)
  \/ DismissDetection(w)

(* The caller decided on the previous proposal before it reads again. *)
ObserveOutput(r) ==
  LET w == WindowWith(r)
  IN /\ rollback = None
     /\ \/ PopOnClose(w)
        \/ EndAttempt(w)
        \/ WaitForMore(w, r)
        \/ Quiet(w) /\ ShouldDetectProfiles(r) /\ Detect(w)
     /\ UNCHANGED <<pendingLines, inputVars, linesTyped>>

-----------------------------------------------------------------------------
(* The caller's decision, and a reload. *)

AcceptTransition ==
  /\ rollback # None
  /\ rollback' = None
  /\ UNCHANGED <<connectionVars, pendingRemote, pendingLines, baselineLocked,
                 promptVars, window, inputVars, linesTyped>>

(* The connection a typed command opened exists although its highlighter could *)
(* not be built: it gets a frame that changes nothing, for its close to pop.   *)
RejectTransition ==
  /\ rollback # None
  /\ activeProfiles' = rollback.active
  /\ activeEvidence' = rollback.evidence
  /\ baselineProfiles' = rollback.baseline
  /\ baselineLocked' = rollback.locked
  /\ stack' = IF rollback.pending = None THEN rollback.stack
              ELSE PushFrame(rollback.stack, rollback.active, rollback.pending, TRUE)
  /\ pendingRemote' = None
  /\ ClearOutputWindow /\ ClearPendingPrompt
  /\ rollback' = None
  /\ UNCHANGED <<pendingLines, inputVars, linesTyped>>

AcceptReloadGeneration ==
  /\ rollback = None
  /\ ClearOutputWindow /\ ClearPendingPrompt
  /\ UNCHANGED <<connectionVars, pendingRemote, pendingLines, baselineLocked,
                 inputVars, rollback, linesTyped>>

(* Fault: only the baseline is kept loadable. *)
BaselineForReload == {baselineProfiles}

ProfileSetsForReload == {baselineProfiles} \cup {stack[i].profiles : i \in DOMAIN stack}

-----------------------------------------------------------------------------
(* observe_input: the keys, by what they do to the typed line. *)

(* Where the baseline's profiles are active, ssh is OpenSSH. *)
TypedRemoteAttempt ==
  IF typedLine = None \/ (activeProfiles = baselineProfiles /\ ~ typedLine.session) THEN None
  ELSE [policy |-> typedLine.policy, target |-> typedLine.target]

ResetInputLine == typedLine' = None /\ lineReliable' = TRUE /\ unreliableAttempt' = None

(* Printable keys and Backspace make the line read as another command or none. *)
TypeLine(c) ==
  /\ rollback = None /\ lineReliable /\ c # typedLine
  /\ typedLine' = c
  /\ UNCHANGED <<connectionVars, pendingRemote, pendingLines, baselineLocked, promptVars,
                 window, lineReliable, unreliableAttempt, rollback, linesTyped>>

(* Tab, Ctrl-W, cursor and function keys: what the shell's line reads is unknown. *)
InvalidateInputLine ==
  /\ rollback = None /\ lineReliable
  /\ unreliableAttempt' =
       IF TypedRemoteAttempt = None THEN None ELSE [TypedRemoteAttempt EXCEPT !.target = None]
  /\ typedLine' = None /\ lineReliable' = FALSE
  /\ UNCHANGED <<connectionVars, pendingRemote, pendingLines, baselineLocked, promptVars,
                 window, rollback, linesTyped>>

PressCtrlC ==
  /\ rollback = None
  /\ ResetInputLine
  /\ pendingRemote' = None
  /\ UNCHANGED <<connectionVars, pendingLines, baselineLocked, promptVars, window, rollback,
                 linesTyped>>

PressCtrlU ==
  /\ rollback = None
  /\ ResetInputLine
  /\ UNCHANGED <<connectionVars, pendingRemote, pendingLines, baselineLocked, promptVars,
                 window, rollback, linesTyped>>

SubmittedAttempt == IF lineReliable THEN TypedRemoteAttempt ELSE unreliableAttempt

(* frame.nested_attempt_seen = true on the top frame. *)
MarkTop ==
  IF stack = <<>> THEN stack ELSE [stack EXCEPT ![Len(stack)].nestedSeen = TRUE]

(* Enter on a remote command arms it in place of any earlier one. *)
ArmRemoteAttempt ==
  /\ rollback = None /\ SubmittedAttempt # None
  /\ pendingRemote' = SubmittedAttempt
  /\ pendingLines' = 0 /\ linesTyped' = 0
  /\ stack' = MarkTop
  /\ baselineLocked' = TRUE
  /\ ClearOutputWindow /\ ClearPendingPrompt
  /\ ResetInputLine
  /\ UNCHANGED <<activeProfiles, activeEvidence, baselineProfiles, rollback>>

(* Fault: the last line of its grace ends an attempt. *)
ExpiredWithin(lines) == lines >= LineGrace

Expired(lines) == lines > LineGrace

(* Enter on any other line ages the attempt in flight. *)
AgePendingRemote ==
  /\ rollback = None /\ SubmittedAttempt = None
  /\ ResetInputLine
  /\ IF pendingRemote = None THEN UNCHANGED <<pendingRemote, pendingLines, linesTyped>>
     ELSE /\ pendingLines' = pendingLines + 1 /\ linesTyped' = linesTyped + 1
          /\ pendingRemote' = IF Expired(pendingLines') THEN None ELSE pendingRemote
  /\ UNCHANGED <<connectionVars, baselineLocked, promptVars, window, rollback>>

ObserveInput ==
  \/ \E c \in Commands \cup {None} : TypeLine(c)
  \/ InvalidateInputLine
  \/ PressCtrlC
  \/ PressCtrlU
  \/ ArmRemoteAttempt
  \/ AgePendingRemote

RuntimeNext ==
  \/ ObserveInput
  \/ \E r \in Reads : ObserveOutput(r)
  \/ AcceptTransition
  \/ RejectTransition
  \/ AcceptReloadGeneration

RuntimeSpec == RuntimeInit /\ [][RuntimeNext]_runtimeVars

-----------------------------------------------------------------------------
RuntimeTypeOK ==
  /\ activeProfiles \in SUBSET Profiles
  /\ activeEvidence \in Evidence
  /\ baselineProfiles \in SUBSET Profiles
  /\ stack \in Seq(ProfileFrame) /\ Len(stack) <= StackLimit
  /\ pendingRemote \in RemoteAttempt \cup {None}
  /\ pendingLines \in 0 .. LineGrace + 1
  /\ baselineLocked \in BOOLEAN
  /\ promptProfile \in Profiles \cup {None} /\ promptHits \in Nat
  /\ window \in Windows
  /\ typedLine \in Commands \cup {None} /\ lineReliable \in BOOLEAN
  /\ unreliableAttempt \in RemoteAttempt \cup {None}
  /\ rollback \in TransitionStates \cup {None}

(* Closing every connection of frames leads back to the baseline. *)
ReturnsToBaseline(active, baseline, frames) ==
  IsLocal(baseline) =>
    IF frames = <<>> THEN active = baseline ELSE frames[1].profiles = baseline

(* A local session always has its way back: while the baseline is a local   *)
(* shell's, no enclosing connection means the baseline is active, and the   *)
(* outermost frame goes back to it, whatever was nested, refined, rejected, *)
(* collapsed at the limit or unwound (profile_runtime.rs:736).              *)
BottomFrameIsBaseline == ReturnsToBaseline(activeProfiles, baselineProfiles, stack)

(* What the frame at i was opened around: the next frame's profiles. *)
Inside(active, frames, i) ==
  IF i = Len(frames) THEN active ELSE frames[i + 1].profiles

(* Only the first frame may lose its neighbour to the collapse at the limit. *)
FramesSettled(active, frames) ==
  \A i \in 2 .. Len(frames) :
    frames[i].unresolved => Inside(active, frames, i) = frames[i].profiles

(* A frame kept for a rejected profile set is a no-op until its detection  *)
(* resolves: closing it changes no profile.                                *)
UnresolvedFrameIsNoOp == FramesSettled(activeProfiles, stack)

(* So it is of the state that an undecided proposal may be taken back to. *)
RollbackSettled == rollback # None => FramesSettled(rollback.active, rollback.stack)

(* A complete line is examined by one detection pass only, so one teardown *)
(* line can never close a second connection and one prompt line can never  *)
(* count as its own repetition (profile_runtime.rs:650, 761).              *)
NoLineExaminedTwice == window.lines = {}

(* What is left between two reads or keys owes nothing to what is over: no   *)
(* frame changes a profile it never took, no line is examined again          *)
(* (profile_runtime.rs:511, 761).                                            *)
FramesAndLinesSettled == UnresolvedFrameIsNoOp /\ RollbackSettled /\ NoLineExaminedTwice

(* An attempt outlives at most LineGrace lines typed after its own          *)
(* (profile_runtime.rs:582).                                                *)
AttemptExpires ==
  pendingRemote # None => pendingLines = linesTyped /\ linesTyped <= LineGrace

(* A typed command ends the time in which the local shell's profiles may be  *)
(* learned from its prompt (profile_runtime.rs:621).                         *)
CommandLocksBaseline == pendingRemote # None => baselineLocked

(* A rejection closes at most the frame its proposal had opened around the  *)
(* local shell: a proposal made without a command opens no other.           *)
RejectionClosesOwnFrame ==
  rollback # None =>
    \/ Len(stack) <= Len(rollback.stack)
    \/ rollback.pending # None /\ Len(stack) = Len(rollback.stack) + 1
    \/ rollback.stack = <<>> /\ Len(stack) = 1 /\ stack[1].profiles = rollback.active

(* The inductive invariant: what the stack and the attempt obey holds of the *)
(* state an undecided proposal would be rolled back to as well, since a       *)
(* rejection restores that state and opens a frame on it                      *)
(* (profile_runtime.rs:505).                                                  *)
RollbackObeys ==
  rollback # None =>
    /\ Len(rollback.stack) <= StackLimit
    /\ ReturnsToBaseline(rollback.active, rollback.baseline, rollback.stack)

RuntimeInv ==
  /\ RuntimeTypeOK /\ AttemptExpires /\ CommandLocksBaseline /\ BottomFrameIsBaseline
  /\ RollbackObeys /\ RejectionClosesOwnFrame

(* Once output has identified a remote device by its banner and prompt, only *)
(* the end of a connection changes its profile until another remote command  *)
(* is typed (README.md:178, "keeps the selected remote profile locked").     *)
IdentifiedDeviceKeepsProfile ==
  (rollback = None /\ IdentifiedRemote /\ activeProfiles' # activeProfiles)
  => (stack # <<>> /\ stack' = Front(stack))

(* Whenever connections end, by a teardown line, by output of an outer device *)
(* or by a rollback, the profiles restored are those that were active when    *)
(* the outermost of them was opened, and the frames around it are untouched.  *)
UnwindingRestoresOpener ==
  Len(stack') < Len(stack) =>
    \/ /\ stack' = SubSeq(stack, 1, Len(stack'))
       /\ activeProfiles' = stack[Len(stack') + 1].profiles
    \/ stack' = <<>> /\ activeProfiles' = baselineProfiles

(* Profiles follow the connections: they stay while an identified device's   *)
(* lasts, and go back to its opener's when it ends, however it ends.         *)
ProfilesFollowConnections ==
  [][ IdentifiedDeviceKeepsProfile /\ UnwindingRestoresOpener ]_runtimeVars

(* frames has, as new, one frame more, on top and of the attempt. *)
OpensFor(attempt, frames, new) ==
  /\ Len(new) = IF Len(frames) < StackLimit THEN Len(frames) + 1 ELSE StackLimit
  /\ Last(new).closePolicy = attempt.policy /\ Last(new).target = attempt.target

ShowsActive(w) == Detected(w) # {} /\ Detected(w) = activeProfiles

(* A typed command whose connection comes up opens exactly one frame, and is *)
(* used up by it: a read that ends nothing opens the frame, or shows neither *)
(* another device nor the active set and leaves all as it is; and a refused  *)
(* set leaves the frame of its connection (profile_runtime.rs:411, 511).     *)
OneFramePerCommand ==
  /\ Len(stack') > Len(stack) => pendingRemote' = None
  /\ (rollback = None /\ pendingRemote # None) =>
       \/ pendingRemote' = None /\ OpensFor(pendingRemote, stack, stack')
       \/ \A r \in Reads :
            \/ /\ pendingRemote' = pendingRemote /\ stack' = stack
               /\ activeProfiles' = activeProfiles /\ ~ ShowsActive(WindowWith(r))
            \/ ~ Quiet(WindowWith(r))
            \/ ~ ObserveOutput(r)
  /\ (rollback # None /\ rollback.pending # None /\ activeProfiles' # activeProfiles) =>
       OpensFor(rollback.pending, rollback.stack, stack')

(* A command in flight waits for its connection through LineGrace lines: no  *)
(* password and no code typed before then gives it up, whatever was typed or *)
(* armed before it (profile_runtime.rs:582).                                 *)
AttemptHasItsGrace ==
  [][ (pendingRemote # None /\ pendingRemote' = None /\ linesTyped' # linesTyped)
      => linesTyped' > LineGrace ]_runtimeVars

(* A connection is named by a close line when both give the same host. *)
IsNamedBy(policy, target, m) ==
  Accepts(policy, m.kind) /\ m.target # None /\ target = m.target

NamesPending(m) ==
  pendingRemote # None /\ IsNamedBy(pendingRemote.policy, pendingRemote.target, m)

NamesTop(m) == stack # <<>> /\ IsNamedBy(Last(stack).closePolicy, Last(stack).target, m)

(* It is of another connection than the top one. *)
NamesUnderTop(m) ==
  /\ m.target # None /\ stack # <<>> /\ Last(stack).target \notin {None, m.target}
  /\ \E i \in DOMAIN stack : stack[i].target = m.target

(* A teardown line ends the connection it names: the attempt in flight, else *)
(* the top connection; one that names a connection under the top one closes  *)
(* none (profile_runtime.rs:317).                                            *)
CloseEndsWhatItNames ==
  (rollback = None /\ (pendingRemote # None \/ stack # <<>>)) =>
    \A r \in Reads : \A m \in CloseMarkers(WindowWith(r)) :
      \/ /\ NamesPending(m) => stack' = stack /\ pendingRemote' = None
         /\ (NamesTop(m) /\ ~ NamesPending(m)) => stack' = Front(stack)
         /\ NamesUnderTop(m) => stack' = stack \/ Detected(WindowWith(r)) # {}
      \/ CloseMarkers(WindowWith(r)) # {m}
      \/ ~ ObserveOutput(r)

(* Frames follow the connections: each typed command that comes up has one   *)
(* frame, though its set was active already or is refused, and a close line  *)
(* ends the connection it names (profile_runtime.rs:317, 411, 511).          *)
FramesFollowConnections == [][ OneFramePerCommand /\ CloseEndsWhatItNames ]_runtimeVars

(* What a test's comment says of the limit (profile_runtime.rs:2629): the    *)
(* OLDEST frame of a full stack is evicted when a command opens another.     *)
(* The code keeps the first frame and removes the second one.                *)
OverflowEvictsOldest ==
  [][ (/\ Len(stack) = StackLimit /\ Len(stack') = StackLimit /\ stack' # stack
       /\ pendingRemote # None /\ pendingRemote' = None)
      => Front(stack') = Tail(stack) ]_runtimeVars
=============================================================================
