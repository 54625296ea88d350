# A TLA+ verification of prismtty

prismtty wraps a command in a PTY and colours its output by the rules of the
device it talks to. What is hard to get right is the control around the colours:
which device the output belongs to after a series of nested connections, what
happens when rules stop compiling or are reloaded under a running session, how
reads cut anywhere are drawn without losing a byte or letting a highlight leak,
and how signals, raw mode, a child process and three threads end together. These
modules model that control.

Paths below are those of the repository as checked out in `src/`; the program is
in `src/src/`. `PROJECT.json` maps each definition to the lines it models, and
lists the hazards of the code at their lines with the properties that cover them.

## The system

| Component | Code | State it keeps | Operations | Modelled by |
|---|---|---|---|---|
| Dynamic profile runtime | `profile_runtime.rs` | active and baseline sets, the stack of connections, the typed command in flight, an output window, the undecided proposal | `observe_input`, `observe_output`, accept/reject, reload | `ProfileRuntime`, `RemoteCommand` |
| Highlight session | `cli/stream.rs` | current set, its highlighter, store, cache, refused sets; the read in progress | switch, reload, push, flush, detect | `ProfileSession`, `StreamLoop` |
| Streaming highlighter | `highlight.rs` | held-back bytes, open colour, saved renditions, screen, prompt, disabled rules | push, flush, finish, replace rules | `StreamingHighlighter`, `PromptEcho`, `Rendition`, `EscapeFilter` |
| PTY session | `cli/pty.rs` | child, raw-mode lifecycle, self-pipes, forwarded input | spawn, forward, resize, suspend/resume, terminate, reap | `CommandSpawn`, `ChildLifecycle`, `TerminalSession`, `SignalPipe`, `ResizeWatcher`, `StreamLoop` |
| Registration and reload | `cli/runtime.rs` | pid files, the marker, the time a watcher saw | register, prune, request, watch | `ReloadRequests` |
| Profile store | `profiles.rs`, `config.rs` | profiles, hints, inheritance | insert within budgets, match hints, resolve | `ProfileLoading`, `ProfileResolution`, `HintMatcher` |
| Selection and configuration | `cli/profile_selection.rs`, `config.rs` | none that outlives a call | read files, check limits, choose profiles | `ProfileLoading`, `ProfileStore`, `YamlLimits` |
| Arguments, tracing, styles | `cli/args.rs`, `cli/trace.rs`, `style.rs`, `cli.rs` | none | parsing, dispatch, formatting | not modelled |

How they interact. The wrapper spawns the command and starts three threads: one
forwards what is typed, one acts on signals (raw mode, suspension, termination of
the child), one on resizes; the main thread runs the read loop. For each read the
loop carries cut controls over, drains the typed input, shows the output to the
runtime, and gets back at most one proposal: a new profile set. The session builds
(or finds, or refuses to build) its highlighter and tells the runtime to roll the
proposal back when that fails; then the output is filtered, matched and written. A
reload rebuilds every set the runtime could go back to. Other processes touch the
reload marker and the pid files.

What is hard: output cut anywhere; teardown lines that name the wrong host, or
none; commands typed and never answered; sets that stop compiling in mid-session;
a bounded stack, cache, channel and carry; controls that save and restore a
rendition while a highlight is open; files edited while they are read; and, between
threads and processes, signals during startup and shutdown, reaping against
signalling, raw mode against job control, and reload requests against startup.

## The modules

What iterates is a fold or a recursive function (`InTurn` of `Rendition` is the one
loop of the highlighter), except in `EscapeFilter`, whose RECURSIVE operators follow
the loops of `highlight.rs`; there are no proofs about it.

| Module | What it models | Composition |
|---|---|---|
| `ProfileRuntime` | the runtime and the store's answers it asks for | |
| `ProfileSession` | the session around the runtime | EXTENDS `ProfileRuntime`; each handler with the session's reaction |
| `RemoteCommand` | words, quoting, options and target of a typed command line | what a command of `ProfileRuntime` abstracts |
| `ReloadRequests` | sessions and `prismtty --reload` as concurrent processes | |
| `SignalPipe` | a self-pipe between signal handlers and a thread | |
| `ResizeWatcher` | the thread that resizes the PTY | EXTENDS `SignalPipe` |
| `TerminalSession` | raw mode under job control | |
| `ChildLifecycle` | the child and the three threads that signal and reap it | |
| `CommandSpawn` | finding, checking and executing the program | comes before `ChildLifecycle`; both in `WrappedCommand` |
| `StreamLoop` | the read loop, the forwarding worker, the channel between them | implements `ByteRelay` |
| `ByteRelay` | what a user is promised of the output | abstract specification |
| `EscapeFilter` | controls cut, carried, discarded or made inert | before the highlighter |
| `Rendition` | how highlights are written around the program's colours | |
| `PromptEcho` | recognising prompts and typed echo | EXTENDS `Rendition` |
| `StreamingHighlighter` | the highlighter of a stream | EXTENDS `PromptEcho` |
| `ProfileLoading` | reading, bounding and inserting the user's files | |
| `ProfileResolution` | inheritance on an explicit stack, with its rollback | |
| `HintMatcher` | the automaton over all detection hints | |
| `ProfileStore` | from the files to the rules of a session | EXTENDS the three above |
| `YamlLimits` | the walk that bounds a document before it is parsed | |
| `ProfileSessionProofs` | theorems about the runtime and about the session; that the session implements the runtime | EXTENDS `ProfileSession` |
| `StreamLoopProofs` | theorems about the read loop; that it implements `ByteRelay` | EXTENDS `StreamLoop` |
| `Sums` | sums of lists of numbers, as a function that can be reasoned about | used by `ProfileLoading`, `YamlLimits` |
| `HighlighterProofs` | theorems about the highlighter of a stream | EXTENDS `StreamingHighlighter` |
| `ProfileStoreProofs` | theorems about inheritance, loading, hint matching and the walk over a document | EXTENDS `ProfileStore`, `YamlLimits` |
| `ChildLifecycleProofs`, `TerminalSessionProofs`, `ReloadRequestsProofs`, `ResizeWatcherProofs` | theorems about the module each is named after | |
| `MC...` | the instances TLC checks | |

### ProfileRuntime, ProfileSession, RemoteCommand

A profile list of the code starts with `generic` and is sorted by priority; the set
of its specific profiles stands for it. A line of output is a record of what the
matchers say of it: which profiles have a strong signal on it, which startup
detection finds, whose prompt it is, which teardown it is, which failed open it
reports. A read is the set of complete lines it brings, the unterminated line after
it, and whether 4096 bytes have passed. `ObserveOutput` is one call of
`observe_output`: exactly one of the outcomes of `observe_output_inner`, in the
code's order. `Propose` sets `rollback`, the snapshot the code keeps exactly when it
returns a proposal, and no call happens until `AcceptTransition` or
`RejectTransition` decides it. The variables are the fields of the same names;
`promptProfile`/`promptHits` are `pending_prompt_profiles` and
`pending_prompt_hits`, `window` is `output_window`, `typedLine` is `input_line`.
`linesTyped` is history: the lines submitted since the command in flight was, which
`pendingLines` must agree with.

In the session a store is the profiles it knows and those whose rules compile; a
set builds when all of its profiles do. A highlighter is the set it was built for
and the generation it was built in; `cache` and `recency` are the two structures of
`HighlighterCache`, `rejectedSets` the bounded list of refused sets.
`SwitchToCached`, `SwitchToBuilt` and `RejectSwitch` are the outcomes of
`apply_automatic_profile_switch`. A `Reload` that fails changes nothing.

`RemoteCommand` is what turns a typed line into the command the runtime is armed
with. Characters stand for classes (a flag that takes a value, one that opens no
session, one that forces a terminal). A line is typed word by word in every way of
quoting it, so the model knows the words a shell would make; `Roles` says how the
client's own option parser reads them.

### ReloadRequests

Sessions and requests share `pidFiles` (the directory `pids.d`), `marker` (the
modification time of the file `reload`) and the configuration. A session loads its
configuration, registers (its file, then a prune), takes the marker's time as
seen, and reloads when it differs: one action each. A request opens and writes the
marker (each sets its time), lists `pids.d` and prunes it, file by file, while
processes start, end, are killed and have their pids reused by strangers. The
history variables record when a request was made, for what, and who was watching.

### SignalPipe, ResizeWatcher

`notify` is split where another thread or handler can come between: announce,
load the descriptor, write, leave. `disarm` withdraws the descriptor, waits for the
calls in flight up to a deadline and says whether the end may be closed; a number
that was closed may denote any other file. The resize thread reads the size and
applies it in two steps, and drains the pipe by reads of bounded length.

### TerminalSession

The terminal has one mode and one foreground job. The two threads ask whose
terminal it is and write its mode in two steps under the lifecycle's mutex, and a
SIGSTOP may fall between. Signals are pending, then in a handler, then a byte in the
pipe, so a stop request may be old when it is served: the age of a byte is history.
The snapshot of the mode is taken before anything is known about the terminal.

### ChildLifecycle, CommandSpawn

The child's number outlives the child: once it was reaped and its group is empty a
stranger may have it. `registered` is `FORWARD_CHILD_PID`, `lock` is
`FORWARD_CHILD_LOCK`; each thread's position says where it is between taking the
lock, looking, signalling, waiting and reaping. The cleanup with its grace and
deadlines is one operator used by both threads that run it; a wait with a deadline
may end before what it waits for.

`CommandSpawn` follows a command from its name over the candidates in `PATH`, the
check of the `#!` line (for the five ways kernels read it) and the executed file
to the code it is reported with. The files may change once between two steps.
`SpawnInv` says which files of the two each step went by. `WrappedCommand` puts the
two together.

### StreamLoop, ByteRelay

Output is a sequence of numbered items of six classes (a `p` is a prompt's sign with
the blanks after it, which makes startup detection look again); the screen is the numbers
drawn. The loop's position says which step of an iteration is next: wait, prepare,
drain the channel, push, write, flush. What is held back is in four places (carry,
chunk, pending, out buffer), and `Relay` maps their concatenation to the flight of
`ByteRelay`.

### EscapeFilter, Rendition, PromptEcho, StreamingHighlighter

`EscapeFilter` works on classes of bytes. Two terminals, one that honours raw C1
controls and one that does not, say what each byte was; a byte carries what the
command meant by it, so a payload shown as text is noticed wherever it comes from.

`Rendition` gives each attribute a value: off, the program's, a highlight's.
`StreamingHighlighter` keeps the terminal and a second one that is shown no
highlights: what the two may differ in is the open highlight. `Faults` compares
them after every step. Lines are remembered by what prompt recognition needs.

### ProfileLoading, ProfileResolution, HintMatcher, ProfileStore, YamlLimits

A file is its size and its document. Listing, opening, reading, parsing and
inserting are steps, and an edit (a replacement at once) may fall between them, as
between finding an overlay (`LookForOverlay`) and opening it;
`shown` records what each path held meanwhile. The paths found are sorted by the
program; the model reads, of those not read yet (`Unread`), the first. The resolver's stack holds the
profiles being resolved with the next parent to visit, as in `profiles.rs:893-962`;
`before` is its rollback point. `HintMatcher` builds the automaton and its failure
links and follows them symbol by symbol. `YamlLimits` walks a document's events; its
history variables are what a reader that copies every alias has by then.

## The runs

All are exhaustive. In some of them several families of behaviours begin apart from
one another (a session, or a command line to be read): each behaviour is of one
family and the other components are at rest.

| Run | Bounds | What it shows |
|---|---|---|
| `runtime` | 3 profiles (a local shell, a vendor, a vendor trusted by prompt alone), 2 hosts, 7 reads, 3 frames, grace 1 | `RuntimeInv`, `FramesAndLinesSettled`, `ProfilesFollowConnections`, `AttemptHasItsGrace` |
| `session` | 3 profiles, 2 hosts, 3 stores, 2 frames, cache and refusal list of 2, one reload; command lines of 5 characters or of 4 words | `SessionInv`, `NoStaleHighlighter`, `GoingBackIsNeverRejected`, `FramesFollowConnections`; `LinesAreRead` |
| `reload` | 2 sessions, 2 requests, 2 edits, the first of which does not load | `ReloadInv`, `WatchersServeRequests`, `RequestsAreServed` |
| `resize` | 2 handlers, 1 caller, a pipe of 2 bytes, 2 sizes, 2 changes | `ResizeInv`, `NoForeignWrite`, `StopReturns`, `SizeReachesPty` |
| `terminal` | a queue of 2 bytes; a signal is sent while at most one other is under way | `TerminalInv`, `TouchedInTurn`, `NoReplayedStop`, `RawInForeground` |
| `child` | one child, one stranger; every program name, directory, `PATH` and `#!` line of 4 characters | `ChildInv`, `StrangerNotStruck`, `TerminationIsBounded`, `InputFailureEndsSession`; `SpawnsAsAShell` |
| `stream` | 2 keys, 3 items of output, a channel of 2, four ways it is started | `StreamInv`, `CommandBeforeOutput`, `DrawnInOrder`, `TailIsDrawn` |
| `escape` | any sequence of reads of 16 kinds, a carry of 3 bytes (2 for controls that are no strings), four modes | `FilterInv`, `TextIsKept`, `ControlsAreNotShown` |
| `highlighter` | three commands (controls and colours, prompts, failing rules), 3 rules, 3 attributes, a token of 1 | `HighlighterInv`, `DrawnAsMeant`, `TypedIsPlain` |
| `store` | 3 profile files, 1 overlay, 7 contents, 1 edit; any inheritance of 3 profiles; any 2 of 8 hints in any line of 4; any 5 events | `StoreInv`, `ResolverInv`, `SelectionIsResolved`, `HintsAreFound`, `BoundsTheDocument` |
| `overflow` | as `runtime`, grace 0 | a violation: the first finding below |
| `reload_startup` | 2 sessions, 1 request | a violation: the second finding below |

Deadlock is checked in `runtime`, `session` and `overflow`, whose runtime always has
a next read or key (a command line that was typed rests). The others end: a session,
a command, a document, a resolution or a walk is over, output stops at its bound,
and `CHECK_DEADLOCK FALSE` says so.

`runtime` begins with no profile, so that the
baseline has to be learned, or at a local one; `session` at a local one. The view of
`runtime` leaves out the count of typed lines while no command is in flight: every
command sets it to zero before it is read.

Why the bounds are enough. Every comparison of the runtime is between two profile
sets, two host names, the top frame and its neighbour, or a counter and its limit:
three profiles give an active set, the set gone back to and a third, two hosts a
right and a wrong name, three frames a first, an interior and a top one. One reload
separates old from new generations. In the reload run two sessions and two requests
at once are too many, so it begins either with one session watching and one dead, or
after an edit that does not load and a request that found nobody, with one session
about to register. Two handlers overlap each other and the owner; a pipe of two
bytes is full while a stop is written. A token limit of one, a carry of three bytes
and a `#!` buffer of three are each overrun by what the inputs can bring. With three
profiles an inheritance has diamonds, cycles and missing parents at once. The bounds
that are not the program's own are `MaxReloads`, `MaxEdits`, `MaxResizes`,
`SignalLimit`, `QueueLimit`, `MaxKeys`, `MaxOutput`, `MaxEvents`, `MaxTyped`,
`MaxWords` and, scaled down, the buffers and budgets named above. `SignalLimit` keeps
a stop request from being sent while a SIGCONT is pending.

Fairness. The modules of the runtime, the session, the highlighter, the filter and
the store assume none: they react. `ReloadRequests`: weak fairness of one
disjunction per session (`SeeRequest` or the steps of the reload it began), since the
read loop checks the marker after every read; it says that output keeps arriving.
`ResizeWatcher`: a handler that runs goes on, a pending SIGWINCH is delivered, and
the threads run. `ChildLifecycle`: a child dies of a signal it does not refuse, what
sleeps uninterruptibly because nobody reads its output wakes while the loop reads,
and each thread runs while the process does; nothing says that a child ends of itself
or that a stopped process is continued. `TerminalSession`: the shell that gives the
terminal back continues the job, signals are delivered, threads run while the
wrapper is not stopped. `StreamLoop`: the loop alone; nothing says that the command
writes or the user types.

### Properties

* `RuntimeInv`: a local session can always be closed back to its baseline
  (`BottomFrameIsBaseline`), whatever was nested, rejected, collapsed or unwound, the
  state a rejection would restore included; an unanswered command is forgotten; a
  rejection closes at most the frame its proposal opened (`RejectionClosesOwnFrame`).
* `FramesAndLinesSettled`: a frame kept for a set that did not build changes nothing
  when it closes, now or after a rollback, and no teardown line pops two connections.
  The first frame is exempt: the collapse at the limit removes its neighbour.
* `ProfilesFollowConnections`: an identified device keeps its profile until its
  connection ends (`IdentifiedDeviceKeepsProfile`, `src/README.md:178`), and the end of
  connections restores what was active where the outermost was opened
  (`UnwindingRestoresOpener`).
* `FramesFollowConnections`: with a command in flight, a read that ends nothing opens its
  one frame or shows neither another device nor the active set again, and a refused set
  leaves the frame of the connection, which exists all the same (`OneFramePerCommand`). A
  close line that names the attempt ends the attempt and no frame, one that names the top
  connection pops it and one that names another below it pops nothing
  (`CloseEndsWhatItNames`, for windows with one close line in them).
* `AttemptHasItsGrace`: no line typed within the grace gives a command up, whatever was
  armed before it; `RuntimeInv` says that none outlives it.
* `SessionInv`: the session highlights with what the runtime tracks, everything it
  may go back to can be built, what is cached builds, what is refused does not, and the
  order of use lists the cache. With `NoStaleHighlighter` and `GoingBackIsNeverRejected` across reloads.
* `LinesAreRead`: the target noted for a line is the host the client connects to.
* `WatchersServeRequests`, `RequestsAreServed`: no request a watching session owes is
  lost, and it is served while output arrives. `ReloadInv`: prunes spare the files of
  live sessions and counts are complete.
* `NoForeignWrite`: no byte is written into a number that was closed. `StopReturns`,
  `SizeReachesPty`: the stop ends but for one corner (a handler stalled past the limit
  together with a full pipe); the last size reaches the PTY.
* `TerminalInv`: the wrapper leaves the terminal in the user's mode, never raw.
  `TouchedInTurn`, `NoReplayedStop`, `RawInForeground`: it writes only a terminal it
  owns, a served stop is not repeated, and raw mode comes back.
* `ChildInv`: nobody is left running, and a hang-up is reported as the failure it
  was. `StrangerNotStruck`: only the path described below signals a reaped number.
  `TerminationIsBounded`, `InputFailureEndsSession`.
* `SpawnsAsAShell`: the program that runs, or the code of the failure, is what a shell
  in the child's directory would give.
* `DrawnInOrder` (the refinement of `ByteRelay`), `TailIsDrawn`,
  `CommandBeforeOutput`, `StreamInv` (with `DeviceIsDetected`): no byte is lost,
  repeated or kept; a command is recorded before its output is examined.
* `FilterInv`, `TextIsKept`, `ControlsAreNotShown`: what is drawn is whole controls, no
  text is lost, no payload shows; `--sanitize` opens no string.
* `HighlighterInv`, `DrawnAsMeant`, `TypedIsPlain`: every byte shows in the program's
  rendition under its own highlight alone, nothing spreads, what is typed is plain, a
  rule that failed stays off until the configuration is loaded again.
* `StoreInv`, `ResolverInv`, `SelectionIsResolved`, `HintsAreFound`,
  `BoundsTheDocument`: what the store is made of, and what a selection makes of it,
  said without the algorithm that computes it.

### Findings

`OverflowEvictsOldest` states what the test at `src/src/profile_runtime.rs:2629`
says of a full stack: the oldest frame goes. `push_frame` removes the second one
(line 739) and keeps the oldest, which is what keeps `BottomFrameIsBaseline` true;
the test's assertions agree with the code, its comment and `src/CHANGELOG.md:483`
do not.

`CountedSessionsReload` states what `src/README.md:290` and the message
"Processes reloaded" say: a session that was counted runs the configuration of the
request once it has nothing left to see. A session loads its configuration before
it registers and takes the marker's time after it; a request in between counts the
session, and the watcher starts from the time of that request. Sessions that were
already watching are not affected, which is what `WatchersServeRequests` says.

Smaller things met while modelling; each is an exemption of a property or outside
the model, and none has a run of its own:

* `cli/pty.rs:381-384`: the failure path of the main thread does not look whether the
  signal watcher has already reaped the child, though the comment above gives the
  rule. `StrangerNotStruck` exempts it, while the process is leaving.
* `cli/pty.rs:1550`: a mode read while another job owned the terminal is not marked
  stale when the terminal changes hands before the question (`misread`).
* A string begun right after a long cancelled control can be cut short by
  `prepare_chunk`, which drops a carry over the limit while the filter still tracks
  the string (`highlight.rs:188` says otherwise); and `neutralize_restart_chain` makes
  a string's introducer inert when an oversized control ends it. Both show payload as
  text: `capped` exempts them.
* `highlight.rs:1375-1376` says of a read that switches screens that its bytes "go
  unobserved, which at most skips a flush". A program that leaves the alternate screen
  and writes its prompt in the same read also has its prompt missed, and what is typed
  after it is matched and highlighted; with the two in separate reads it is not (TLC
  shows both). The `highlighter` run has no read with both.
* RIS on the alternate screen resets the rendition's idea of the screen and not the
  highlighter's own.
* An echoed character that arrives with the end of a prompt begun in an earlier read
  is held back and drawn highlighted; `TypedIsPlain` is for prompts that were whole.
* `Profile.inherits` is documented as "loaded before this profile", while
  `append_profile_rules` appends a profile's own rules first. A user profile that
  shadows another user's is reported as overriding a built-in one, and one that
  shadows a bundled profile loses its runtime metadata.
* With an unknown working directory the interactive path judges a relative candidate
  against a directory it cannot search, and the `#!` check may refuse a later script
  of `PATH`; `SpawnsAsAShell` leaves relative names out there. A missing loader and a
  `#!` name the kernel cuts off abort the child from a terminal.
* `ssh -- host -t cmd`: the code treats the options as ended after the host, OpenSSH
  parses them again (`EndsBeforeHost`); a backslash in double quotes is always dropped
  by `split_shell_words`; a lone `-` is taken for an option.

## What is proved

For all values of the constants that satisfy the named assumptions; TLC evaluates
each assumption in a run. Every inductive invariant below is also an invariant of a
run.

| Component | Theorems | Of the runs' properties |
|---|---|---|
| Runtime | `InvariantHolds`, `TypeCorrect`, `WayBackToBaseline`, `AttemptsExpire`, `FramesStaySettled`, `FramesFollow`, `AttemptsHaveTheirGrace`, `ProfilesFollow` | all of `runtime`; `FramesFollowConnections` |
| Session | `SessionIsRuntime`, `SessionSafety`, `NothingStale`, `NeverRejected` | the others but `LinesAreRead` |
| Read loop | `LoopSafety`, `CommandsComeFirst`, `LoopRelays` | all but `TailIsDrawn` |
| Child | `ChildSafety`, `StrangersAreSpared` | the two safety properties |
| Spawn | `RunsAsFromAShell` | `SpawnsAsAShell` |
| Raw mode | `TerminalSafety`, `TouchesOnlyInTurn`, `NoStopIsReplayed` | all but `RawInForeground` |
| Reload | `ReloadInvariant`, `RequestsAreNotLost`, `PrunesSpareTheLiving`, `CountIsComplete` | all but `RequestsAreServed` |
| Resize | `PipeSafety`, `WatcherIsPipe`, `WritesReachThePipe`, `ResizeSafety` | `ResizeInv`, `NoForeignWrite` |
| Highlighter | `HighlighterSafety`, `DrawnRight` | all but `TypedIsPlain` |
| Inheritance | `ResolverSafety`, `ResolutionIsWhole` | `ResolverInv` |
| Loading | `StoreSafety` | `StoreInv` |
| Hint matching | `MatcherIsRight`, `HintsAreWhole` | `HintsAreFound` |
| Document walk | `WalkBounds` | `BoundsTheDocument` |

**Runtime**, under `RuntimeAssumptions` (distinct priorities, a stack limit of at least
two, well-typed inputs, `None` distinct from all data). `BottomFrameIsBaseline` is not
inductive: `RejectTransition` restores the snapshot in `rollback` and may put a frame
on it, so the snapshot has to obey the same property; `RuntimeInv` adds that. The
lemmas go bottom-up: slices and removals of sequences; what each stack operation does
to the first frame; one common effect of all outcomes of `ObserveOutput`
(`OutputEffect`), so that the invariant is argued once; then the keys. The key step is
that a switch without a command away from a local baseline opens a frame, so the stack
is never empty inside a remote device. The action properties rest on a second summary,
of what an examination does to the stack (`StackEffect`). `UnresolvedFrameIsNoOp` needs
the same of the snapshot (`RollbackSettled`), and `UnwindingRestoresOpener` needs
`RejectionClosesOwnFrame`: a rejection may close a frame, and it must be the one its
proposal opened around the local shell. `OneFramePerCommand` needs that the baseline is
locked while a command is in flight (`CommandLocksBaseline`): learning it would switch
profiles and leave the command armed. `AttemptHasItsGrace` needs that `pendingLines`
counts the lines since this command (`AttemptExpires`), no earlier one's.

**Session**, under `SessionAssumptions` beside those. `SessionIsRuntime` is a
refinement without a mapping: the session takes the runtime's steps on the runtime's
variables, so all that was proved of the runtime is used here. That every set a close
goes back to can be built is not inductive: while a proposal is undecided the stack is
already the new one, and the session's set still the old one. `ProposalKeepsToRetained`
bounds the new stack by the old one and the set in use, so that accepting it adds only
the set just built; `CachedSetsBuild` says that a cached highlighter counts as built.
The cache is argued as a list without repeats (`Lists`): touching, evicting, prebuilding
and keeping the newest each give such a list again. `DistinctOf` is a recursive
function instead of a fold for the sake of that proof.

**Read loop**, under `LoopAssumption` and `NoneAssumption`. `LoopRelays` is the refinement of `ByteRelay`:
every step of the loop and of the forwarder relays, takes in, drops or stutters on the
concatenation of the four places where output is held. It needs that a
chunk is empty whenever the next read overwrites it, and the pty when the loop ends
(`InHand`). That no piece ends inside an escape sequence (`EscapesAreWhole`) rests on
sequences arriving whole but for the last, a cut-off one being carried to the next read.
`DeviceIsDetected` speaks of the end of a
stream and is carried there by `DeviceIsAhead`: a named device is in the sample or
still in front of it. `CommandBeforeOutput` follows from the numbering of keys
(`KeysInOrder`): what the command put out was caused by a key that is not behind the
one being forwarded.

**Child**, under `NoneAssumption`. `NobodyLeftRunning` needs to know who has the child at each moment: as long
as it exists it is registered or a thread is past the point of taking over
(`Custody`), the lock is held where the positions say so (`Places`), and a cleanup's
position bounds what is left of the group (`CleanupProgress`). `StrangersAreSpared` then
says at which positions a signal can meet a number that was reaped.

**Spawn**, for every name, `PATH`, `#!` line and set of interpreters, under
`SpawnConstants` (a buffer of at least one byte, the long one at least as long).
`KernelAgrees`: a name the check finds in its buffer is the name every supported kernel
finds in its own, because what would cut it off is not taken for a name
(`LongerBuffer`: the first end, the first ink and the first break stay where they are).
When one file changes, `StillFound` and `ExecDepends` compare the two worlds: where the
program found executes only now, it alone has changed and is still the first that can;
where it fails only now, it has changed or all interpreters are gone.

**Raw mode**, for every length of the self-pipe, under `SessionAssumption` and
`NoneAssumption`. `CookedWhenLeft` needs that the answer
of an operation under way still holds when it writes (`AnswerHolds`), that the saved
mode is never raw (`SavedForTheUser`), and where the lifecycle is while the threads
move (`LifeOfThreads`). `NoReplayedStop` needs `QueuedAtResume`: a stop request that was
queued at a resume is in the queue until the drain only, and a drain keeps the rest in
order (`KeptOf`, proved for queues of any length).

**Reload**, for any number of sessions and requests, under `ReloadAssumptions`.
`WatchersServeRequests` speaks of sessions at rest; `ServedUpToSeen` follows one through
a reload: a session that has seen a request's time and is about to commit holds a
configuration at least that new, because it read it after the marker. Files and
listings belong to sessions that have registered, the file about to be removed to a
dead one, and dead is final.

**Resize**, for any number of handlers, callers and bytes, under
`SignalPipeAssumptions` and `ResizeAssumptions`. `WatcherIsPipe`: every step of the
resize watcher is a step of the pipe or leaves it alone. `NoForeignWrite` alone is not
inductive: it needs that `in_flight` counts the calls (a bijection argument over finite
sets, one lemma for a call that begins, one for one that leaves), that the descriptor
is armed only while it is the pipe, and that a wait that ended well left nobody with it
loaded.

**Highlighter**, for any sets of reads, any rules, any attributes and any limit on the
token held back, under `HighlighterAssumption` (reads are sequences of what a command
may write, rules are rules). The inductive invariant is `Standing`: `HighlighterInv`
and `DrawnAsMeant`, with the inputs in their sets. Three facts had to be stated more
strongly for it to be inductive: that the highlighter knows of the alternate screen
whenever the terminal is on it (`RenditionTracked`; it may believe so longer), that
only an interactive session off that screen remembers an edit (`EditIsOfThisLine`),
and that what failed is disabled (`RuleFailsOnce`). The steps of the specification are
whole calls, so the argument goes item by item inside one. `Tracks` relates the two
terminals: they differ by the open highlight alone, and nothing has gone wrong yet.
For each way of writing an item (a control, a byte between highlights, a byte under an
overlay that is left open) a lemma shows that what is written keeps `Tracks`: the
highlight is ended before a save or a fill, and what ends it writes the program's own
value of each attribute it had set. `Fits` adds that what was written has the classes
of what was read, in order, so that `DrawnAsMeant`'s loss of text is excluded by the
same induction. `Draws` lifts it from a writer to the highlighter, and each operator
(`Tokens`, `Segment`, `Highlighted`, `Echo`, `PushPiece`, `PushCombined`) leads from
`Draws` to `Draws`. Two of its steps are not about drawing: that the lines of a chunk
put together are the chunk (`Pieces`), and that taking the colour out of an echo takes
out SGRs and nothing else (`WithoutEchoColour`). `Good` is what a call may begin with
and ends in; `Push`, `Flush`, `Close`, `Replace`, `Generation` and `Finish` each have a
lemma that it is kept (`PushKeeps` and so on).

**Inheritance**, for any profiles and any inheritance, cyclic or with missing parents,
and any sequence of calls. That each rule appears once needs the stack's profiles to be
disjoint from the loaded ones; that a rollback is exact needs the rules before a call
to be the profiles loaded before it; and that what is loaded is closed under
inheritance needs the stack to be a path (each profile waits for the one above it and
has been through the parents before).

**Loading**, for any files, contents and budgets and any number of edits, under
`LoadingAssumptions` (numbers are naturals, metadata are lists of entries, a directory
holds each path once, built-in profiles are marked so) and `BundledAssumption` (the
built-in profiles are within the store's budgets; the nine of `profiles.rs:39-53` are far
within). `StoreIsWhatWasRead` speaks of the end of a load; `LoadsInOrder` carries it
there (the run checks it until profiles are chosen: behaviours that begin with a
choice have loaded nothing): what a path holds is among what it has shown, a file that was there throughout
is found, what was read comes in order and before what was not, and of the files found
those already inserted have their profile in the store or were replaced by a later
file's, and come before those still to insert. So a user's profile is only ever
replaced by that of a later file. That no more files are read than
`MaxFiles` is an injection of what was read into the paths found. `NormalizedStays`
rests on `NormalizeAgain`: what `Normalizing` leaves (texts that are not blank, each
once, within the budget one by one and together) it leaves as it is.

**Hint matching**, for every store, text and reading of bytes, under `HintAssumptions` and
`TextAssumption` (the boundary is no byte; hints and output are sequences of bytes).
`MatcherIsRight` is the correctness of an
Aho-Corasick automaton: the node after a prefix is the longest end of what was read that
begins a pattern, its link the longest shorter such end, and following links from the
last node arrives at the longest end the next byte continues. So what is reported is
exactly the patterns what was read ends in, and a scan that stops early has nothing
left to find. `HintsAreWhole` adds that a hint between boundary symbols stands in the
text's symbols exactly where it is a whole word. That a hint is one word or a phrase of words
(`AreHints`) comes from `LoadInv`: hints are bundled or went through `Normalize`.

**Document walk**, for any events in any order libyaml may report them, under
`YamlAssumptions`. Counters alone are not inductive: a collection's size is the
difference of two readings of `expanded`, so the invariant keeps, for each open
collection, what the reader had at its start (`KnowsItsStart`), and for each complete
node with a name that its slot holds its expanded size. The sum of a concatenation is
the sum of the sums (`SumOfConcat`), and a copy of nodes is as large as they are and all
copied.

These use functions defined by recursion on the naturals (`Sums`, `Normalizing`, the
automaton's scan, the symbols of a text). That such a function exists and is what its
definition says (`SumsDefined`, `NormalizingDefined`, `ScanningDefined`,
`SymbolsDefined`, and `FoldIs` for the loops of the highlighter) is shown from well-founded minima, since the
library's induction theorems cannot be instantiated: the least n without such a
function up to n would have one. Inductions along such a function go by `StepByStep`.

Only model-checked:

* liveness (`RequestsAreServed`, `StopReturns`, `SizeReachesPty`, `RawInForeground`,
  `TerminationIsBounded`, `InputFailureEndsSession`, `TailIsDrawn`), which is out of the
  prover's reach;
* `SelectionIsResolved` and `LinesAreRead`, which compare what a fold computes with
  another definition of it, over a resolver that has to end and over every way of
  quoting a word;
* `FilterInv`, `TextIsKept` and `ControlsAreNotShown`: the filter's operators are
  RECURSIVE, which the prover does not read;
* `TypedIsPlain`, which is not true of all reads. A prompt is missed that
  shares a read with a screen switch (see the findings), after a RIS on the alternate screen, and, once bracketed paste has ended, on a
  line begun by the carriage return of a read that only moved the cursor, if the line
  before it had a backspace (TLC shows both when given such reads). It holds of the commands the run checks; a proof needs these
  named in the property first.

## Plan

1. Proofs: `TypedIsPlain` with its exceptions; the filter, once its RECURSIVE operators are recursive
   functions (the way of the highlighter carries over); that a selection is the
   families it names, for a resolver that ends (`SelectionIsResolved`).
2. Model: tracking of the PTY's ECHO (`LocalEchoState`), the exit codes of a wait
   status, the recognisers of bundled prompts.

## Not modelled

Regular expressions, colours, styles, capture names and the parameters of an SGR
(conversions with unit tests, no state); UTF-8, single shifts and mode 42 in the
filter; Unicode and one-sign prompts, the lengths of a remembered line and the count
of a rule's match errors in the highlighter; `LocalEchoState`; the warning about slow
rules and the benchmark; the recognisers of `profiles.rs:1266-1459` (text matching);
the descriptors a child inherits, PTY opening, exit-code mapping; the owner and mode
checks of the runtime directory (one outcome: registration fails), the resolution of
a file system's clock, a new session under a pid the directory still lists;
`--config` with an explicit path; argument parsing, tracing, reporting; the site,
scripts, packaging and completions.
