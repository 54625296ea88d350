--------------------------- MODULE ReloadRequests ---------------------------
(***************************************************************************)
(* Reload between processes (src/src/cli/runtime.rs): a session registers  *)
(* a file named after its pid and watches the modification time of a       *)
(* marker; `prismtty --reload` writes the marker and counts the pid files  *)
(* of live processes; sessions and requests prune the files of dead ones.  *)
(*                                                                         *)
(* A session is its pid; after its death other processes may come by that  *)
(* pid, though no second session does.  The configuration is the number of *)
(* the edit that made it, and a reload reads it in one step.  A            *)
(* modification time is the number of the write that set it: the file      *)
(* system's clock is taken to tell two writes apart.                       *)
(***************************************************************************)
EXTENDS Naturals, FiniteSets

CONSTANTS
  Sessions,        \* sessions, by pid
  Requests,        \* runs of prismtty --reload
  Broken,          \* configurations that do not load
  MaxEdits,        \* bound on the edits of the configuration
  None

ASSUME ReloadAssumptions ==
  /\ MaxEdits \in Nat /\ Broken \subseteq 1 .. MaxEdits
  /\ Sessions \cap Requests = {}
  /\ None \notin Sessions

Configs == 0 .. MaxEdits

Starting == {"prepared", "registered", "pruning"}
Watching == {"running", "reloading", "building"}
SessionPhases == {"off", "unwatched", "exiting", "dead"} \cup Starting \cup Watching
RequestPhases == {"idle", "opened", "written", "pruning", "done"}

VARIABLES
  config,          \* the configuration on disk
  marker,          \* modification time of the marker, 0 while it does not exist
  pidFiles,        \* the files in pids.d
  alive,           \* pids some process has
  phase, loaded,   \* of each session, and the configuration it runs with
  nextConfig,      \* the one a reload has read and not yet committed
  lastSeen,        \* ReloadWatcher.last_seen
  request,         \* phase of each request
  left, doomed,    \* of each prune: entries to look at, and the one to remove
  counted,         \* sessions a request counted
  (* History of a request: the time and the configuration it was made at, and *)
  (* the sessions watching then.                                              *)
  stamp, asked, audience

sessionVars == <<phase, loaded, nextConfig, lastSeen>>
requestVars == <<request, counted, stamp, asked, audience>>
pruneVars == <<left, doomed>>
vars == <<config, marker, pidFiles, alive, sessionVars, requestVars, pruneVars>>

Pruners == Sessions \cup Requests

Init ==
  /\ config = 0 /\ marker = 0
  /\ pidFiles = {} /\ alive = {}
  /\ phase = [s \in Sessions |-> "off"]
  /\ loaded = [s \in Sessions |-> 0] /\ nextConfig = loaded
  /\ lastSeen = [s \in Sessions |-> 0]
  /\ request = [q \in Requests |-> "idle"]
  /\ left = [a \in Pruners |-> {}] /\ doomed = [a \in Pruners |-> None]
  /\ counted = [q \in Requests |-> {}]
  /\ stamp = [q \in Requests |-> 0] /\ asked = stamp
  /\ audience = [q \in Requests |-> {}]

EditConfig ==
  /\ config < MaxEdits
  /\ config' = config + 1
  /\ UNCHANGED <<marker, pidFiles, alive, sessionVars, requestVars, pruneVars>>

-----------------------------------------------------------------------------
(* prune_pid_dir, run by a starting session and by a request. *)

(* Fault: the result of kill is read the wrong way round. *)
LooksDead(pid) == pid \notin alive

(* kill(pid, 0) succeeds or is denied. *)
LooksLive(pid) == pid \in alive

Prunes(a) ==
  IF a \in Sessions THEN phase[a] = "pruning" ELSE request[a] = "pruning"

KeepLive(a) ==
  /\ Prunes(a) /\ doomed[a] = None
  /\ \E pid \in left[a] :
       /\ LooksLive(pid)
       /\ left' = [left EXCEPT ![a] = @ \ {pid}]
       /\ counted' = IF a \in Requests THEN [counted EXCEPT ![a] = @ \cup {pid}] ELSE counted
  /\ UNCHANGED <<config, marker, pidFiles, alive, sessionVars, request, stamp, asked,
                 audience, doomed>>

FindDead(a) ==
  /\ Prunes(a) /\ doomed[a] = None
  /\ \E pid \in left[a] :
       /\ ~ LooksLive(pid)
       /\ left' = [left EXCEPT ![a] = @ \ {pid}]
       /\ doomed' = [doomed EXCEPT ![a] = pid]
  /\ UNCHANGED <<config, marker, pidFiles, alive, sessionVars, requestVars>>

RemoveDead(a) ==
  /\ Prunes(a) /\ doomed[a] # None
  /\ pidFiles' = pidFiles \ {doomed[a]}
  /\ doomed' = [doomed EXCEPT ![a] = None]
  /\ UNCHANGED <<config, marker, alive, sessionVars, requestVars, left>>

Pruned(a) == Prunes(a) /\ left[a] = {} /\ doomed[a] = None

-----------------------------------------------------------------------------
(* A session. *)

(* prepare_session loads the configuration; one that does not load ends it. *)
Prepare(s) ==
  /\ phase[s] = "off" /\ config \notin Broken
  /\ alive' = alive \cup {s}
  /\ phase' = [phase EXCEPT ![s] = "prepared"]
  /\ loaded' = [loaded EXCEPT ![s] = config]
  /\ UNCHANGED <<config, marker, pidFiles, nextConfig, lastSeen, requestVars, pruneVars>>

Register(s) ==
  /\ phase[s] = "prepared"
  /\ pidFiles' = pidFiles \cup {s}
  /\ phase' = [phase EXCEPT ![s] = "registered"]
  /\ UNCHANGED <<config, marker, alive, loaded, nextConfig, lastSeen, requestVars, pruneVars>>

(* A runtime directory that cannot be used only disables live reload. *)
RegistrationFails(s) ==
  /\ phase[s] = "prepared"
  /\ phase' = [phase EXCEPT ![s] = "unwatched"]
  /\ UNCHANGED <<config, marker, pidFiles, alive, loaded, nextConfig, lastSeen,
                 requestVars, pruneVars>>

ListBeforeWatching(s) ==
  /\ phase[s] = "registered"
  /\ left' = [left EXCEPT ![s] = pidFiles]
  /\ phase' = [phase EXCEPT ![s] = "pruning"]
  /\ UNCHANGED <<config, marker, pidFiles, alive, loaded, nextConfig, lastSeen,
                 requestVars, doomed>>

(* ReloadWatcher::new *)
StartWatching(s) ==
  /\ phase[s] = "pruning" /\ Pruned(s)
  /\ lastSeen' = [lastSeen EXCEPT ![s] = marker]
  /\ phase' = [phase EXCEPT ![s] = "running"]
  /\ UNCHANGED <<config, marker, pidFiles, alive, loaded, nextConfig, requestVars, pruneVars>>

(* reload_requested, after a read of output. *)
SeeRequest(s) ==
  /\ phase[s] = "running" /\ marker # 0 /\ marker # lastSeen[s]
  /\ lastSeen' = [lastSeen EXCEPT ![s] = marker]
  /\ phase' = [phase EXCEPT ![s] = "reloading"]
  /\ UNCHANGED <<config, marker, pidFiles, alive, loaded, nextConfig, requestVars, pruneVars>>

ReadConfig(s) ==
  /\ phase[s] = "reloading" /\ config \notin Broken
  /\ nextConfig' = [nextConfig EXCEPT ![s] = config]
  /\ phase' = [phase EXCEPT ![s] = "building"]
  /\ UNCHANGED <<config, marker, pidFiles, alive, loaded, lastSeen, requestVars, pruneVars>>

(* The last known good configuration is kept. *)
IgnoreReload(s) ==
  /\ phase[s] = "reloading" /\ config \in Broken
  /\ phase' = [phase EXCEPT ![s] = "running"]
  /\ UNCHANGED <<config, marker, pidFiles, alive, loaded, nextConfig, lastSeen,
                 requestVars, pruneVars>>

(* Fault: the marker counts as seen only once the reload is over. *)
SeenAfterReload(s) == lastSeen' = [lastSeen EXCEPT ![s] = marker]

SeenBeforeReload(s) == UNCHANGED lastSeen

CommitReload(s) ==
  /\ phase[s] = "building"
  /\ loaded' = [loaded EXCEPT ![s] = nextConfig[s]]
  /\ SeenBeforeReload(s)
  /\ phase' = [phase EXCEPT ![s] = "running"]
  /\ UNCHANGED <<config, marker, pidFiles, alive, nextConfig, requestVars, pruneVars>>

(* Drop of the registration, or unregister_before_exit. *)
Unregister(s) ==
  /\ phase[s] \in Watching
  /\ pidFiles' = pidFiles \ {s}
  /\ phase' = [phase EXCEPT ![s] = "exiting"]
  /\ UNCHANGED <<config, marker, alive, loaded, nextConfig, lastSeen, requestVars, pruneVars>>

(* The end of the process, at any time when it is killed outright. *)
Die(s) ==
  /\ phase[s] \notin {"off", "dead"}
  /\ alive' = alive \ {s}
  /\ phase' = [phase EXCEPT ![s] = "dead"]
  /\ UNCHANGED <<config, marker, pidFiles, loaded, nextConfig, lastSeen, requestVars, pruneVars>>

(* Another process comes by the pid, or leaves it. *)
ReusePid(s) ==
  /\ phase[s] = "dead"
  /\ alive' = IF s \in alive THEN alive \ {s} ELSE alive \cup {s}
  /\ UNCHANGED <<config, marker, pidFiles, sessionVars, requestVars, pruneVars>>

-----------------------------------------------------------------------------
(* A request.  Opening the marker truncates it, which sets its time, and *)
(* writing sets it again.                                                 *)

OpenMarker(q) ==
  /\ request[q] = "idle"
  /\ marker' = marker + 1
  /\ request' = [request EXCEPT ![q] = "opened"]
  /\ stamp' = [stamp EXCEPT ![q] = marker']
  /\ asked' = [asked EXCEPT ![q] = config]
  /\ audience' = [audience EXCEPT ![q] = {s \in Sessions : phase[s] \in Watching}]
  /\ UNCHANGED <<config, pidFiles, alive, sessionVars, counted, pruneVars>>

WriteMarker(q) ==
  /\ request[q] = "opened"
  /\ marker' = marker + 1
  /\ request' = [request EXCEPT ![q] = "written"]
  /\ UNCHANGED <<config, pidFiles, alive, sessionVars, counted, stamp, asked, audience,
                 pruneVars>>

ListAfterWriting(q) ==
  /\ request[q] = "written"
  /\ left' = [left EXCEPT ![q] = pidFiles]
  /\ request' = [request EXCEPT ![q] = "pruning"]
  /\ UNCHANGED <<config, marker, pidFiles, alive, sessionVars, counted, stamp, asked,
                 audience, doomed>>

(* "Processes reloaded: {count}" *)
ReportCount(q) ==
  /\ Pruned(q)
  /\ request' = [request EXCEPT ![q] = "done"]
  /\ UNCHANGED <<config, marker, pidFiles, alive, sessionVars, counted, stamp, asked,
                 audience, pruneVars>>

SessionStep(s) ==
  \/ Prepare(s) \/ Register(s) \/ RegistrationFails(s) \/ ListBeforeWatching(s)
  \/ StartWatching(s) \/ SeeRequest(s) \/ ReadConfig(s) \/ IgnoreReload(s)
  \/ CommitReload(s) \/ Unregister(s) \/ Die(s) \/ ReusePid(s)

RequestStep(q) ==
  OpenMarker(q) \/ WriteMarker(q) \/ ListAfterWriting(q) \/ ReportCount(q)

PruneStep(a) == KeepLive(a) \/ FindDead(a) \/ RemoveDead(a)

Next ==
  \/ EditConfig
  \/ \E s \in Sessions : SessionStep(s)
  \/ \E q \in Requests : RequestStep(q)
  \/ \E a \in Pruners : PruneStep(a)

(* A running session keeps reading output, and a reload it began it ends. *)
Fairness ==
  \A s \in Sessions :
    WF_vars(SeeRequest(s) \/ ReadConfig(s) \/ IgnoreReload(s) \/ CommitReload(s))

Spec == Init /\ [][Next]_vars /\ Fairness

-----------------------------------------------------------------------------
TypeOK ==
  /\ config \in Configs /\ marker \in Nat
  /\ pidFiles \in SUBSET Sessions /\ alive \in SUBSET Sessions
  /\ phase \in [Sessions -> SessionPhases]
  /\ loaded \in [Sessions -> Configs] /\ nextConfig \in [Sessions -> Configs]
  /\ lastSeen \in [Sessions -> Nat]
  /\ request \in [Requests -> RequestPhases]
  /\ left \in [Pruners -> SUBSET Sessions] /\ doomed \in [Pruners -> Sessions \cup {None}]
  /\ counted \in [Requests -> SUBSET Sessions]
  /\ stamp \in [Requests -> Nat] /\ asked \in [Requests -> Configs]
  /\ audience \in [Requests -> SUBSET Sessions]

Made(q) == request[q] # "idle"

(* A session has nothing left to see of the requests made so far. *)
Settled(s) == phase[s] = "running" /\ lastSeen[s] = marker

(* A configuration at least as new as the asked one did not load. *)
Unloadable(q) == \E v \in Broken : v >= asked[q]

RunsAsked(s, q) == loaded[s] >= asked[q] \/ Unloadable(q)

(* A session that was watching when a request was made runs the configuration *)
(* of that request once it has nothing left to see, whatever other requests,   *)
(* edits and reloads went on meanwhile (runtime.rs:95, README.md:290).         *)
WatchersServeRequests ==
  \A q \in Requests : \A s \in audience[q] : Settled(s) => RunsAsked(s, q)

(* A live, registered session keeps its pid file through every prune. *)
LiveSessionKeepsFile ==
  \A s \in Sessions :
    phase[s] \in {"registered", "pruning"} \cup Watching => s \in pidFiles

(* A request counts every session that was watching when it was made and    *)
(* still is when the count is reported.                                      *)
WatchersAreCounted ==
  \A q \in Requests :
    request[q] = "done" => \A s \in audience[q] : phase[s] \in Watching => s \in counted[q]

(* What a session has seen it serves: the step from WatchersServeRequests to *)
(* an invariant every step preserves.                                         *)
ServedUpToSeen ==
  \A q \in Requests : \A s \in audience[q] :
    /\ phase[s] \in Watching \cup {"exiting", "dead"}
    /\ lastSeen[s] >= stamp[q] =>
         /\ phase[s] = "running" => RunsAsked(s, q)
         /\ phase[s] = "building" => nextConfig[s] >= asked[q] \/ Unloadable(q)

SeenOnlyWritten ==
  /\ \A s \in Sessions : lastSeen[s] <= marker
  /\ \A q \in Requests : stamp[q] <= marker /\ asked[q] <= config

(* Files, and what a prune holds, belong to sessions that registered; the one *)
(* a prune is about to remove belongs to a dead one.                           *)
FilesOfSessions ==
  /\ \A s \in Sessions : phase[s] \notin {"off", "dead"} => s \in alive
  /\ \A s \in pidFiles : phase[s] \notin {"off", "prepared"}
  /\ \A a \in Pruners : \A s \in left[a] : phase[s] \notin {"off", "prepared"}
  /\ \A a \in Pruners : doomed[a] # None => phase[doomed[a]] = "dead"

CountedSoFar ==
  \A q \in Requests :
    /\ request[q] = "done" => left[q] = {}
    /\ request[q] \in {"pruning", "done"} =>
         \A s \in audience[q] : phase[s] \in Watching => s \in left[q] \cup counted[q]

ReloadInv ==
  /\ TypeOK /\ SeenOnlyWritten /\ ServedUpToSeen
  /\ FilesOfSessions /\ LiveSessionKeepsFile /\ CountedSoFar

(* While output keeps arriving, every session watching when a request is     *)
(* made comes to run its configuration, or ends.                             *)
RequestsAreServed ==
  \A q \in Requests, s \in Sessions :
    (Made(q) /\ s \in audience[q]) ~> (RunsAsked(s, q) \/ phase[s] \notin Watching)

(* What --reload reports (cli.rs:125, "Processes reloaded") and README.md:290 *)
(* says of each running session: once a counted session has nothing left to    *)
(* see, it runs the configuration of the request.                              *)
CountedSessionsReload ==
  \A q \in Requests :
    request[q] = "done" => \A s \in counted[q] : Settled(s) => RunsAsked(s, q)
=============================================================================
