----------------------- MODULE ReloadRequestsProofs -----------------------
(***************************************************************************)
(* Proofs about ReloadRequests, for any number of sessions and requests.   *)
(*                                                                         *)
(* ReloadInv is argued one conjunct at a time.  What ties the processes    *)
(* together is the marker: a session's lastSeen never exceeds it, a new    *)
(* request moves it past every lastSeen, and only a session that has seen  *)
(* a request's time owes it anything.  On the other side, dead is final,   *)
(* so a prune that found a pid dead may remove its file at any later time. *)
(***************************************************************************)
EXTENDS ReloadRequests, TLAPS

(* The initial state has no session, no request and no file. *)
LEMMA InitInv == Init => ReloadInv
<1> SUFFICES ASSUME Init PROVE ReloadInv
  OBVIOUS
<1> USE ReloadAssumptions
<1>1. TypeOK
  BY DEF Init, TypeOK, Configs, SessionPhases, Starting, Watching, RequestPhases
<1>2. SeenOnlyWritten
  BY DEF Init, SeenOnlyWritten
<1>3. ServedUpToSeen /\ CountedSoFar
  BY DEF Init, ServedUpToSeen, CountedSoFar
<1>4. FilesOfSessions /\ LiveSessionKeepsFile
  BY DEF Init, FilesOfSessions, LiveSessionKeepsFile, Starting, Watching, Pruners
<1> QED
  BY <1>1, <1>2, <1>3, <1>4 DEF ReloadInv

(* Every action keeps the types. *)
LEMMA TypePreserved ==
  ASSUME TypeOK, [Next]_vars
  PROVE  TypeOK'
<1> USE ReloadAssumptions DEF TypeOK, Configs, SessionPhases, Starting, Watching,
                              RequestPhases, sessionVars, requestVars, pruneVars
<1>1. CASE EditConfig
  BY <1>1 DEF EditConfig
<1>2. ASSUME NEW s \in Sessions, SessionStep(s) PROVE TypeOK'
  <2>1. CASE Prepare(s)             BY <2>1 DEF Prepare
  <2>2. CASE Register(s)            BY <2>2 DEF Register
  <2>3. CASE RegistrationFails(s)   BY <2>3 DEF RegistrationFails
  <2>4. CASE ListBeforeWatching(s)  BY <2>4 DEF ListBeforeWatching, Pruners
  <2>5. CASE StartWatching(s)       BY <2>5 DEF StartWatching
  <2>6. CASE SeeRequest(s)          BY <2>6 DEF SeeRequest
  <2>7. CASE ReadConfig(s)          BY <2>7 DEF ReadConfig
  <2>8. CASE IgnoreReload(s)        BY <2>8 DEF IgnoreReload
  <2>9. CASE CommitReload(s)        BY <2>9 DEF CommitReload, SeenBeforeReload
  <2>10. CASE Unregister(s)         BY <2>10 DEF Unregister
  <2>11. CASE Die(s)                BY <2>11 DEF Die
  <2>12. CASE ReusePid(s)           BY <2>12 DEF ReusePid
  <2> QED
    BY <1>2, <2>1, <2>2, <2>3, <2>4, <2>5, <2>6, <2>7, <2>8, <2>9, <2>10, <2>11, <2>12
       DEF SessionStep
<1>3. ASSUME NEW q \in Requests, RequestStep(q) PROVE TypeOK'
  <2>1. CASE OpenMarker(q)          BY <2>1 DEF OpenMarker
  <2>2. CASE WriteMarker(q)         BY <2>2 DEF WriteMarker
  <2>3. CASE ListAfterWriting(q)    BY <2>3 DEF ListAfterWriting, Pruners
  <2>4. CASE ReportCount(q)         BY <2>4 DEF ReportCount
  <2> QED
    BY <1>3, <2>1, <2>2, <2>3, <2>4 DEF RequestStep
<1>4. ASSUME NEW a \in Pruners, PruneStep(a) PROVE TypeOK'
  <2>1. CASE KeepLive(a)            BY <2>1 DEF KeepLive
  <2>2. CASE FindDead(a)            BY <2>2 DEF FindDead
  <2>3. CASE RemoveDead(a)          BY <2>3 DEF RemoveDead
  <2> QED
    BY <1>4, <2>1, <2>2, <2>3 DEF PruneStep
<1>5. CASE UNCHANGED vars
  BY <1>5 DEF vars
<1> QED
  BY <1>1, <1>2, <1>3, <1>4, <1>5 DEF Next

(* Times never run ahead of the marker, nor asked configurations of the disk. *)
LEMMA SeenPreserved ==
  ASSUME TypeOK, SeenOnlyWritten, [Next]_vars
  PROVE  SeenOnlyWritten'
<1> USE DEF TypeOK, SeenOnlyWritten, Configs, sessionVars, requestVars, pruneVars
<1>1. CASE EditConfig
  BY <1>1 DEF EditConfig
<1>2. ASSUME NEW s \in Sessions, SessionStep(s) PROVE SeenOnlyWritten'
  <2>1. CASE StartWatching(s)       BY <2>1 DEF StartWatching
  <2>2. CASE SeeRequest(s)          BY <2>2 DEF SeeRequest
  <2>3. UNCHANGED <<marker, config, stamp, asked>>
    BY <1>2 DEF SessionStep, Prepare, Register, RegistrationFails, ListBeforeWatching,
                StartWatching, SeeRequest, ReadConfig, IgnoreReload, CommitReload,
                Unregister, Die, ReusePid
  <2>4. CASE UNCHANGED lastSeen
    BY <2>3, <2>4
  <2> QED
    BY <1>2, <2>1, <2>2, <2>4
       DEF SessionStep, Prepare, Register, RegistrationFails, ListBeforeWatching,
           ReadConfig, IgnoreReload, CommitReload, SeenBeforeReload, Unregister, Die,
           ReusePid
<1>3. ASSUME NEW q \in Requests, RequestStep(q) PROVE SeenOnlyWritten'
  <2>1. CASE OpenMarker(q)          BY <2>1 DEF OpenMarker
  <2>2. CASE WriteMarker(q)         BY <2>2 DEF WriteMarker
  <2>3. CASE ListAfterWriting(q)    BY <2>3 DEF ListAfterWriting
  <2>4. CASE ReportCount(q)         BY <2>4 DEF ReportCount
  <2> QED
    BY <1>3, <2>1, <2>2, <2>3, <2>4 DEF RequestStep
<1>4. ASSUME NEW a \in Pruners, PruneStep(a) PROVE SeenOnlyWritten'
  BY <1>4 DEF PruneStep, KeepLive, FindDead, RemoveDead
<1>5. CASE UNCHANGED vars
  BY <1>5 DEF vars
<1> QED
  BY <1>1, <1>2, <1>3, <1>4, <1>5 DEF Next

(* What a session has seen it serves, through every step: a reload reads the *)
(* configuration after the marker, and a request moves the marker past what   *)
(* anyone has seen.                                                           *)
LEMMA ServedPreserved ==
  ASSUME TypeOK, SeenOnlyWritten, ServedUpToSeen, [Next]_vars
  PROVE  ServedUpToSeen'
<1> USE DEF TypeOK, SeenOnlyWritten, ServedUpToSeen, RunsAsked, Unloadable, Watching,
            sessionVars, requestVars, pruneVars
<1>1. CASE EditConfig
  BY <1>1 DEF EditConfig
<1>2. ASSUME NEW s \in Sessions, SessionStep(s) PROVE ServedUpToSeen'
  <2>1. CASE Prepare(s)             BY <2>1 DEF Prepare
  <2>2. CASE Register(s)            BY <2>2 DEF Register
  <2>3. CASE RegistrationFails(s)   BY <2>3 DEF RegistrationFails
  <2>4. CASE ListBeforeWatching(s)  BY <2>4 DEF ListBeforeWatching
  <2>5. CASE StartWatching(s)       BY <2>5 DEF StartWatching
  <2>6. CASE SeeRequest(s)          BY <2>6 DEF SeeRequest
  <2>7. CASE ReadConfig(s)          BY <2>7 DEF ReadConfig
  <2>8. CASE IgnoreReload(s)        BY <2>8 DEF IgnoreReload
  <2>9. CASE CommitReload(s)        BY <2>9 DEF CommitReload, SeenBeforeReload
  <2>10. CASE Unregister(s)         BY <2>10 DEF Unregister
  <2>11. CASE Die(s)                BY <2>11 DEF Die
  <2>12. CASE ReusePid(s)           BY <2>12 DEF ReusePid
  <2> QED
    BY <1>2, <2>1, <2>2, <2>3, <2>4, <2>5, <2>6, <2>7, <2>8, <2>9, <2>10, <2>11, <2>12
       DEF SessionStep
<1>3. ASSUME NEW q \in Requests, RequestStep(q) PROVE ServedUpToSeen'
  <2>1. CASE OpenMarker(q)          BY <2>1 DEF OpenMarker
  <2>2. CASE WriteMarker(q)         BY <2>2 DEF WriteMarker
  <2>3. CASE ListAfterWriting(q)    BY <2>3 DEF ListAfterWriting
  <2>4. CASE ReportCount(q)         BY <2>4 DEF ReportCount
  <2> QED
    BY <1>3, <2>1, <2>2, <2>3, <2>4 DEF RequestStep
<1>4. ASSUME NEW a \in Pruners, PruneStep(a) PROVE ServedUpToSeen'
  BY <1>4 DEF PruneStep, KeepLive, FindDead, RemoveDead
<1>5. CASE UNCHANGED vars
  BY <1>5 DEF vars
<1> QED
  BY <1>1, <1>2, <1>3, <1>4, <1>5 DEF Next

(* A prune removes the files of dead sessions only: it looked at a pid whose *)
(* session had registered, and such a session that is not alive is dead.     *)
LEMMA FilesPreserved ==
  ASSUME TypeOK, FilesOfSessions, LiveSessionKeepsFile, [Next]_vars
  PROVE  FilesOfSessions' /\ LiveSessionKeepsFile'
<1> USE ReloadAssumptions DEF TypeOK, FilesOfSessions, LiveSessionKeepsFile, Watching,
            SessionPhases, Starting, Pruners, sessionVars, requestVars, pruneVars
<1> DEFINE Goal == FilesOfSessions' /\ LiveSessionKeepsFile'
<1>1. CASE EditConfig
  BY <1>1 DEF EditConfig
<1>2. ASSUME NEW s \in Sessions, SessionStep(s) PROVE Goal
  <2>1. CASE Prepare(s)             BY <2>1 DEF Prepare
  <2>2. CASE Register(s)            BY <2>2 DEF Register
  <2>3. CASE RegistrationFails(s)   BY <2>3 DEF RegistrationFails
  <2>4. CASE ListBeforeWatching(s)  BY <2>4 DEF ListBeforeWatching
  <2>5. CASE StartWatching(s)       BY <2>5 DEF StartWatching
  <2>6. CASE SeeRequest(s)          BY <2>6 DEF SeeRequest
  <2>7. CASE ReadConfig(s)          BY <2>7 DEF ReadConfig
  <2>8. CASE IgnoreReload(s)        BY <2>8 DEF IgnoreReload
  <2>9. CASE CommitReload(s)        BY <2>9 DEF CommitReload
  <2>10. CASE Unregister(s)         BY <2>10 DEF Unregister
  <2>11. CASE Die(s)                BY <2>11 DEF Die
  <2>12. CASE ReusePid(s)           BY <2>12 DEF ReusePid
  <2> QED
    BY <1>2, <2>1, <2>2, <2>3, <2>4, <2>5, <2>6, <2>7, <2>8, <2>9, <2>10, <2>11, <2>12
       DEF SessionStep
<1>3. ASSUME NEW q \in Requests, RequestStep(q) PROVE Goal
  <2>1. CASE ListAfterWriting(q)    BY <2>1 DEF ListAfterWriting
  <2>2. CASE OpenMarker(q) \/ WriteMarker(q) \/ ReportCount(q)
    BY <2>2 DEF OpenMarker, WriteMarker, ReportCount
  <2> QED
    BY <1>3, <2>1, <2>2 DEF RequestStep
<1>4. ASSUME NEW a \in Pruners, PruneStep(a) PROVE Goal
  <2>1. CASE KeepLive(a)            BY <2>1 DEF KeepLive
  <2>2. CASE FindDead(a)            BY <2>2 DEF FindDead, LooksLive
  <2>3. CASE RemoveDead(a)          BY <2>3 DEF RemoveDead
  <2> QED
    BY <1>4, <2>1, <2>2, <2>3 DEF PruneStep
<1>5. CASE UNCHANGED vars
  BY <1>5 DEF vars
<1> QED
  BY <1>1, <1>2, <1>3, <1>4, <1>5 DEF Next

(* A watching session of a request is either counted or still to be looked at: *)
(* its file was there to be listed, and only the file of a dead one is skipped.  *)
LEMMA CountedPreserved ==
  ASSUME TypeOK, ServedUpToSeen, FilesOfSessions, LiveSessionKeepsFile, CountedSoFar,
         [Next]_vars
  PROVE  CountedSoFar'
<1> USE ReloadAssumptions DEF TypeOK, CountedSoFar, Watching, Pruners, RequestPhases,
            sessionVars, requestVars, pruneVars
<1>1. CASE EditConfig
  BY <1>1 DEF EditConfig
<1>2. ASSUME NEW s \in Sessions, SessionStep(s) PROVE CountedSoFar'
  <2>1. UNCHANGED <<request, audience, counted>> /\ \A q \in Requests : left'[q] = left[q]
    BY <1>2 DEF SessionStep, Prepare, Register, RegistrationFails, ListBeforeWatching,
                StartWatching, SeeRequest, ReadConfig, IgnoreReload, CommitReload,
                Unregister, Die, ReusePid
  <2>2. ASSUME NEW q \in Requests, NEW t \in audience[q], phase'[t] \in Watching
        PROVE  phase[t] \in Watching
    <3>1. phase[t] \in Watching \cup {"exiting", "dead"}
      BY DEF ServedUpToSeen
    <3>2. t \in Sessions
      OBVIOUS
    <3> QED
      BY <1>2, <2>2, <3>1, <3>2
         DEF SessionStep, Prepare, Register, RegistrationFails, ListBeforeWatching,
             StartWatching, SeeRequest, ReadConfig, IgnoreReload, CommitReload,
             Unregister, Die, ReusePid
  <2> QED
    BY <2>1, <2>2
<1>3. ASSUME NEW q \in Requests, RequestStep(q) PROVE CountedSoFar'
  <2>1. CASE OpenMarker(q)          BY <2>1 DEF OpenMarker
  <2>2. CASE WriteMarker(q)         BY <2>2 DEF WriteMarker
  <2>3. CASE ListAfterWriting(q)    BY <2>3 DEF ListAfterWriting, LiveSessionKeepsFile
  <2>4. CASE ReportCount(q)         BY <2>4 DEF ReportCount, Pruned, Prunes
  <2> QED
    BY <1>3, <2>1, <2>2, <2>3, <2>4 DEF RequestStep
<1>4. ASSUME NEW a \in Pruners, PruneStep(a) PROVE CountedSoFar'
  <2>1. CASE KeepLive(a)            BY <2>1 DEF KeepLive, Prunes
  <2>2. CASE FindDead(a)
    BY <2>2 DEF FindDead, LooksLive, Prunes, FilesOfSessions
  <2>3. CASE RemoveDead(a)          BY <2>3 DEF RemoveDead
  <2> QED
    BY <1>4, <2>1, <2>2, <2>3 DEF PruneStep
<1>5. CASE UNCHANGED vars
  BY <1>5 DEF vars
<1> QED
  BY <1>1, <1>2, <1>3, <1>4, <1>5 DEF Next

(* Every reachable state of any number of processes satisfies the inductive *)
(* invariant (runtime.rs:27-161).                                            *)
THEOREM ReloadInvariant == Spec => []ReloadInv
<1>1. ASSUME ReloadInv, [Next]_vars PROVE ReloadInv'
  BY <1>1, TypePreserved, SeenPreserved, ServedPreserved, FilesPreserved, CountedPreserved
     DEF ReloadInv
<1> QED
  BY <1>1, InitInv, PTL DEF Spec

(* A session that was watching when a request was made never settles on an  *)
(* older configuration that loads, whatever requests, edits and reloads     *)
(* overlap (runtime.rs:95).                                                 *)
THEOREM RequestsAreNotLost == Spec => []WatchersServeRequests
<1>1. ReloadInv => WatchersServeRequests
  BY DEF ReloadInv, TypeOK, SeenOnlyWritten, ServedUpToSeen, WatchersServeRequests, Settled
<1> QED
  BY <1>1, ReloadInvariant, PTL

(* No prune, of a starting session or of a request, ever takes the pid file *)
(* of a registered session that is not dead (runtime.rs:126).               *)
THEOREM PrunesSpareTheLiving == Spec => []LiveSessionKeepsFile
<1>1. ReloadInv => LiveSessionKeepsFile
  BY DEF ReloadInv
<1> QED
  BY <1>1, ReloadInvariant, PTL

(* The count a request reports has every session that was watching when it  *)
(* was made and still is (cli.rs:125).                                      *)
THEOREM CountIsComplete == Spec => []WatchersAreCounted
<1>1. ReloadInv => WatchersAreCounted
  BY DEF ReloadInv, CountedSoFar, WatchersAreCounted
<1> QED
  BY <1>1, ReloadInvariant, PTL
=============================================================================
