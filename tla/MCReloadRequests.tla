-------------------------- MODULE MCReloadRequests --------------------------
(* Small instances of ReloadRequests.  Two sessions and two requests at once *)
(* are too many, so a run begins where one of them is over already: with one *)
(* session dead and the other watching, or after an edit that does not load   *)
(* and a request that found nobody, with a session about to register.         *)
EXTENDS ReloadRequests, TLC

CONSTANTS s1, s2, q2

Interchangeable == Permutations(Sessions)

Begun(initialPhase, edits, watching, requested) ==
  /\ config = edits
  /\ marker = IF requested = {} THEN 0 ELSE 2
  /\ pidFiles = watching
  /\ alive = {s \in Sessions : initialPhase[s] \notin {"off", "dead"}}
  /\ phase = initialPhase
  /\ loaded = [s \in Sessions |-> 0] /\ nextConfig = loaded
  /\ lastSeen = [s \in Sessions |-> 0]
  /\ request = [q \in Requests |-> IF q \in requested THEN "done" ELSE "idle"]
  /\ left = [a \in Pruners |-> {}] /\ doomed = [a \in Pruners |-> None]
  /\ counted = [q \in Requests |-> {}]
  /\ stamp = [q \in Requests |-> IF q \in requested THEN 1 ELSE 0]
  /\ asked = [q \in Requests |-> 0]
  /\ audience = [q \in Requests |-> {}]

MCInit ==
  \/ Begun(s1 :> "running" @@ s2 :> "dead", 0, {s1}, {})
  \/ Begun(s1 :> "off" @@ s2 :> "prepared", 1, {}, {q2})

MCSpec == MCInit /\ [][Next]_vars /\ Fairness
=============================================================================
