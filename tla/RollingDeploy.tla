---------------------------- MODULE RollingDeploy ----------------------------
(***************************************************************************)
(* What a reload of monolake's configuration promises: the set of services *)
(* is deployed on all workers by a rolling switch from one configuration   *)
(* to the next.  While the deployment is stable nothing that is served     *)
(* changes.  A worker may be lost for good at any time, or never start.    *)
(***************************************************************************)
CONSTANTS Workers, Names, Services, None

VARIABLES
  phase,    \* "stable", "rolling" or, once the process has exited, "down"
  up,       \* the workers that run
  served,   \* served[w][n]: what worker w serves under name n
  goal      \* the configuration deployed, or being deployed

rvars == <<phase, up, served, goal>>

Configuration == [Names -> Services \cup {None}]
Nothing == [n \in Names |-> None]

Init ==
  /\ phase = "stable"
  /\ up \in SUBSET Workers
  /\ served = [w \in Workers |-> Nothing]
  /\ goal = Nothing

Begin ==
  /\ phase = "stable"
  /\ phase' = "rolling"
  /\ goal' \in Configuration
  /\ UNCHANGED <<up, served>>

\* A worker that runs switches one name to the new configuration.
Switch(w, n) ==
  /\ phase = "rolling"
  /\ w \in up
  /\ served' = [served EXCEPT ![w][n] = goal[n]]
  /\ UNCHANGED <<phase, up, goal>>

\* The deployment is complete: all workers serve all of it.
Complete ==
  /\ phase = "rolling"
  /\ \A w \in up : served[w] = goal
  /\ phase' = "stable"
  /\ UNCHANGED <<up, served, goal>>

\* A worker's thread dies.
LoseWorker(w) ==
  /\ w \in up
  /\ up' = up \ {w}
  /\ served' = [served EXCEPT ![w] = Nothing]
  /\ UNCHANGED <<phase, goal>>

Exit ==
  /\ phase # "down"
  /\ phase' = "down"
  /\ up' = {}
  /\ served' = [w \in Workers |-> Nothing]
  /\ goal' = Nothing

Next ==
  \/ Begin \/ Complete \/ Exit
  \/ \E w \in Workers : LoseWorker(w) \/ \E n \in Names : Switch(w, n)

Spec == Init /\ [][Next]_rvars

\* While stable, every worker that runs serves the goal.
Uniform == phase = "stable" => \A w \in up : served[w] = goal
==============================================================================
