----------------------------- MODULE SiteTable -----------------------------
(***************************************************************************)
(* One entry of the table `sites` of a worker's ServiceExecutor            *)
(* (monolake-core/src/orchestrator/service_executor.rs) and the operations *)
(* on it.  The HashMap is a total function from names to containers: a     *)
(* name that is not a key is bound to Absent.                              *)
(*                                                                         *)
(* A container holds at most one committed and at most one staged service. *)
(* Each operation is a pair: the condition under which the code succeeds   *)
(* (CanX) and the container it leaves behind when it does.  Every error of *)
(* the code (SiteLookupFailed, ServiceNotDeployed, ServiceNotStaged) is    *)
(* raised before anything is changed, so a failed operation leaves the     *)
(* container alone.                                                        *)
(***************************************************************************)
CONSTANTS Services,   \* what a slot can hold
          None        \* the empty Option

ASSUME NoneAssumption == None \notin Services

Container == [listed: BOOLEAN,
              committed: Services \cup {None},
              staged: Services \cup {None}]

Absent == [listed |-> FALSE, committed |-> None, staged |-> None]

\* entry(name).or_insert_with(new); a service staged earlier is dropped
PrecommitSvc(c, svc) == [c EXCEPT !.listed = TRUE, !.staged = svc]

CanUpdate(c) == c.listed /\ c.committed # None /\ c.staged # None
UpdateWithPrecommitted(c) == [c EXCEPT !.committed = c.staged, !.staged = None]

CanDeploy(c) == c.listed /\ c.staged # None
DeployStaged(c) == [c EXCEPT !.committed = c.staged, !.staged = None]

CanRemove(c) == c.listed
RemoveSite(c) == Absent

\* abort keeps the entry, even one that a failed insertion created
CanAbort(c) == c.listed
\* Faulty variant: abort forgets the whole site.
AbortForgetsSite(c) == Absent
AbortPrecommit(c) == [c EXCEPT !.staged = None]
============================================================================
