--------------------------- MODULE ServiceExecutor ---------------------------
(***************************************************************************)
(* One worker of monolake (monolake-core/src/orchestrator): the            *)
(* ServiceExecutor, which executes ServiceCommands one at a time, and the  *)
(* `serve` loops it spawns, all on one thread.  A command may await the    *)
(* service factory or the listener factory; the loops run meanwhile, other *)
(* commands do not.                                                        *)
(*                                                                         *)
(* A site owns a slot, the cell that its loop takes the service of every   *)
(* new connection from.  An update replaces the service in the slot, a     *)
(* removal or a second deployment drops the receiver of the stop channel,  *)
(* which the loop notices some time later.                                 *)
(*                                                                         *)
(* The stream of a listener never ends, so a loop only ends when told to.  *)
(* An accept that fails is logged and forgotten.                           *)
(***************************************************************************)
EXTENDS SiteTable

CONSTANTS
  Names,   \* names of sites
  Slots,   \* slots; bounds the loops that run at the same time
  Conns    \* connections; bounds those that are open at the same time

ASSUME ExecutorAssumption == None \notin Names \cup Slots

VARIABLES
  table,     \* sites: per name whether it is listed, its slot, its staged service
  slot,      \* the service in each slot
  running,   \* the slots whose serve loop runs
  stopped,   \* the slots whose stop receiver is dropped
  conns,     \* the service that each connection's task holds
  origin,    \* per name the service that make_via_ref was given for the staged one
  cmd        \* the command being executed, and where it is

vars == <<table, slot, running, stopped, conns, origin, cmd>>

Idle == [at |-> "recv", name |-> None, svc |-> None]

\* get_svc
Deployed(n) == IF table[n].committed = None THEN None ELSE slot[table[n].committed]

Init ==
  /\ table = [n \in Names |-> Absent]
  /\ slot = [l \in Slots |-> None]
  /\ running = {}
  /\ stopped = {}
  /\ conns = [c \in Conns |-> None]
  /\ origin = [n \in Names |-> None]
  /\ cmd = Idle

-----------------------------------------------------------------------------
(* Executing commands.                                                     *)

\* run receives a command that will await; svc is what it holds meanwhile.
Await(at, n, s) ==
  /\ cmd = Idle
  /\ cmd' = [at |-> at, name |-> n, svc |-> s]
  /\ UNCHANGED <<table, slot, running, stopped, conns, origin>>

\* The result of the command is sent back.
Answer == cmd' = Idle

\* A service that nothing refers to stands for a new one.
InUse(s) ==
  \/ s = cmd.svc
  \/ \E n \in Names : s = table[n].staged
  \/ \E l \in Slots : s = slot[l]
  \/ \E c \in Conns : s = conns[c]
New == {s \in Services : ~InUse(s)}

SetSite(n, site) == table' = [table EXCEPT ![n] = site]
SetOrigin(n, s) == origin' = [origin EXCEPT ![n] = s]

\* Dropping a committed_service drops its end of the stop channel.
DropSlot(l) == stopped' = stopped \cup ({l} \ {None})

\* ServiceSlotContainer::create in a site, and spawn(serve(..)).
Serve(n, s) ==
  \E l \in Slots \ running :
    /\ SetSite(n, [listed |-> TRUE, committed |-> l, staged |-> None])
    /\ slot' = [slot EXCEPT ![l] = s]
    /\ running' = running \cup {l}
    /\ DropSlot(table[n].committed)
    /\ SetOrigin(n, None)

\* Precommit looks up the service to transfer state from, then awaits.
Precommit(n) == Await("make", n, Deployed(n))

\* make_via_ref is done: precommit_svc.
PrecommitMade ==
  /\ cmd.at = "make"
  /\ \E s \in New : SetSite(cmd.name, PrecommitSvc(table[cmd.name], s))
  /\ SetOrigin(cmd.name, cmd.svc)
  /\ Answer
  /\ UNCHANGED <<slot, running, stopped, conns>>

\* CommandError::BuildService
MakeFails ==
  /\ cmd.at \in {"make", "makeAlone"}
  /\ Answer
  /\ UNCHANGED <<table, slot, running, stopped, conns, origin>>

\* Faulty variant: the staged service is cloned, not taken.
UpdateKeepingStaged(n) ==
  /\ cmd = Idle
  /\ CanUpdate(table[n])
  /\ slot' = [slot EXCEPT ![table[n].committed] = table[n].staged]
  /\ UNCHANGED <<table, running, stopped, conns, origin, cmd>>

\* Faulty variant: the service is put in a slot of its own, which the loop
\* does not know.
UpdateInNewSlot(n) ==
  /\ cmd = Idle
  /\ CanUpdate(table[n])
  /\ \E l \in Slots \ running :
       /\ slot' = [slot EXCEPT ![l] = table[n].staged]
       /\ SetSite(n, [table[n] EXCEPT !.committed = l, !.staged = None])
  /\ SetOrigin(n, None)
  /\ UNCHANGED <<running, stopped, conns, cmd>>

\* update_with_precommitted_svc replaces the service in the slot.
Update(n) ==
  /\ cmd = Idle
  /\ CanUpdate(table[n])
  /\ slot' = [slot EXCEPT ![table[n].committed] = table[n].staged]
  /\ SetSite(n, [table[n] EXCEPT !.staged = None])
  /\ SetOrigin(n, None)
  /\ UNCHANGED <<running, stopped, conns, cmd>>

\* Commit awaits its listener ...
Commit(n) == Await("bind", n, None)

\* ... and deploys what is staged; without that the listener is dropped.
CommitBound ==
  /\ cmd.at = "bind"
  /\ IF CanDeploy(table[cmd.name])
     THEN Serve(cmd.name, table[cmd.name].staged)
     ELSE UNCHANGED <<table, slot, running, stopped, origin>>
  /\ Answer
  /\ UNCHANGED conns

\* CommandError::BuildListener; a service made for it is dropped.
BindFails ==
  /\ cmd.at \in {"bind", "bindMade"}
  /\ Answer
  /\ UNCHANGED <<table, slot, running, stopped, conns, origin>>

\* PrepareAndCommit: make() without a reference, then the listener, then
\* precommit_svc and deploy_staged_service.
PrepareAndCommit(n) == Await("makeAlone", n, None)

PreparedAlone ==
  /\ cmd.at = "makeAlone"
  /\ \E s \in New : cmd' = [cmd EXCEPT !.at = "bindMade", !.svc = s]
  /\ UNCHANGED <<table, slot, running, stopped, conns, origin>>

PreparedBound ==
  /\ cmd.at = "bindMade"
  /\ Serve(cmd.name, cmd.svc)
  /\ Answer
  /\ UNCHANGED conns

Abort(n) ==
  /\ cmd = Idle
  /\ CanAbort(table[n])
  /\ SetSite(n, AbortPrecommit(table[n]))
  /\ SetOrigin(n, None)
  /\ UNCHANGED <<slot, running, stopped, conns, cmd>>

\* Faulty variant: the receiver of the stop channel outlives the site.
RemoveKeepingLoop(n) ==
  /\ cmd = Idle
  /\ CanRemove(table[n])
  /\ SetSite(n, RemoveSite(table[n]))
  /\ SetOrigin(n, None)
  /\ UNCHANGED <<slot, running, stopped, conns, cmd>>

\* Faulty variant: the site loses its service but stays in the table.
RemoveService(n) ==
  /\ cmd = Idle
  /\ CanRemove(table[n])
  /\ SetSite(n, [table[n] EXCEPT !.committed = None])
  /\ DropSlot(table[n].committed)
  /\ UNCHANGED <<slot, running, conns, origin, cmd>>

Remove(n) ==
  /\ cmd = Idle
  /\ CanRemove(table[n])
  /\ SetSite(n, RemoveSite(table[n]))
  /\ DropSlot(table[n].committed)
  /\ SetOrigin(n, None)
  /\ UNCHANGED <<slot, running, conns, cmd>>

-----------------------------------------------------------------------------
(* serve.                                                                  *)

\* A connection is accepted, and its task holds the service of that moment.
\* select! prefers neither branch: a loop told to stop may still accept.
Accept(l, c) ==
  /\ l \in running
  /\ conns[c] = None
  /\ conns' = [conns EXCEPT ![c] = slot[l]]
  /\ UNCHANGED <<table, slot, running, stopped, origin, cmd>>

\* Faulty variant: the loop waits for the connections of its service.
LoopDrains(l) ==
  /\ l \in running \cap stopped
  /\ \A c \in Conns : conns[c] # slot[l]
  /\ running' = running \ {l}
  /\ stopped' = stopped \ {l}
  /\ slot' = [slot EXCEPT ![l] = None]
  /\ UNCHANGED <<table, conns, origin, cmd>>

\* "server is notified to stop"
LoopStops(l) ==
  /\ l \in running \cap stopped
  /\ running' = running \ {l}
  /\ stopped' = stopped \ {l}
  /\ slot' = [slot EXCEPT ![l] = None]
  /\ UNCHANGED <<table, conns, origin, cmd>>

Close(c) ==
  /\ conns[c] # None
  /\ conns' = [conns EXCEPT ![c] = None]
  /\ UNCHANGED <<table, slot, running, stopped, origin, cmd>>

-----------------------------------------------------------------------------
Receive ==
  \E n \in Names :
    \/ Precommit(n) \/ Update(n) \/ Commit(n) \/ PrepareAndCommit(n)
    \/ Abort(n) \/ Remove(n)

Resume == PrecommitMade \/ MakeFails \/ CommitBound \/ BindFails
          \/ PreparedAlone \/ PreparedBound

Connections == \E c \in Conns : Close(c) \/ \E l \in Slots : Accept(l, c)

Next == Receive \/ Resume \/ Connections \/ \E l \in Slots : LoopStops(l)

\* The factories' futures complete, and the loops get their turn.
Fairness == WF_vars(Resume) /\ \A l \in Slots : WF_vars(LoopStops(l))

Spec == Init /\ [][Next]_vars /\ Fairness
-----------------------------------------------------------------------------
(* Correctness.                                                            *)

Site == [listed: BOOLEAN,
         committed: Slots \cup {None},
         staged: Services \cup {None}]

\* The types of the variables.
TypeOK ==
  /\ table \in [Names -> Site]
  /\ slot \in [Slots -> Services \cup {None}]
  /\ running \subseteq Slots
  /\ stopped \subseteq Slots
  /\ conns \in [Conns -> Services \cup {None}]
  /\ origin \in [Names -> Services \cup {None}]
  /\ cmd \in [at: {"recv", "make", "bind", "makeAlone", "bindMade"},
              name: Names \cup {None},
              svc: Services \cup {None}]
  /\ cmd.at = "recv" <=> cmd.name = None

Owns(n, l) == table[n].committed = l

\* The loops that run and have not been told to stop are exactly those of
\* the sites, one each: no site is deployed without a loop that accepts for
\* it, and no loop keeps accepting for a site that was removed or replaced.
LoopsMatchSites ==
  /\ stopped \subseteq running
  /\ \A l \in Slots : l \in running \ stopped <=> \E n \in Names : Owns(n, l)
  /\ \A n, m \in Names : table[n].committed # None /\ Owns(m, table[n].committed) => n = m

\* A staged service took over the state of the very service that it is going
\* to replace, however long it was in the making or has been staged.
StagedFromCurrent ==
  \A n \in Names : table[n].staged # None => origin[n] = Deployed(n)

\* The worker's commands, awaits and all, amount to atomic operations on
\* one site; what a slot holds is the service the manager believes deployed.
View == [n \in Names |-> [listed |-> table[n].listed,
                         committed |-> Deployed(n),
                         staged |-> table[n].staged]]
Commands == INSTANCE SiteCommands WITH table <- View
ImplementsCommands == Commands!Spec

\* A loop whose site is gone stops and releases its listener, whatever its
\* connections do.
StoppedLoopsEnd == \A l \in Slots : l \in stopped ~> l \notin stopped

\* "New connections use the latest deployed version": a connection gets the
\* service deployed at a site, save from a loop that is being stopped.
NewConnectionsUseLatest ==
  [][\A c \in Conns : conns[c] = None /\ conns'[c] # None =>
       \/ \E n \in Names : conns'[c] = Deployed(n)
       \/ \E l \in stopped : conns'[c] = slot[l]]_vars

\* The service that a Precommit under way was given is still deployed.
MakingFromCurrent == cmd.at = "make" => cmd.svc = Deployed(cmd.name)

\* A slot holds a service as long as its loop runs.
LoopsHoldServices ==
  /\ \A l \in Slots : l \in running <=> slot[l] # None
  /\ cmd.at = "bindMade" => cmd.svc # None

\* The inductive invariant.
IInv ==
  /\ TypeOK
  /\ LoopsMatchSites
  /\ StagedFromCurrent
  /\ MakingFromCurrent
  /\ LoopsHoldServices
==============================================================================
