---------------------------- MODULE ConfigReload ----------------------------
(***************************************************************************)
(* The dynamic configuration of monolake: StaticFileConfigManager reads    *)
(* the service file every second, diffs it against the services online and *)
(* rolls the difference out in two phases (prepare, then commit or abort)  *)
(* through WorkerManager::dispatch_service_command, which hands a command  *)
(* to one worker at a time and awaits each answer.  Every worker is a      *)
(* thread with a site table of its own (SiteTable).                        *)
(*                                                                         *)
(* A service is identified with the server configuration it is built from. *)
(* The file is written by somebody else, at any moment, not atomically.    *)
(***************************************************************************)
EXTENDS Naturals, Sequences, FiniteSets, Functions, SiteTable

CONSTANTS
  NumWorkers,        \* runtime.worker_threads
  Names,             \* keys of the `servers` table
  Files,             \* contents the writer may give the file
  Header,            \* a line that parses and defines no service ([servers])
  Garbage,           \* a line that does not parse
  BuildOutcomes,     \* what building a server configuration can do
  ListenerOutcomes,  \* what binding the listener of a name can do
  MaxWrites          \* bound on the number of writes

Workers == 1..NumWorkers
Line == [key: Names, cfg: Services] \cup {Header, Garbage}
Content == Seq(Line)
ServiceMap == [Names -> Services \cup {None}]

ASSUME ConfigAssumption ==
  /\ NumWorkers \in Nat \ {0}
  /\ MaxWrites \in Nat
  /\ IsFiniteSet(Names)
  /\ Files \subseteq Content
  /\ BuildOutcomes \in [Services -> SUBSET {"ok", "err", "panic"}]
  /\ ListenerOutcomes \in [Names -> SUBSET {"ok", "err", "panic"}]

VARIABLES
  file,            \* what is on disk
  writes,          \* number of writes so far
  pc,              \* where the manager is
  mode,            \* the first load, or the loop of watch
  length,          \* "stale" if the file was written since metadata()
  newContent,      \* latest_content of reload_file
  newServices,     \* new_services of reload_file
  order,           \* the keys of the patches, in the order of the vector
  idx, wk,         \* the patch and the worker the dispatch loops are at
  result,          \* "err" once a worker answers the current command with an Err
  onlineContent,   \* online_config_content
  onlineServices,  \* online_services
  alive,           \* the workers whose thread runs
  sites            \* the site table of every worker

fileVars == <<file, writes>>
managerVars == <<pc, mode, length, newContent, newServices, order, idx, wk,
                 result, onlineContent, onlineServices>>
workerVars == <<alive, sites>>
vars == <<fileVars, managerVars, workerVars>>

NoServices == [k \in Names |-> None]
NoSites == [k \in Names |-> Absent]

-----------------------------------------------------------------------------
(* Parsing and comparing configurations.                                   *)

\* parse_service_config of a TOML text: `servers` is a required table and
\* TOML refuses a key that is there twice.
Parses(c) ==
  /\ c # <<>>
  /\ \A i \in DOMAIN c : c[i] # Garbage
  /\ \A i, j \in DOMAIN c :
       i # j /\ c[i] # Header /\ c[j] # Header => c[i].key # c[j].key

ServicesIn(c) ==
  [k \in Names |->
    IF \E i \in DOMAIN c : c[i] # Header /\ c[i].key = k
    THEN c[CHOOSE i \in DOMAIN c : c[i] # Header /\ c[i].key = k].cfg
    ELSE None]

\* diff makes one patch of every key of either map, changed or not
PatchKeys(old, new) == {k \in Names : old[k] # None \/ new[k] # None}

\* the vector of patches, in the order a HashSet happens to yield
PatchOrders(old, new) ==
  LET keys == PatchKeys(old, new) IN Bijection(1..Cardinality(keys), keys)

Kind(k) == CASE onlineServices[k] = None -> "Insert"
             [] newServices[k] = None    -> "Delete"
             [] OTHER                    -> "Update"

AtPatch(kinds) == idx \in DOMAIN order /\ Kind(order[idx]) \in kinds
Key == order[idx]

-----------------------------------------------------------------------------
\* RuntimeWrapper::new: where the driver of a worker cannot be built (io_uring
\* may be short of memory it can lock), the thread ends before its first command,
\* and nobody asks.
Startable == SUBSET Workers

Init ==
  /\ file \in Files
  /\ writes = 0
  /\ pc = "idle"
  /\ mode = "load"
  /\ length = "exact"
  /\ newContent = <<>>
  /\ newServices = NoServices
  /\ order = <<>>
  /\ idx = 1
  /\ wk = 1
  /\ result = "ok"
  /\ onlineContent = <<>>
  /\ onlineServices = NoServices
  /\ alive \in Startable
  /\ sites = [w \in Workers |-> NoSites]

\* Whoever edits the file: any content, complete or not, at any time.
WriteFile ==
  /\ writes < MaxWrites
  /\ file' \in Files
  /\ file' # file
  /\ writes' = writes + 1
  /\ length' = IF pc = "read" THEN "stale" ELSE length
  /\ UNCHANGED <<pc, mode, newContent, newServices, order, idx, wk, result,
                 onlineContent, onlineServices, workerVars>>

\* The task of a connection panics.  Nothing catches it, so the thread of the
\* worker ends, with its sites and the receiver of its commands.  Connections
\* outlive the site that they were accepted for, and the workers have had sites
\* once a configuration has been online.
WorkerDies(w) ==
  /\ w \in alive
  /\ onlineContent # <<>> \/ \E k \in Names : sites[w][k].committed # None
  /\ alive' = alive \ {w}
  /\ sites' = [sites EXCEPT ![w] = NoSites]
  /\ UNCHANGED <<fileVars, managerVars>>

-----------------------------------------------------------------------------
(* reload_file.                                                            *)

\* A panic of the manager ends the process, with all its workers.
ProcessExit ==
  /\ pc' = "dead"
  /\ alive' = {}
  /\ sites' = [w \in Workers |-> NoSites]

\* reload_file returns Err: logged by watch, fatal to load_and_watch.
ReloadFails ==
  IF mode = "watch"
  THEN pc' = "idle" /\ UNCHANGED workerVars
  ELSE ProcessExit

\* The locals of a reload are gone when it returns.
DropLocals ==
  /\ newContent' = <<>>
  /\ newServices' = NoServices
  /\ order' = <<>>
  /\ idx' = 1
  /\ wk' = 1
  /\ result' = "ok"

\* file_read asks for the length first ...
Stat ==
  /\ pc = "idle"
  /\ pc' = "read"
  /\ length' = "exact"
  /\ UNCHANGED <<fileVars, mode, newContent, newServices, order, idx, wk,
                 result, onlineContent, onlineServices, workerVars>>

\* ... and then reads that many bytes of what the file is by then.
Readable ==
  IF length = "stale" THEN {SubSeq(file, 1, n) : n \in 0..Len(file)} ELSE {file}

\* The content is the one online: Ok, nothing to do.
ReadUnchanged ==
  /\ pc = "read"
  /\ onlineContent \in Readable
  /\ pc' = "idle"
  /\ mode' = "watch"
  /\ length' = "exact"
  /\ UNCHANGED <<fileVars, newContent, newServices, order, idx, wk, result,
                 onlineContent, onlineServices, workerVars>>

\* An I/O error: the file is missing, cannot be read or has become shorter, or so
\* it is with a certificate that it names.
ReadError ==
  /\ pc = "read"
  /\ ReloadFails
  /\ length' = "exact"
  /\ UNCHANGED <<fileVars, mode, newContent, newServices, order, idx, wk,
                 result, onlineContent, onlineServices>>

\* A content that does not parse.
ReadFails ==
  /\ pc = "read"
  /\ \E c \in Readable : c # onlineContent /\ ~Parses(c)
  /\ ReloadFails
  /\ length' = "exact"
  /\ UNCHANGED <<fileVars, mode, newContent, newServices, order, idx, wk,
                 result, onlineContent, onlineServices>>

\* reload_services: diff, then prepare.
ReadChanged ==
  /\ pc = "read"
  /\ \E c \in Readable :
       /\ c # onlineContent
       /\ Parses(c)
       /\ newContent' = c
       /\ newServices' = ServicesIn(c)
       /\ order' \in PatchOrders(onlineServices, ServicesIn(c))
  /\ pc' = "prepare"
  /\ idx' = 1
  /\ wk' = 1
  /\ result' = "ok"
  /\ length' = "exact"
  /\ UNCHANGED <<fileVars, mode, onlineContent, onlineServices, workerVars>>

-----------------------------------------------------------------------------
(* dispatch_service_command: one worker after the other, an answer each.   *)

dispatchConst == <<fileVars, mode, length, newContent, newServices, order,
                   onlineContent, onlineServices>>

Dispatching(stage, kinds) == pc = stage /\ AtPatch(kinds) /\ wk \in Workers

\* Worker wk answers; results.push(..) and on to the next worker.
Answer(r) ==
  /\ result' = IF r = "err" THEN "err" ELSE result
  /\ wk' = wk + 1
  /\ UNCHANGED <<dispatchConst, pc, idx>>

\* The container of the current patch on the current worker.
Site == sites[wk][Key]
SetSite(c) == sites' = [sites EXCEPT ![wk][Key] = c]

\* Faulty variant: a worker that is gone has nothing to answer.
WorkerGoneSkipped ==
  /\ \/ Dispatching("prepare", {"Insert", "Update"})
     \/ Dispatching("commit", {"Insert", "Update", "Delete"})
     \/ Dispatching("abort", {"Insert", "Update"})
  /\ wk \notin alive
  /\ Answer("ok")
  /\ UNCHANGED workerVars

\* feed or the result channel fails: the worker's thread is gone.
WorkerGone ==
  /\ \/ Dispatching("prepare", {"Insert", "Update"})
     \/ Dispatching("commit", {"Insert", "Update", "Delete"})
     \/ Dispatching("abort", {"Insert", "Update"})
  /\ wk \notin alive
  /\ Answer("err")
  /\ UNCHANGED workerVars

\* ServiceCommand::Precommit: make_via_ref, then precommit_svc.
Precommit ==
  /\ Dispatching("prepare", {"Insert", "Update"})
  /\ wk \in alive
  /\ \/ /\ "ok" \in BuildOutcomes[newServices[Key]]
        /\ SetSite(PrecommitSvc(Site, newServices[Key]))
        /\ UNCHANGED alive
        /\ Answer("ok")
     \/ /\ "err" \in BuildOutcomes[newServices[Key]]
        /\ UNCHANGED workerVars
        /\ Answer("err")
     \* a factory that panics takes the worker's thread with it
     \/ /\ "panic" \in BuildOutcomes[newServices[Key]]
        /\ alive' = alive \ {wk}
        /\ sites' = [sites EXCEPT ![wk] = NoSites]
        /\ Answer("err")

\* ServiceCommand::Commit: bind the listener, then deploy_staged_service.
Commit ==
  /\ Dispatching("commit", {"Insert"})
  /\ wk \in alive
  /\ UNCHANGED alive
  /\ \/ /\ "ok" \in ListenerOutcomes[Key] /\ CanDeploy(Site)
        /\ SetSite(DeployStaged(Site))
        /\ Answer("ok")
     \/ /\ "err" \in ListenerOutcomes[Key] \/ ~CanDeploy(Site)
        /\ UNCHANGED sites
        /\ Answer("err")

\* listener_factory_provider runs in the manager, before the dispatch.
ListenerFactoryPanics ==
  /\ Dispatching("commit", {"Insert"})
  /\ wk = 1
  /\ "panic" \in ListenerOutcomes[Key]
  /\ ProcessExit
  /\ DropLocals
  /\ UNCHANGED <<fileVars, mode, length, onlineContent, onlineServices>>

\* ServiceCommand::Update: update_with_precommitted_svc.
Update ==
  /\ Dispatching("commit", {"Update"})
  /\ wk \in alive
  /\ UNCHANGED alive
  /\ IF CanUpdate(Site)
     THEN SetSite(UpdateWithPrecommitted(Site)) /\ Answer("ok")
     ELSE UNCHANGED sites /\ Answer("err")

\* ServiceCommand::Remove: remove.
Remove ==
  /\ Dispatching("commit", {"Delete"})
  /\ wk \in alive
  /\ UNCHANGED alive
  /\ IF CanRemove(Site)
     THEN SetSite(RemoveSite(Site)) /\ Answer("ok")
     ELSE UNCHANGED sites /\ Answer("err")

\* ServiceCommand::Abort: abort.
Abort ==
  /\ Dispatching("abort", {"Insert", "Update"})
  /\ wk \in alive
  /\ UNCHANGED alive
  /\ IF CanAbort(Site)
     THEN SetSite(AbortPrecommit(Site)) /\ Answer("ok")
     ELSE UNCHANGED sites /\ Answer("err")

-----------------------------------------------------------------------------
(* The loops of prepare, commit and abort over the patches.                *)

NextPatch ==
  /\ idx' = idx + 1
  /\ wk' = 1
  /\ result' = "ok"
  /\ UNCHANGED <<dispatchConst, pc, workerVars>>

\* "nothing to do at prepare stage", "nothing to do at abort stage"
SkipDelete ==
  /\ pc \in {"prepare", "abort"}
  /\ AtPatch({"Delete"})
  /\ NextPatch

\* Faulty variant: the results of a command are never looked at.
PatchDoneUnchecked ==
  /\ wk = NumWorkers + 1
  /\ NextPatch

\* Every worker has answered, and `.err()?` lets the loop go on.
PatchDone ==
  /\ wk = NumWorkers + 1
  /\ pc = "abort" \/ (pc \in {"prepare", "commit"} /\ result = "ok")
  /\ NextPatch

\* Faulty variant: abort starts at the patch that failed.
PrepareFailsAbortingRest ==
  /\ pc = "prepare"
  /\ wk = NumWorkers + 1
  /\ result = "err"
  /\ pc' = "abort"
  /\ wk' = 1
  /\ result' = "ok"
  /\ UNCHANGED <<dispatchConst, idx, workerVars>>

\* The first patch with a failed answer ends prepare and starts abort.
PrepareFails ==
  /\ pc = "prepare"
  /\ wk = NumWorkers + 1
  /\ result = "err"
  /\ pc' = "abort"
  /\ idx' = 1
  /\ wk' = 1
  /\ result' = "ok"
  /\ UNCHANGED <<dispatchConst, workerVars>>

PrepareEnds ==
  /\ pc = "prepare"
  /\ idx \notin DOMAIN order
  /\ pc' = "commit"
  /\ idx' = 1
  /\ wk' = 1
  /\ result' = "ok"
  /\ UNCHANGED <<dispatchConst, workerVars>>

\* expect("config reload failed at commit stage")
CommitFails ==
  /\ pc = "commit"
  /\ wk = NumWorkers + 1
  /\ result = "err"
  /\ ProcessExit
  /\ DropLocals
  /\ UNCHANGED <<fileVars, mode, length, onlineContent, onlineServices>>

\* Faulty variant: the content online is read from the file again.
CommitEndsReadingAgain ==
  /\ pc = "commit"
  /\ idx \notin DOMAIN order
  /\ pc' = "idle"
  /\ mode' = "watch"
  /\ onlineContent' = file
  /\ onlineServices' = newServices
  /\ DropLocals
  /\ UNCHANGED <<fileVars, length, workerVars>>

\* "config reload success"
CommitEnds ==
  /\ pc = "commit"
  /\ idx \notin DOMAIN order
  /\ pc' = "idle"
  /\ mode' = "watch"
  /\ onlineContent' = newContent
  /\ onlineServices' = newServices
  /\ DropLocals
  /\ UNCHANGED <<fileVars, length, workerVars>>

AbortEnds ==
  /\ pc = "abort"
  /\ idx \notin DOMAIN order
  /\ ReloadFails
  /\ DropLocals
  /\ UNCHANGED <<fileVars, mode, length, onlineContent, onlineServices>>

\* The process has exited: nothing happens any more.
Exited == pc = "dead" /\ UNCHANGED vars

Manager ==
  \/ Stat \/ ReadUnchanged \/ ReadError \/ ReadFails \/ ReadChanged
  \/ WorkerGone \/ Precommit \/ Commit \/ ListenerFactoryPanics
  \/ Update \/ Remove \/ Abort
  \/ SkipDelete \/ PatchDone \/ PrepareFails \/ PrepareEnds
  \/ CommitFails \/ CommitEnds \/ AbortEnds

Next ==
  \/ WriteFile
  \/ \E w \in Workers : WorkerDies(w)
  \/ Manager
  \/ Exited

\* The manager's thread and the workers' threads keep running.
Fairness == WF_vars(Manager)

Spec == Init /\ [][Next]_vars /\ Fairness

-----------------------------------------------------------------------------
(* Correctness.                                                            *)

\* The types of the variables; `order` lists the keys of the patches of the
\* reload under way, each of them once.
TypeOK ==
  /\ file \in Content
  /\ writes \in 0..MaxWrites
  /\ pc \in {"idle", "read", "prepare", "commit", "abort", "dead"}
  /\ mode \in {"load", "watch"}
  /\ length \in {"exact", "stale"}
  /\ newContent \in Content
  /\ newServices \in ServiceMap
  /\ order \in Seq(Names)
  /\ IsInjective(order)
  /\ idx \in Nat /\ idx >= 1
  /\ wk \in 1..(NumWorkers + 1)
  /\ result \in {"ok", "err"}
  /\ onlineContent \in Content
  /\ onlineServices \in ServiceMap
  /\ alive \subseteq Workers
  /\ sites \in [Workers -> [Names -> Container]]

Serving(w) == [k \in Names |-> sites[w][k].committed]

\* Between two reloads every worker that runs serves exactly the services
\* the manager believes to be online, and has nothing staged: a failed
\* reload was undone everywhere, a successful one reached everybody.
StableAgreement ==
  pc \in {"idle", "read"} =>
    \A w \in alive :
      /\ Serving(w) = onlineServices
      /\ \A k \in Names : sites[w][k].staged = None

\* Patch i has been sent to worker w in the loop under way.
Sent(i, w) == i < idx \/ (i = idx /\ w < wk)

\* The commit stage relies on prepare: every command still to be sent to a
\* running worker finds the site it needs, with the service of this very
\* reload staged (never one that an earlier, aborted reload left behind),
\* and a Commit finds no service deployed ("handler slot (must be empty)").
CommitReady ==
  pc = "commit" =>
    \A i \in DOMAIN order, w \in alive :
      ~Sent(i, w) =>
        LET k == order[i]
            c == sites[w][k]
        IN CASE Kind(k) = "Insert" -> /\ CanDeploy(c)
                                      /\ c.committed = None
                                      /\ c.staged = newServices[k]
             [] Kind(k) = "Update" -> CanUpdate(c) /\ c.staged = newServices[k]
             [] Kind(k) = "Delete" -> CanRemove(c)

\* The three things the site of k on worker w can be in the course of a
\* reload: as it was, with the new service staged, and as it shall be.
Untouched(w, k) ==
  sites[w][k].committed = onlineServices[k] /\ sites[w][k].staged = None
Prepared(w, k) ==
  /\ newServices[k] # None
  /\ sites[w][k].committed = onlineServices[k]
  /\ sites[w][k].staged = newServices[k]
Switched(w, k) ==
  sites[w][k].committed = newServices[k] /\ sites[w][k].staged = None

\* What a patch needs before its command of the commit stage.
Awaiting(w, k) == IF newServices[k] = None THEN Untouched(w, k) ELSE Prepared(w, k)

\* The inductive invariant behind StableAgreement, CommitReady and the
\* refinement: how far each stage has got on every running worker.
StageInv(w) ==
  /\ pc \in {"idle", "read"} => \A k \in Names : Untouched(w, k)
  /\ pc \in {"prepare", "abort"} =>
       \A k \in Names : Untouched(w, k) \/ Prepared(w, k)
  /\ pc = "prepare" =>
       \A i \in DOMAIN order :
         Sent(i, w) => \/ Awaiting(w, order[i])
                       \/ i = idx /\ result = "err"
  /\ pc = "abort" =>
       \A i \in DOMAIN order : Sent(i, w) => Untouched(w, order[i])
  /\ pc = "commit" =>
       /\ \A k \in Names \ Range(order) : Untouched(w, k)
       /\ \A i \in DOMAIN order :
            IF Sent(i, w)
            THEN \/ Switched(w, order[i])
                 \/ i = idx /\ result = "err"
            ELSE Awaiting(w, order[i])

PatchesInv ==
  pc \in {"prepare", "commit", "abort"} =>
    Range(order) = PatchKeys(onlineServices, newServices)

ListedInv ==
  \A w \in Workers, k \in Names :
    LET c == sites[w][k] IN c.committed # None \/ c.staged # None => c.listed

\* A worker that has died left nothing behind.
GoneInv == \A w \in Workers \ alive : sites[w] = NoSites

IInv ==
  /\ TypeOK
  /\ PatchesInv
  /\ ListedInv
  /\ GoneInv
  /\ \A w \in alive : StageInv(w)

\* What the manager does amounts to a rolling deployment: workers switch one
\* name at a time, always to the configuration being deployed, and only
\* between the end of a prepare that failed nowhere and the moment when every
\* running worker has switched completely.
Phase == CASE pc = "commit" -> "rolling"
           [] pc = "dead"   -> "down"
           [] OTHER         -> "stable"
Goal == CASE pc = "commit" -> newServices
          [] pc = "dead"   -> NoServices
          [] OTHER         -> onlineServices
Served == [w \in Workers |-> Serving(w)]

Rolling == INSTANCE RollingDeploy
             WITH phase <- Phase, up <- alive, served <- Served, goal <- Goal

ImplementsRolling == Rolling!Spec

\* Seen from a worker the manager only ever sends commands: its table changes
\* by what SiteCommands, which ServiceExecutor implements, has a command do to
\* one site, until the thread ends.
Table(w) == INSTANCE SiteCommands WITH table <- sites[w]
WorkersObeyCommands ==
  [][\A w \in Workers : w \in alive' /\ sites[w]' # sites[w] => Table(w)!Next]_vars

\* A reload fails for what it was asked to do, never for what reloads before it
\* have left: a prepare only when a worker is gone or the service that it had
\* got to cannot be made, and a commit (the `expect`, with which the process
\* ends) only when a worker is gone or a site is new and cannot be listened for.
Unbuildable == "err" \in BuildOutcomes[newServices[Key]]
Unbindable == Kind(Key) = "Insert" /\ "err" \in ListenerOutcomes[Key]
FailsForCause ==
  [][/\ PrepareFails => alive # Workers \/ Unbuildable
     /\ CommitFails => alive # Workers \/ Unbindable]_vars

\* The inductive invariant behind it: what an answer that was an error came from.
CauseInv ==
  result = "err" =>
    /\ pc = "prepare" => alive # Workers \/ Unbuildable
    /\ pc = "commit" => alive # Workers \/ Unbindable

\* Nothing about the content can make it fail.
Deployable(c) ==
  /\ Parses(c)
  /\ \A k \in Names : ServicesIn(c)[k] # None =>
       /\ BuildOutcomes[ServicesIn(c)[k]] = {"ok"}
       /\ ListenerOutcomes[k] = {"ok"}

\* A file that is left alone and can be deployed is deployed, whatever was
\* read, half read, refused or aborted before it, provided that no thread died
\* and that reading it succeeds in the end (where there is nothing new to read an
\* error makes no difference).
ReloadConverges ==
  <>[](Deployable(file) /\ alive = Workers) /\ <>[][ReadError => ReadUnchanged]_vars
    => <>[](\A w \in Workers : Serving(w) = ServicesIn(file))

\* The process serves with all of its workers or not at all: if one could not
\* start, which only the answers to commands tell, no worker ever serves anything,
\* though the file may change and files without services are loaded.
Idle == \A w \in Workers : Serving(w) = NoServices
ServesWithAllWorkers == alive # Workers => []Idle

\* The inductive invariant behind it: no patch gets past the worker that is not
\* there.
LoadInv ==
  /\ alive # Workers
  /\ onlineServices = NoServices
  /\ Idle
  /\ pc = "prepare" =>
       /\ idx = 1
       /\ \E w \in Workers \ alive : wk > w => result = "err"
  /\ pc = "commit" => order = <<>>

\* ServiceExecutor promises "careful preparation and validation of the new
\* service before it replaces the existing one, minimizing downtime": nothing
\* the manager does to prepare a reload stops a worker from serving what it
\* serves.
ValidationSparesServing ==
  [][pc = "prepare" /\ Manager => \A w \in Workers : Serving(w)' = Serving(w)]_vars
============================================================================
