------------------------ MODULE ServiceExecutorProofs ------------------------
(***************************************************************************)
(* Proofs about ServiceExecutor, for any number of sites, services, loops  *)
(* and connections.  IInv is inductive; it says of every action what       *)
(* becomes of the owner of each slot and of the service in it.             *)
(***************************************************************************)
EXTENDS ServiceExecutor, TLAPS

(***************************************************************************)
(* Types.                                                                  *)
(***************************************************************************)

\* The operations on a site yield sites.
LEMMA SiteOps ==
  ASSUME NEW c \in Site
  PROVE  /\ \A s \in Services : PrecommitSvc(c, s) \in Site
         /\ AbortPrecommit(c) \in Site
         /\ RemoveSite(c) \in Site
         /\ [c EXCEPT !.staged = None] \in Site
<1>1. \A s \in Services : PrecommitSvc(c, s) \in Site
  BY DEF Site, PrecommitSvc
<1>2. AbortPrecommit(c) \in Site /\ [c EXCEPT !.staged = None] \in Site
  BY DEF Site, AbortPrecommit
<1>3. RemoveSite(c) \in Site
  BY DEF Site, RemoveSite, Absent
<1> QED
  BY <1>1, <1>2, <1>3

\* Deploying service s at site n, spelled out.
Deploys(n, s, l) ==
  /\ l \in Slots \ running
  /\ table' = [table EXCEPT ![n] = [listed |-> TRUE, committed |-> l, staged |-> None]]
  /\ slot' = [slot EXCEPT ![l] = s]
  /\ running' = running \cup {l}
  /\ stopped' = stopped \cup ({table[n].committed} \ {None})
  /\ origin' = [origin EXCEPT ![n] = None]

\* TypeOK is inductive.
LEMMA TypeStep ==
  ASSUME TypeOK, [Next]_vars
  PROVE  TypeOK'
<1> USE DEF TypeOK
<1>1. Idle \in [at: {"recv", "make", "bind", "makeAlone", "bindMade"},
                name: Names \cup {None}, svc: Services \cup {None}]
  BY DEF Idle
<1>2. ASSUME NEW n \in Names, Precommit(n) \/ Commit(n) \/ PrepareAndCommit(n)
      PROVE  TypeOK'
  <2>1. Deployed(n) \in Services \cup {None}
    BY DEF Deployed, Site
  <2>2. PICK at \in {"make", "bind", "makeAlone"}, s \in Services \cup {None} : Await(at, n, s)
    BY <1>2, <2>1 DEF Precommit, Commit, PrepareAndCommit
  <2> QED
    BY <2>2, ExecutorAssumption DEF Await
<1>3. ASSUME NEW n \in Names, Update(n)
      PROVE  TypeOK'
  <2>1. table[n] \in Site /\ table[n].committed \in Slots /\ table[n].staged \in Services
    BY <1>3 DEF Update, CanUpdate, Site
  <2>2. [table[n] EXCEPT !.staged = None] \in Site
    BY <2>1, SiteOps
  <2> QED
    BY <1>3, <2>1, <2>2 DEF Update, SetSite, SetOrigin
<1>4. ASSUME NEW n \in Names, Abort(n)
      PROVE  TypeOK'
  BY <1>4, SiteOps DEF Abort, SetSite, SetOrigin
<1>5. ASSUME NEW n \in Names, Remove(n)
      PROVE  TypeOK'
  <2>1. RemoveSite(table[n]) \in Site /\ table[n].committed \in Slots \cup {None}
    BY SiteOps DEF Site
  <2> QED
    BY <1>5, <2>1 DEF Remove, SetSite, SetOrigin, DropSlot
<1>6. ASSUME NEW n \in Names, NEW s \in Services \cup {None}, Serve(n, s),
             cmd' = Idle, UNCHANGED conns
      PROVE  TypeOK'
  <2>1. PICK l \in Slots : Deploys(n, s, l)
    BY <1>6 DEF Serve, SetSite, SetOrigin, DropSlot, Deploys
  <2>2. [listed |-> TRUE, committed |-> l, staged |-> None] \in Site
    BY DEF Site
  <2>3. table[n].committed \in Slots \cup {None}
    BY DEF Site
  <2> QED
    BY <1>1, <1>6, <2>1, <2>2, <2>3 DEF Deploys, Idle
<1>7. CASE PrecommitMade
  <2>1. cmd.name \in Names /\ cmd.svc \in Services \cup {None}
    BY <1>7 DEF PrecommitMade
  <2>2. PICK s \in Services : SetSite(cmd.name, PrecommitSvc(table[cmd.name], s))
    BY <1>7 DEF PrecommitMade, New
  <2>3. PrecommitSvc(table[cmd.name], s) \in Site
    BY <2>1, SiteOps
  <2> QED
    BY <1>1, <1>7, <2>1, <2>2, <2>3 DEF PrecommitMade, SetSite, SetOrigin, Answer, Idle
<1>8. CASE MakeFails \/ BindFails
  BY <1>1, <1>8 DEF MakeFails, BindFails, Answer, Idle
<1>9. CASE CommitBound
  <2>1. cmd.name \in Names
    BY <1>9 DEF CommitBound
  <2>2. table[cmd.name].staged \in Services \cup {None}
    BY <2>1 DEF Site
  <2> QED
    BY <1>1, <1>6, <1>9, <2>1, <2>2 DEF CommitBound, Answer, Idle
<1>10. CASE PreparedAlone
  BY <1>10 DEF PreparedAlone, New
<1>11. CASE PreparedBound
  <2>1. cmd.name \in Names
    BY <1>11 DEF PreparedBound
  <2> QED
    BY <1>6, <1>11, <2>1 DEF PreparedBound, Answer
<1>12. CASE Connections
  BY <1>12 DEF Connections, Close, Accept
<1>13. CASE \E l \in Slots : LoopStops(l)
  BY <1>13 DEF LoopStops
<1>14. CASE UNCHANGED vars
  BY <1>14 DEF vars
<1> QED
  BY <1>2, <1>3, <1>4, <1>5, <1>7, <1>8, <1>9, <1>10, <1>11, <1>12, <1>13, <1>14
     DEF Next, Receive, Resume

\* The variables keep their types.
THEOREM TypeCorrect == Spec => []TypeOK
<1>1. Init => TypeOK
  BY DEF Init, TypeOK, Site, Absent, Idle
<1> QED
  BY <1>1, TypeStep, PTL DEF Spec

(***************************************************************************)
(* What a step does to the sites and the loops.                            *)
(***************************************************************************)

siteVars == <<table, slot, running, stopped, origin>>

\* A service is staged at site n, or what is staged there is dropped.
Restages(n, s, o) ==
  /\ \E c \in Site : /\ c.committed = table[n].committed
                     /\ c.staged = s
                     /\ table' = [table EXCEPT ![n] = c]
  /\ origin' = [origin EXCEPT ![n] = o]
  /\ UNCHANGED <<slot, running, stopped>>

Step ==
  \/ UNCHANGED siteVars
  \/ \E n \in Names : Restages(n, None, None)
  \/ \E s \in Services : cmd.name \in Names /\ cmd.at = "make"
                         /\ Restages(cmd.name, s, cmd.svc)
  \/ \E n \in Names, s \in Services, l \in Slots : Deploys(n, s, l)
  \/ \E n \in Names : Update(n) \/ Remove(n)
  \/ \E l \in Slots : LoopStops(l)

LEMMA Effects ==
  ASSUME TypeOK, LoopsHoldServices, [Next]_vars
  PROVE  Step
<1> USE DEF TypeOK
<1>1. ASSUME NEW n \in Names, Precommit(n) \/ Commit(n) \/ PrepareAndCommit(n)
      PROVE  Step
  BY <1>1 DEF Precommit, Commit, PrepareAndCommit, Await, Step, siteVars
<1>2. ASSUME NEW n \in Names, Update(n) \/ Remove(n)
      PROVE  Step
  BY <1>2 DEF Step
<1>3. ASSUME NEW n \in Names, Abort(n)
      PROVE  Step
  <2>1. /\ AbortPrecommit(table[n]) \in Site
        /\ AbortPrecommit(table[n]).committed = table[n].committed
        /\ AbortPrecommit(table[n]).staged = None
    BY DEF AbortPrecommit, Site
  <2>2. Restages(n, None, None)
    BY <1>3, <2>1 DEF Abort, SetSite, SetOrigin, Restages
  <2> QED
    BY <2>2 DEF Step
<1>4. CASE PrecommitMade
  <2>1. cmd.name \in Names /\ cmd.at = "make"
    BY <1>4 DEF PrecommitMade
  <2>2. PICK s \in Services : SetSite(cmd.name, PrecommitSvc(table[cmd.name], s))
    BY <1>4 DEF PrecommitMade, New
  <2>3. /\ PrecommitSvc(table[cmd.name], s) \in Site
        /\ PrecommitSvc(table[cmd.name], s).committed = table[cmd.name].committed
        /\ PrecommitSvc(table[cmd.name], s).staged = s
    BY <2>1 DEF PrecommitSvc, Site
  <2>4. Restages(cmd.name, s, cmd.svc)
    BY <1>4, <2>2, <2>3 DEF PrecommitMade, SetSite, SetOrigin, Restages
  <2> QED
    BY <2>1, <2>4 DEF Step
<1>5. ASSUME NEW n \in Names, NEW s \in Services, Serve(n, s)
      PROVE  Step
  <2>1. PICK l \in Slots : Deploys(n, s, l)
    BY <1>5 DEF Serve, SetSite, SetOrigin, DropSlot, Deploys
  <2> QED
    BY <2>1 DEF Step
<1>6. CASE CommitBound
  <2>1. cmd.name \in Names
    BY <1>6 DEF CommitBound
  <2>2. CASE CanDeploy(table[cmd.name])
    <3>1. table[cmd.name].staged \in Services
      BY <2>1, <2>2 DEF CanDeploy, Site
    <3> QED
      BY <1>5, <1>6, <2>1, <2>2, <3>1 DEF CommitBound
  <2>3. CASE ~CanDeploy(table[cmd.name])
    BY <1>6, <2>3 DEF CommitBound, Step, siteVars
  <2> QED
    BY <2>2, <2>3
<1>7. CASE PreparedBound
  <2>1. cmd.name \in Names /\ cmd.svc \in Services
    BY <1>7 DEF PreparedBound, LoopsHoldServices
  <2> QED
    BY <1>5, <1>7, <2>1 DEF PreparedBound
<1>8. CASE MakeFails \/ BindFails \/ PreparedAlone
  BY <1>8 DEF MakeFails, BindFails, PreparedAlone, Step, siteVars
<1>9. CASE Connections
  BY <1>9 DEF Connections, Close, Accept, Step, siteVars
<1>10. CASE \E l \in Slots : LoopStops(l)
  BY <1>10 DEF Step
<1>11. CASE UNCHANGED vars
  BY <1>11 DEF vars, Step, siteVars
<1> QED
  BY <1>1, <1>2, <1>3, <1>4, <1>6, <1>7, <1>8, <1>9, <1>10, <1>11
     DEF Next, Receive, Resume

\* The owner of every slot after a step that changes one site.
LEMMA Owners ==
  ASSUME TypeOK, NEW n \in Names, NEW c, table' = [table EXCEPT ![n] = c]
  PROVE  /\ table'[n] = c
         /\ \A m \in Names : m # n => table'[m] = table[m]
BY DEF TypeOK

\* The sites and their loops stay matched.
LEMMA MatchStep ==
  ASSUME TypeOK, LoopsMatchSites, Step
  PROVE  LoopsMatchSites'
<1> USE ExecutorAssumption
<1>1. CASE UNCHANGED siteVars
  BY <1>1 DEF siteVars, LoopsMatchSites, Owns
<1>2. ASSUME NEW n \in Names, NEW s, NEW o, Restages(n, s, o)
      PROVE  LoopsMatchSites'
  <2>1. \A m \in Names : table'[m].committed = table[m].committed
    BY <1>2, Owners DEF Restages, TypeOK
  <2> QED
    BY <1>2, <2>1 DEF Restages, LoopsMatchSites, Owns
<1>3. ASSUME NEW n \in Names, NEW s \in Services, NEW l \in Slots, Deploys(n, s, l)
      PROVE  LoopsMatchSites'
  <2> DEFINE old == table[n].committed
  <2>1. /\ table'[n].committed = l
        /\ \A m \in Names : m # n => table'[m] = table[m]
        /\ old \in Slots \cup {None}
        /\ l \notin running /\ l \notin stopped
    BY <1>3, Owners DEF Deploys, LoopsMatchSites, TypeOK, Site
  <2>2. \A m \in Names : table[m].committed # None => table[m].committed \in running \ stopped
    BY DEF LoopsMatchSites, Owns, TypeOK, Site
  <2>3. stopped' \subseteq running'
    BY <1>3, <2>1, <2>2 DEF Deploys, LoopsMatchSites
  <2>4. ASSUME NEW x \in Slots
        PROVE  x \in (running \ stopped)' <=> \E m \in Names : Owns(m, x)'
    <3>1. CASE x = l
      BY <1>3, <2>1, <2>2, <3>1 DEF Deploys, Owns
    <3>2. CASE x # l /\ x = old
      BY <1>3, <2>1, <3>2 DEF Deploys, Owns, LoopsMatchSites
    <3>3. CASE x # l /\ x # old
      BY <1>3, <2>1, <3>3 DEF Deploys, Owns, LoopsMatchSites
    <3> QED
      BY <3>1, <3>2, <3>3
  <2>5. ASSUME NEW m \in Names, NEW k \in Names, table'[m].committed # None,
               table'[k].committed = table'[m].committed
        PROVE  m = k
    BY <2>1, <2>2, <2>5 DEF LoopsMatchSites, Owns
  <2> QED
    BY <2>3, <2>4, <2>5 DEF LoopsMatchSites, Owns
<1>4. ASSUME NEW n \in Names, Update(n)
      PROVE  LoopsMatchSites'
  <2>1. \A m \in Names : table'[m].committed = table[m].committed
    BY <1>4 DEF Update, SetSite, TypeOK, Site
  <2> QED
    BY <1>4, <2>1 DEF Update, LoopsMatchSites, Owns
<1>5. ASSUME NEW n \in Names, Remove(n)
      PROVE  LoopsMatchSites'
  <2> DEFINE old == table[n].committed
  <2>1. /\ table'[n].committed = None
        /\ \A m \in Names : m # n => table'[m] = table[m]
        /\ old \in Slots \cup {None}
    BY <1>5, Owners DEF Remove, SetSite, RemoveSite, Absent, TypeOK, Site
  <2>2. /\ running' = running
        /\ stopped' = stopped \cup ({old} \ {None})
    BY <1>5 DEF Remove, DropSlot
  <2>3. old # None => old \in running
    BY <2>1 DEF LoopsMatchSites, Owns
  <2>4. ASSUME NEW x \in Slots
        PROVE  x \in (running \ stopped)' <=> \E m \in Names : Owns(m, x)'
    BY <2>1, <2>2 DEF Owns, LoopsMatchSites
  <2> QED
    BY <2>1, <2>2, <2>3, <2>4 DEF LoopsMatchSites, Owns
<1>6. ASSUME NEW l \in Slots, LoopStops(l)
      PROVE  LoopsMatchSites'
  BY <1>6 DEF LoopStops, LoopsMatchSites, Owns
<1> QED
  BY <1>1, <1>2, <1>3, <1>4, <1>5, <1>6 DEF Step

\* The slots that hold a service are those whose loop runs.
LEMMA HoldStep ==
  ASSUME TypeOK, LoopsMatchSites, LoopsHoldServices, [Next]_vars
  PROVE  LoopsHoldServices'
<1> USE NoneAssumption
<1>0. Step
  BY Effects
<1>1. \A l \in Slots : l \in running' <=> slot'[l] # None
  <2>1. CASE UNCHANGED siteVars \/ (\E n \in Names : \E s, o : Restages(n, s, o))
    BY <2>1 DEF siteVars, Restages, LoopsHoldServices
  <2>2. ASSUME NEW n \in Names, NEW s \in Services, NEW l \in Slots, Deploys(n, s, l)
        PROVE  \A x \in Slots : x \in running' <=> slot'[x] # None
    BY <2>2 DEF Deploys, LoopsHoldServices, TypeOK
  <2>3. ASSUME NEW n \in Names, Update(n)
        PROVE  \A x \in Slots : x \in running' <=> slot'[x] # None
    <3>1. /\ table[n].committed \in running
          /\ table[n].staged # None
      BY <2>3 DEF Update, CanUpdate, LoopsMatchSites, Owns, TypeOK, Site
    <3> QED
      BY <2>3, <3>1 DEF Update, LoopsHoldServices, TypeOK
  <2>4. ASSUME NEW n \in Names, Remove(n)
        PROVE  \A x \in Slots : x \in running' <=> slot'[x] # None
    BY <2>4 DEF Remove, LoopsHoldServices
  <2>5. ASSUME NEW l \in Slots, LoopStops(l)
        PROVE  \A x \in Slots : x \in running' <=> slot'[x] # None
    BY <2>5 DEF LoopStops, LoopsHoldServices, TypeOK
  <2> QED
    BY <1>0, <2>1, <2>2, <2>3, <2>4, <2>5 DEF Step
<1>2. cmd'.at = "bindMade" => cmd'.svc # None
  <2>1. CASE PreparedAlone
    BY <2>1 DEF PreparedAlone, New, TypeOK
  <2>2. CASE cmd' = cmd
    BY <2>2 DEF LoopsHoldServices
  <2>3. CASE cmd' = Idle
    BY <2>3 DEF Idle
  <2>4. ASSUME NEW n \in Names, Precommit(n) \/ Commit(n) \/ PrepareAndCommit(n)
        PROVE  cmd'.at # "bindMade"
    BY <2>4 DEF Precommit, Commit, PrepareAndCommit, Await
  <2> QED
    BY <2>1, <2>2, <2>3, <2>4
       DEF Next, Receive, Resume, Connections, Update, Abort, Remove, PrecommitMade,
           MakeFails, CommitBound, BindFails, PreparedBound, Answer, Accept, Close,
           LoopStops, vars
<1> QED
  BY <1>1, <1>2 DEF LoopsHoldServices

\* The service deployed at a site changes only with that site: its slot is
\* nobody else's, and its loop has not been told to stop.
LEMMA DeployedFrame ==
  ASSUME TypeOK, LoopsMatchSites, NEW m \in Names, table'[m].committed = table[m].committed,
         NEW l \in Slots, table[m].committed # l, NEW s,
         slot' = [slot EXCEPT ![l] = s]
  PROVE  Deployed(m)' = Deployed(m)
<1>1. table[m].committed \in Slots \cup {None}
  BY DEF TypeOK, Site
<1> QED
  BY <1>1 DEF Deployed, TypeOK

\* Nobody owns a slot whose loop has been told to stop, or does not run.
LEMMA Unowned ==
  ASSUME LoopsMatchSites, NEW l \in Slots, l \notin running \/ l \in stopped,
         NEW m \in Names
  PROVE  table[m].committed # l
BY DEF LoopsMatchSites, Owns


\* Steps that leave the deployed services alone.
LEMMA DeployedSame ==
  ASSUME TypeOK, LoopsMatchSites,
         \/ UNCHANGED siteVars
         \/ \E n \in Names : \E s, o : Restages(n, s, o)
         \/ \E l \in Slots : LoopStops(l)
  PROVE  \A m \in Names : Deployed(m)' = Deployed(m)
<1>1. CASE UNCHANGED siteVars
  BY <1>1 DEF siteVars, Deployed
<1>2. ASSUME NEW n \in Names, NEW s, NEW o, Restages(n, s, o)
      PROVE  \A m \in Names : Deployed(m)' = Deployed(m)
  <2>1. \A m \in Names : table'[m].committed = table[m].committed
    BY <1>2, Owners DEF Restages, TypeOK
  <2> QED
    BY <1>2, <2>1 DEF Restages, Deployed
<1>3. ASSUME NEW l \in Slots, LoopStops(l)
      PROVE  \A m \in Names : Deployed(m)' = Deployed(m)
  <2>1. table' = table /\ slot' = [slot EXCEPT ![l] = None]
    BY <1>3 DEF LoopStops
  <2>2. \A m \in Names : table[m].committed # l
    BY <1>3, Unowned DEF LoopStops
  <2> QED
    BY <2>1, <2>2, DeployedFrame
<1> QED
  BY <1>1, <1>2, <1>3

\* Steps that deploy, replace or remove the service of one site.
LEMMA DeployedElsewhere ==
  ASSUME TypeOK, LoopsMatchSites, NEW n \in Names,
         \/ Update(n) \/ Remove(n)
         \/ \E s \in Services, l \in Slots : Deploys(n, s, l)
  PROVE  /\ table'[n].staged = None
         /\ \A m \in Names : m # n =>
              Deployed(m)' = Deployed(m) /\ table'[m] = table[m] /\ origin'[m] = origin[m]
<1> USE ExecutorAssumption
<1>1. ASSUME NEW s \in Services, NEW l \in Slots, Deploys(n, s, l)
      PROVE  /\ table'[n].staged = None
             /\ \A m \in Names : m # n =>
                  Deployed(m)' = Deployed(m) /\ table'[m] = table[m] /\ origin'[m] = origin[m]
  <2>1. table'[n].staged = None /\ \A m \in Names : m # n => table'[m] = table[m]
    BY <1>1 DEF Deploys, TypeOK
  <2>2. \A m \in Names : table[m].committed # l
    BY <1>1, Unowned DEF Deploys
  <2>3. slot' = [slot EXCEPT ![l] = s] /\ \A m \in Names : m # n => origin'[m] = origin[m]
    BY <1>1 DEF Deploys, TypeOK
  <2> QED
    BY <2>1, <2>2, <2>3, DeployedFrame
<1>2. CASE Update(n)
  <2>1. table'[n].staged = None /\ \A m \in Names : m # n => table'[m] = table[m]
    BY <1>2 DEF Update, SetSite, TypeOK, Site
  <2>2. /\ table[n].committed \in Slots /\ table[n].committed # None
        /\ slot' = [slot EXCEPT ![table[n].committed] = table[n].staged]
    BY <1>2 DEF Update, CanUpdate, TypeOK, Site
  <2>3. \A m \in Names : m # n => table[m].committed # table[n].committed
    BY <2>2 DEF LoopsMatchSites, Owns
  <2>4. \A m \in Names : m # n => origin'[m] = origin[m]
    BY <1>2 DEF Update, SetOrigin, TypeOK
  <2> QED
    BY <2>1, <2>2, <2>3, <2>4, DeployedFrame
<1>3. CASE Remove(n)
  <2>1. table'[n].staged = None /\ \A m \in Names : m # n => table'[m] = table[m]
    BY <1>3 DEF Remove, SetSite, RemoveSite, Absent, TypeOK
  <2>2. slot' = slot /\ \A m \in Names : m # n => origin'[m] = origin[m]
    BY <1>3 DEF Remove, SetOrigin, TypeOK
  <2> QED
    BY <2>1, <2>2 DEF Deployed
<1> QED
  BY <1>1, <1>2, <1>3

\* What is staged was made from what is deployed.
LEMMA StagedStep ==
  ASSUME TypeOK, LoopsMatchSites, StagedFromCurrent, MakingFromCurrent, Step
  PROVE  StagedFromCurrent'
<1>1. CASE UNCHANGED siteVars
  BY <1>1, DeployedSame DEF siteVars, StagedFromCurrent
<1>2. ASSUME NEW n \in Names, Restages(n, None, None)
      PROVE  StagedFromCurrent'
  <2>1. /\ table'[n].staged = None
        /\ \A m \in Names : m # n => table'[m] = table[m] /\ origin'[m] = origin[m]
    BY <1>2, Owners DEF Restages, TypeOK
  <2>2. \A m \in Names : Deployed(m)' = Deployed(m)
    BY <1>2, DeployedSame
  <2> QED
    BY <2>1, <2>2 DEF StagedFromCurrent
<1>3. ASSUME NEW s \in Services, NEW n \in Names, n = cmd.name, cmd.at = "make",
             Restages(n, s, cmd.svc)
      PROVE  StagedFromCurrent'
  <2>1. /\ origin'[n] = cmd.svc
        /\ \A m \in Names : m # n => table'[m] = table[m] /\ origin'[m] = origin[m]
    BY <1>3, Owners DEF Restages, TypeOK
  <2>2. \A m \in Names : Deployed(m)' = Deployed(m)
    BY <1>3, DeployedSame
  <2>3. cmd.svc = Deployed(n)
    BY <1>3 DEF MakingFromCurrent
  <2> QED
    BY <2>1, <2>2, <2>3 DEF StagedFromCurrent
<1>4. ASSUME NEW n \in Names,
             \/ Update(n) \/ Remove(n)
             \/ \E s \in Services, l \in Slots : Deploys(n, s, l)
      PROVE  StagedFromCurrent'
  <2>1. /\ table'[n].staged = None
        /\ \A m \in Names : m # n =>
             Deployed(m)' = Deployed(m) /\ table'[m] = table[m] /\ origin'[m] = origin[m]
    BY <1>4, DeployedElsewhere
  <2> QED
    BY <2>1 DEF StagedFromCurrent
<1>5. ASSUME NEW l \in Slots, LoopStops(l)
      PROVE  StagedFromCurrent'
  <2>1. \A m \in Names : Deployed(m)' = Deployed(m)
    BY <1>5, DeployedSame
  <2> QED
    BY <1>5, <2>1 DEF LoopStops, StagedFromCurrent
<1> QED
  BY <1>1, <1>2, <1>3, <1>4, <1>5 DEF Step

\* While a Precommit awaits its factory, no other command runs.
LEMMA MakingStep ==
  ASSUME TypeOK, LoopsMatchSites, MakingFromCurrent, [Next]_vars
  PROVE  MakingFromCurrent'
<1>1. ASSUME NEW n \in Names, Precommit(n)
      PROVE  MakingFromCurrent'
  <2>1. cmd' = [at |-> "make", name |-> n, svc |-> Deployed(n)] /\ UNCHANGED siteVars
    BY <1>1 DEF Precommit, Await, siteVars
  <2>2. Deployed(n)' = Deployed(n)
    BY <2>1, DeployedSame
  <2>3. cmd'.name = n /\ cmd'.svc = Deployed(n)'
    BY <2>1, <2>2
  <2> QED
    BY <2>1, <2>3 DEF MakingFromCurrent, Deployed, siteVars
<1>2. CASE cmd'.at # "make"
  BY <1>2 DEF MakingFromCurrent
<1>3. ASSUME cmd' = cmd, cmd.at = "make", \A m \in Names : Deployed(m)' = Deployed(m)
      PROVE  MakingFromCurrent'
  <2>1. cmd.name \in Names
    BY <1>3 DEF TypeOK
  <2>2. cmd.svc = Deployed(cmd.name)'
    BY <1>3, <2>1 DEF MakingFromCurrent
  <2> QED
    BY <1>3, <2>2 DEF MakingFromCurrent, Deployed
<1>4. ASSUME NEW n \in Names,
             Commit(n) \/ PrepareAndCommit(n) \/ Update(n) \/ Abort(n) \/ Remove(n)
      PROVE  MakingFromCurrent'
  <2>1. CASE Commit(n) \/ PrepareAndCommit(n)
    BY <1>2, <2>1 DEF Commit, PrepareAndCommit, Await
  <2>2. CASE Update(n) \/ Abort(n) \/ Remove(n)
    <3>1. cmd = Idle /\ cmd' = cmd
      BY <2>2 DEF Update, Abort, Remove
    <3> QED
      BY <1>2, <3>1 DEF Idle
  <2> QED
    BY <1>4, <2>1, <2>2
<1>7. CASE Resume
  <2>1. CASE PreparedAlone
    BY <1>2, <2>1 DEF PreparedAlone, TypeOK
  <2>2. CASE PrecommitMade \/ MakeFails \/ CommitBound \/ BindFails \/ PreparedBound
    <3>1. cmd' = Idle
      BY <2>2 DEF PrecommitMade, MakeFails, CommitBound, BindFails, PreparedBound, Answer
    <3> QED
      BY <1>2, <3>1 DEF Idle
  <2> QED
    BY <1>7, <2>1, <2>2 DEF Resume
<1>5. CASE Connections \/ UNCHANGED vars
  <2>1. cmd' = cmd /\ UNCHANGED siteVars
    BY <1>5 DEF Connections, Close, Accept, vars, siteVars
  <2> QED
    BY <1>2, <1>3, <2>1, DeployedSame
<1>6. ASSUME NEW l \in Slots, LoopStops(l)
      PROVE  MakingFromCurrent'
  <2>1. cmd' = cmd /\ \A m \in Names : Deployed(m)' = Deployed(m)
    BY <1>6, DeployedSame DEF LoopStops
  <2> QED
    BY <1>2, <1>3, <2>1
<1> QED
  BY <1>1, <1>4, <1>5, <1>6, <1>7 DEF Next, Receive

(***************************************************************************)
(* The invariant, and what follows from it.                                *)
(***************************************************************************)

\* IInv holds in every state a worker reaches.
THEOREM InvariantCorrect == Spec => []IInv
<1>1. Init => IInv
  <2> SUFFICES ASSUME Init
               PROVE  IInv
    OBVIOUS
  <2>1. TypeOK
    BY DEF Init, TypeOK, Site, Absent, Idle
  <2>2. LoopsMatchSites
    BY ExecutorAssumption DEF Init, LoopsMatchSites, Owns, Absent
  <2>3. StagedFromCurrent /\ MakingFromCurrent /\ LoopsHoldServices
    BY DEF Init, StagedFromCurrent, MakingFromCurrent, LoopsHoldServices, Absent, Idle
  <2> QED
    BY <2>1, <2>2, <2>3 DEF IInv
<1>2. IInv /\ [Next]_vars => IInv'
  <2> SUFFICES ASSUME IInv, [Next]_vars
               PROVE  IInv'
    OBVIOUS
  <2>1. /\ TypeOK /\ LoopsMatchSites /\ LoopsHoldServices
        /\ StagedFromCurrent /\ MakingFromCurrent
    BY DEF IInv
  <2>2. Step
    BY <2>1, Effects
  <2> QED
    BY <2>1, <2>2, TypeStep, MatchStep, HoldStep, StagedStep, MakingStep DEF IInv
<1> QED
  BY <1>1, <1>2, PTL DEF Spec

\* Every site that is deployed has exactly one loop that accepts for it, and
\* no other loop goes on accepting.
THEOREM LoopsAreMatched == Spec => []LoopsMatchSites
<1>1. IInv => LoopsMatchSites
  BY DEF IInv
<1> QED
  BY <1>1, InvariantCorrect, PTL

\* State is transferred from the service that will be replaced.
THEOREM TransfersCurrentState == Spec => []StagedFromCurrent
<1>1. IInv => StagedFromCurrent
  BY DEF IInv
<1> QED
  BY <1>1, InvariantCorrect, PTL

\* New connections get the service deployed at the moment they are accepted.
THEOREM LatestServiceServes == Spec => NewConnectionsUseLatest
<1> DEFINE Latest == \A c \in Conns : conns[c] = None /\ conns'[c] # None =>
                       \/ \E n \in Names : conns'[c] = Deployed(n)
                       \/ \E l \in stopped : conns'[c] = slot[l]
<1>1. IInv /\ [Next]_vars => [Latest]_vars
  <2> SUFFICES ASSUME IInv, [Next]_vars, NEW c \in Conns,
                      conns[c] = None, conns'[c] # None
               PROVE  \/ \E n \in Names : conns'[c] = Deployed(n)
                      \/ \E l \in stopped : conns'[c] = slot[l]
    OBVIOUS
  <2>1. PICK l \in Slots, d \in Conns : Accept(l, d)
    BY DEF Next, Receive, Resume, Connections, Precommit, Commit, PrepareAndCommit, Await,
           Update, Abort, Remove, PrecommitMade, MakeFails, CommitBound, BindFails,
           PreparedAlone, PreparedBound, Close, LoopStops, vars, IInv, TypeOK
  <2>2. conns'[c] = slot[l] /\ l \in running
    BY <2>1 DEF Accept, IInv, TypeOK
  <2>3. CASE l \notin stopped
    <3>1. PICK n \in Names : table[n].committed = l
      BY <2>2, <2>3 DEF IInv, LoopsMatchSites, Owns
    <3>2. Deployed(n) = slot[l]
      BY <3>1, ExecutorAssumption DEF Deployed
    <3> QED
      BY <2>2, <3>2
  <2> QED
    BY <2>2, <2>3
<1> QED
  BY <1>1, InvariantCorrect, PTL DEF Spec, NewConnectionsUseLatest

(***************************************************************************)
(* The executor implements atomic commands.                                *)
(***************************************************************************)

\* Two containers with the same fields are the same.
LEMMA SameContainer ==
  ASSUME NEW c \in Container, NEW d \in Container,
         c.listed = d.listed, c.committed = d.committed, c.staged = d.staged
  PROVE  c = d
BY DEF Container

\* What the view shows of a site.
LEMMA ViewType ==
  ASSUME TypeOK, NEW n \in Names
  PROVE  /\ View[n] \in Container
         /\ View[n].listed = table[n].listed
         /\ View[n].committed = Deployed(n)
         /\ View[n].staged = table[n].staged
<1>1. Deployed(n) \in Services \cup {None}
  BY DEF Deployed, TypeOK, Site
<1>2. table[n] \in Site
  BY DEF TypeOK
<1> QED
  BY <1>1, <1>2 DEF View, Container, Site

\* A step that changes one site is a change of that site in the view.
LEMMA ViewStep ==
  ASSUME TypeOK, TypeOK', NEW n \in Names, NEW c \in Container,
         c.listed = table'[n].listed, c.committed = Deployed(n)', c.staged = table'[n].staged,
         \A m \in Names : m # n => Deployed(m)' = Deployed(m) /\ table'[m] = table[m]
  PROVE  Commands!Set(n, c)
<1>1. \A m \in Names : m # n => View'[m] = View[m]
  BY DEF View
<1>2. /\ View'[n] \in Container
      /\ View'[n].listed = table'[n].listed
      /\ View'[n].committed = Deployed(n)'
      /\ View'[n].staged = table'[n].staged
  <2>1. Deployed(n)' \in Services \cup {None}
    BY DEF Container
  <2>2. table'[n] \in Site
    BY DEF TypeOK
  <2> QED
    BY <2>1, <2>2 DEF View, Container, Site
<1>3. View'[n] = c
  BY <1>2, SameContainer
<1>4. View' = [m \in Names |-> View'[m]] /\ View = [m \in Names |-> View[m]]
  BY DEF View
<1> QED
  BY <1>1, <1>3, <1>4 DEF Commands!Set

\* Nothing changes in the view.
LEMMA ViewFrame ==
  ASSUME UNCHANGED table, \A m \in Names : Deployed(m)' = Deployed(m)
  PROVE  UNCHANGED View
BY DEF View

\* The abstract commands, field by field.
LEMMA Operations ==
  ASSUME NEW c \in Container, NEW s \in Services
  PROVE  /\ LET d == PrecommitSvc(c, s) IN
              d \in Container /\ d.listed = TRUE /\ d.committed = c.committed /\ d.staged = s
         /\ LET d == DeployStaged(PrecommitSvc(c, s)) IN
              d \in Container /\ d.listed = TRUE /\ d.committed = s /\ d.staged = None
<1>1. PrecommitSvc(c, s) \in Container
  BY DEF PrecommitSvc, Container
<1>2. /\ PrecommitSvc(c, s).listed = TRUE
      /\ PrecommitSvc(c, s).committed = c.committed
      /\ PrecommitSvc(c, s).staged = s
  BY DEF PrecommitSvc, Container
<1>3. \A e \in Container : /\ DeployStaged(e) \in Container
                           /\ DeployStaged(e).listed = e.listed
                           /\ DeployStaged(e).committed = e.staged
                           /\ DeployStaged(e).staged = None
  BY DEF DeployStaged, Container
<1> QED
  BY <1>1, <1>2, <1>3

LEMMA PrecommitStep ==
  ASSUME TypeOK, TypeOK', PrecommitMade
  PROVE  \E n \in Names, s \in Services : Commands!Precommit(n, s)
<1>1. cmd.name \in Names /\ slot' = slot
  BY DEF PrecommitMade, TypeOK
<1>2. PICK s \in Services : SetSite(cmd.name, PrecommitSvc(table[cmd.name], s))
  BY DEF PrecommitMade, New
<1>3. ASSUME NEW n \in Names, n = cmd.name
      PROVE  Commands!Precommit(n, s)
  <2>1. /\ table'[n].listed = TRUE
        /\ table'[n].committed = table[n].committed
        /\ table'[n].staged = s
        /\ \A m \in Names : m # n => table'[m] = table[m]
    BY <1>2, <1>3 DEF SetSite, PrecommitSvc, TypeOK, Site
  <2>2. \A m \in Names : Deployed(m)' = Deployed(m)
    BY <1>1, <2>1 DEF Deployed
  <2> DEFINE d == PrecommitSvc(View[n], s)
  <2>3. d \in Container /\ d.listed = TRUE /\ d.committed = Deployed(n) /\ d.staged = s
    BY ViewType, Operations
  <2> HIDE DEF d
  <2>4. Commands!Set(n, d)
    BY <2>1, <2>2, <2>3, ViewStep
  <2> QED
    BY <2>4 DEF Commands!Precommit, Commands!PrecommitSvc, PrecommitSvc, d
<1> QED
  BY <1>1, <1>3

LEMMA DeployStep ==
  ASSUME TypeOK, TypeOK', LoopsMatchSites,
         NEW n \in Names, NEW s \in Services, NEW l \in Slots, Deploys(n, s, l)
  PROVE  /\ Commands!PrepareAndCommit(n, s)
         /\ table[n].listed /\ table[n].staged = s => Commands!Commit(n)
<1>1. /\ table'[n].listed = TRUE
      /\ table'[n].committed = l
      /\ table'[n].staged = None
      /\ slot'[l] = s
  BY DEF Deploys, TypeOK
<1>2. Deployed(n)' = s
  BY <1>1, ExecutorAssumption DEF Deployed
<1>3. \A m \in Names : m # n => Deployed(m)' = Deployed(m) /\ table'[m] = table[m]
  BY DeployedElsewhere
<1>4. Commands!PrepareAndCommit(n, s)
  <2> DEFINE d == DeployStaged(PrecommitSvc(View[n], s))
  <2>1. d \in Container /\ d.listed = TRUE /\ d.committed = s /\ d.staged = None
    BY ViewType, Operations
  <2> HIDE DEF d
  <2>2. Commands!Set(n, d)
    BY <1>1, <1>2, <1>3, <2>1, ViewStep
  <2> QED
    BY <2>2 DEF Commands!PrepareAndCommit, Commands!PrecommitSvc, PrecommitSvc,
                Commands!DeployStaged, DeployStaged, d
<1>5. ASSUME table[n].listed, table[n].staged = s
      PROVE  Commands!Commit(n)
  <2> DEFINE d == DeployStaged(View[n])
  <2>1. View[n] \in Container /\ View[n].listed = TRUE /\ View[n].staged = s
    BY <1>5, ViewType DEF TypeOK, Site
  <2>2. d \in Container /\ d.listed = TRUE /\ d.committed = s /\ d.staged = None
    BY <2>1 DEF DeployStaged, Container
  <2>3. CanDeploy(View[n])
    BY <2>1, NoneAssumption DEF CanDeploy
  <2> HIDE DEF d
  <2>4. Commands!Set(n, d)
    BY <1>1, <1>2, <1>3, <2>2, ViewStep
  <2> QED
    BY <2>3, <2>4 DEF Commands!Commit, Commands!CanDeploy, CanDeploy,
                      Commands!DeployStaged, DeployStaged, d
<1> QED
  BY <1>4, <1>5

LEMMA UpdateStep ==
  ASSUME TypeOK, TypeOK', LoopsMatchSites, LoopsHoldServices, NEW n \in Names, Update(n)
  PROVE  Commands!Update(n)
<1> DEFINE d == UpdateWithPrecommitted(View[n])
<1>1. /\ table[n].listed /\ table[n].committed \in Slots /\ table[n].committed # None
      /\ table[n].staged \in Services
  BY DEF Update, CanUpdate, TypeOK, Site
<1>2. /\ table'[n].listed = table[n].listed
      /\ table'[n].committed = table[n].committed
      /\ table'[n].staged = None
      /\ slot'[table[n].committed] = table[n].staged
  BY <1>1 DEF Update, SetSite, TypeOK, Site
<1>3. Deployed(n)' = table[n].staged
  BY <1>1, <1>2 DEF Deployed
<1>4. \A m \in Names : m # n => Deployed(m)' = Deployed(m) /\ table'[m] = table[m]
  BY DeployedElsewhere
<1>5. Deployed(n) # None
  <2>1. table[n].committed \in running
    BY <1>1 DEF LoopsMatchSites, Owns
  <2> QED
    BY <1>1, <2>1 DEF LoopsHoldServices, Deployed
<1>6. /\ View[n] \in Container
      /\ View[n].listed = table[n].listed
      /\ View[n].committed = Deployed(n)
      /\ View[n].staged = table[n].staged
  BY ViewType
<1>7. /\ d \in Container /\ d.listed = table[n].listed
      /\ d.committed = table[n].staged /\ d.staged = None
  BY <1>6 DEF UpdateWithPrecommitted, Container
<1>8. CanUpdate(View[n])
  BY <1>1, <1>5, <1>6, NoneAssumption DEF CanUpdate
<1> HIDE DEF d
<1>9. Commands!Set(n, d)
  BY <1>2, <1>3, <1>4, <1>7, ViewStep
<1> QED
  BY <1>8, <1>9 DEF Commands!Update, Commands!CanUpdate, CanUpdate,
                    Commands!UpdateWithPrecommitted, UpdateWithPrecommitted, d

LEMMA AbortStep ==
  ASSUME TypeOK, TypeOK', NEW n \in Names, Abort(n)
  PROVE  Commands!Abort(n)
<1> DEFINE d == AbortPrecommit(View[n])
<1>1. /\ table'[n].listed = table[n].listed
      /\ table'[n].committed = table[n].committed
      /\ table'[n].staged = None
      /\ \A m \in Names : m # n => table'[m] = table[m]
      /\ slot' = slot
      /\ table[n].listed
  BY DEF Abort, SetSite, CanAbort, AbortPrecommit, TypeOK, Site
<1>2. \A m \in Names : Deployed(m)' = Deployed(m)
  BY <1>1 DEF Deployed
<1>3. /\ View[n] \in Container
      /\ View[n].listed = table[n].listed
      /\ View[n].committed = Deployed(n)
  BY ViewType
<1>4. /\ d \in Container /\ d.listed = table[n].listed
      /\ d.committed = Deployed(n) /\ d.staged = None
  BY <1>3 DEF AbortPrecommit, Container
<1>5. CanAbort(View[n])
  BY <1>1, <1>3 DEF CanAbort
<1> HIDE DEF d
<1>6. Commands!Set(n, d)
  BY <1>1, <1>2, <1>4, ViewStep
<1> QED
  BY <1>5, <1>6 DEF Commands!Abort, Commands!CanAbort, CanAbort,
                    Commands!AbortPrecommit, AbortPrecommit, d

LEMMA RemoveStep ==
  ASSUME TypeOK, TypeOK', LoopsMatchSites, NEW n \in Names, Remove(n)
  PROVE  Commands!Remove(n)
<1>1. /\ table'[n] = Absent
      /\ table[n].listed
  BY DEF Remove, SetSite, CanRemove, RemoveSite, TypeOK
<1>2. Deployed(n)' = None
  BY <1>1 DEF Deployed, Absent
<1>3. \A m \in Names : m # n => Deployed(m)' = Deployed(m) /\ table'[m] = table[m]
  BY DeployedElsewhere
<1>4. CanRemove(View[n])
  BY <1>1, ViewType DEF CanRemove
<1>5. Absent \in Container /\ Absent.committed = None
  BY DEF Absent, Container
<1>6. Commands!Set(n, Absent)
  BY <1>1, <1>2, <1>3, <1>5, ViewStep
<1> QED
  BY <1>4, <1>6 DEF Commands!Remove, Commands!CanRemove, CanRemove,
                    Commands!RemoveSite, Commands!Absent, Absent

LEMMA CommandStep ==
  ASSUME IInv, IInv', [Next]_vars
  PROVE  [Commands!Next]_View
<1>0. TypeOK /\ TypeOK' /\ LoopsMatchSites /\ LoopsHoldServices
  BY DEF IInv
<1>1. ASSUME UNCHANGED <<table, slot>>
      PROVE  UNCHANGED View
  BY <1>1, ViewFrame DEF Deployed
<1>2. ASSUME NEW l \in Slots, LoopStops(l)
      PROVE  UNCHANGED View
  BY <1>0, <1>2, DeployedSame, ViewFrame DEF LoopStops
<1>3. CASE PrecommitMade
  BY <1>0, <1>3, PrecommitStep DEF Commands!Next
<1>4. ASSUME NEW n \in Names, Update(n) \/ Abort(n) \/ Remove(n)
      PROVE  Commands!Next
  BY <1>0, <1>4, UpdateStep, AbortStep, RemoveStep DEF Commands!Next
<1>5. CASE CommitBound
  <2>1. cmd.name \in Names
    BY <1>0, <1>5 DEF CommitBound, TypeOK
  <2>2. CASE CanDeploy(table[cmd.name])
    <3>1. table[cmd.name].staged \in Services
      BY <1>0, <2>1, <2>2 DEF CanDeploy, TypeOK, Site
    <3>2. PICK l \in Slots : Deploys(cmd.name, table[cmd.name].staged, l)
      BY <1>5, <2>2 DEF CommitBound, Serve, SetSite, SetOrigin, DropSlot, Deploys
    <3>3. ASSUME NEW n \in Names, n = cmd.name
          PROVE  Commands!Commit(n)
      BY <1>0, <2>2, <3>1, <3>2, <3>3, DeployStep DEF CanDeploy
    <3> QED
      BY <2>1, <3>3 DEF Commands!Next
  <2>3. CASE ~CanDeploy(table[cmd.name])
    BY <1>1, <1>5, <2>3 DEF CommitBound
  <2> QED
    BY <2>2, <2>3
<1>6. CASE PreparedBound
  <2>1. cmd.name \in Names /\ cmd.svc \in Services
    BY <1>0, <1>6 DEF PreparedBound, TypeOK, LoopsHoldServices
  <2>2. PICK l \in Slots : Deploys(cmd.name, cmd.svc, l)
    BY <1>6 DEF PreparedBound, Serve, SetSite, SetOrigin, DropSlot, Deploys
  <2>3. ASSUME NEW n \in Names, n = cmd.name, NEW s \in Services, s = cmd.svc
        PROVE  Commands!PrepareAndCommit(n, s)
    BY <1>0, <2>2, <2>3, DeployStep
  <2> QED
    BY <2>1, <2>3 DEF Commands!Next
<1>7. ASSUME NEW n \in Names, Precommit(n) \/ Commit(n) \/ PrepareAndCommit(n)
      PROVE  UNCHANGED View
  BY <1>1, <1>7 DEF Precommit, Commit, PrepareAndCommit, Await
<1>8. CASE MakeFails \/ BindFails \/ PreparedAlone
  BY <1>1, <1>8 DEF MakeFails, BindFails, PreparedAlone
<1>9. CASE Connections \/ UNCHANGED vars
  BY <1>1, <1>9 DEF Connections, Close, Accept, vars
<1> QED
  BY <1>2, <1>3, <1>4, <1>5, <1>6, <1>7, <1>8, <1>9 DEF Next, Receive, Resume

\* The commands of a worker, with their awaits and shared slots, are atomic
\* operations on the sites as the manager sees them.
THEOREM ExecutorRefinesCommands == Spec => ImplementsCommands
<1>1. Init => Commands!Init
  BY DEF Init, Commands!Init, View, Deployed, Absent, Commands!Absent
<1>2. IInv /\ IInv' /\ [Next]_vars => [Commands!Next]_View
  BY CommandStep
<1> QED
  BY <1>1, <1>2, InvariantCorrect, PTL DEF Spec, ImplementsCommands, Commands!Spec
=============================================================================
