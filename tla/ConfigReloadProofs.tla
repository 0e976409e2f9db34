------------------------- MODULE ConfigReloadProofs -------------------------
(***************************************************************************)
(* Proofs about ConfigReload, for any number of workers, any finite set of *)
(* names and any outcome of building services and binding listeners; and   *)
(* about what SiteFactory makes those outcomes be.                          *)
(***************************************************************************)
EXTENDS ConfigReload, SiteFactory, FiniteSetTheorems, WellFoundedInduction, TLAPS

(***************************************************************************)
(* Facts about the helpers.                                                *)
(***************************************************************************)

\* A content that parses yields a map from names to server configurations.
LEMMA ServicesInType ==
  ASSUME NEW c \in Content, Parses(c)
  PROVE  ServicesIn(c) \in ServiceMap
<1> DEFINE Defines(i, k) == i \in DOMAIN c /\ c[i] # Header /\ c[i].key = k
<1>1. ASSUME NEW k \in Names, NEW i, Defines(i, k)
      PROVE  c[i].cfg \in Services
  <2>1. c[i] \in Line /\ c[i] # Garbage
    BY <1>1 DEF Content, Parses
  <2> QED
    BY <1>1, <2>1 DEF Line
<1>2. ASSUME NEW k \in Names
      PROVE  ServicesIn(c)[k] \in Services \cup {None}
  <2>1. CASE \E i \in DOMAIN c : c[i] # Header /\ c[i].key = k
    <3> DEFINE i == CHOOSE i \in DOMAIN c : c[i] # Header /\ c[i].key = k
    <3>1. Defines(i, k)
      BY <2>1
    <3>2. c[i].cfg \in Services
      BY <1>1, <3>1
    <3> QED
      BY <2>1, <3>2 DEF ServicesIn
  <2>2. CASE ~ \E i \in DOMAIN c : c[i] # Header /\ c[i].key = k
    BY <2>2 DEF ServicesIn
  <2> QED
    BY <2>1, <2>2
<1> QED
  BY <1>2 DEF ServicesIn, ServiceMap

\* A vector of patches names every changed key, and each of them once.
LEMMA PatchOrdersType ==
  ASSUME NEW old \in ServiceMap, NEW new \in ServiceMap,
         NEW s \in PatchOrders(old, new)
  PROVE  /\ s \in Seq(Names)
         /\ IsInjective(s)
         /\ Range(s) = PatchKeys(old, new)
<1> DEFINE keys == PatchKeys(old, new)
           n == Cardinality(keys)
<1>1. keys \subseteq Names
  BY DEF PatchKeys
<1>2. n \in Nat
  <2>1. IsFiniteSet(keys)
    BY <1>1, FS_Subset, ConfigAssumption
  <2> QED
    BY <2>1, FS_CardinalityType
<1>3. /\ s \in [1..n -> keys]
      /\ IsInjective(s)
      /\ \A k \in keys : \E i \in 1..n : s[i] = k
  BY DEF PatchOrders, Bijection, Injection, Surjection
<1>4. s \in Seq(Names)
  BY <1>1, <1>2, <1>3
<1>5. Range(s) = keys
  BY <1>3 DEF Range
<1> QED
  BY <1>3, <1>4, <1>5

\* A short read yields a content.
LEMMA ReadableType ==
  ASSUME file \in Content, NEW c \in Readable
  PROVE  c \in Content
<1>1. CASE length = "stale"
  <2>1. PICK n \in 0..Len(file) : c = SubSeq(file, 1, n)
    BY <1>1 DEF Readable
  <2> QED
    BY <2>1 DEF Content
<1>2. CASE length # "stale"
  BY <1>2 DEF Readable
<1> QED
  BY <1>1, <1>2

\* The operations on a site yield a site.
LEMMA ContainerOps ==
  ASSUME NEW c \in Container, NEW svc \in Services
  PROVE  /\ Absent \in Container
         /\ PrecommitSvc(c, svc) \in Container
         /\ UpdateWithPrecommitted(c) \in Container
         /\ DeployStaged(c) \in Container
         /\ RemoveSite(c) \in Container
         /\ AbortPrecommit(c) \in Container
BY DEF Container, Absent, PrecommitSvc, UpdateWithPrecommitted, DeployStaged,
       RemoveSite, AbortPrecommit

(***************************************************************************)
(* Type correctness.                                                       *)
(***************************************************************************)

\* Every step of the program keeps the variables in their types.
LEMMA TypeStep == TypeOK /\ [Next]_vars => TypeOK'
<1>0. SUFFICES ASSUME TypeOK, [Next]_vars
               PROVE  TypeOK'
  OBVIOUS
<1>t. TypeOK
  BY <1>0
<1>a. NumWorkers \in Nat \ {0} /\ MaxWrites \in Nat /\ Files \subseteq Content
  BY ConfigAssumption
<1>b. 1 \in 1..(NumWorkers + 1)
  BY <1>a
<1> USE <1>t, <1>a, <1>b
<1> USE DEF TypeOK, vars, fileVars, managerVars, workerVars
<1>1. NoServices \in ServiceMap /\ NoSites \in [Names -> Container]
  BY DEF NoServices, NoSites, ServiceMap, Container, Absent
<1>2. <<>> \in Content /\ <<>> \in Seq(Names) /\ IsInjective(<<>>)
  BY DEF Content, IsInjective
<1>3. ASSUME ProcessExit
      PROVE  /\ pc' = "dead"
             /\ alive' \subseteq Workers
             /\ sites' \in [Workers -> [Names -> Container]]
  BY <1>1, <1>3 DEF ProcessExit
<1>4. ASSUME DropLocals
      PROVE  /\ newContent' \in Content
             /\ newServices' \in ServiceMap
             /\ order' \in Seq(Names)
             /\ IsInjective(order')
             /\ idx' \in Nat /\ idx' >= 1
             /\ wk' \in 1..(NumWorkers + 1)
             /\ result' \in {"ok", "err"}
  BY <1>1, <1>2, <1>4 DEF DropLocals
<1>5. ASSUME ReloadFails
      PROVE  /\ pc' \in {"idle", "dead"}
             /\ alive' \subseteq Workers
             /\ sites' \in [Workers -> [Names -> Container]]
  BY <1>3, <1>5 DEF ReloadFails
<1>6. ASSUME NEW r \in {"ok", "err"}, Answer(r), wk \in Workers
      PROVE  /\ result' \in {"ok", "err"}
             /\ wk' \in 1..(NumWorkers + 1)
             /\ UNCHANGED <<dispatchConst, pc, idx>>
  BY <1>6 DEF Answer, Workers
<1>7. ASSUME idx \in DOMAIN order
      PROVE  Key \in Names
  BY <1>7 DEF Key
<1>8. ASSUME NEW c \in Container, SetSite(c)
      PROVE  sites' \in [Workers -> [Names -> Container]]
  BY <1>8 DEF SetSite
<1>9. ASSUME idx \in DOMAIN order, wk \in Workers
      PROVE  Site \in Container
  BY <1>7, <1>9 DEF Site
<1>10. CASE WriteFile
  BY <1>10 DEF WriteFile
<1>30. CASE \E w \in Workers : WorkerDies(w)
  BY <1>1, <1>30 DEF WorkerDies
<1>11. CASE Stat
  BY <1>11 DEF Stat
<1>12. CASE ReadUnchanged
  BY <1>12 DEF ReadUnchanged
<1>13. CASE ReadError \/ ReadFails
  BY <1>5, <1>13 DEF ReadError, ReadFails
<1>14. CASE ReadChanged
  <2>1. PICK c \in Readable :
          /\ Parses(c)
          /\ newContent' = c
          /\ newServices' = ServicesIn(c)
          /\ order' \in PatchOrders(onlineServices, ServicesIn(c))
    BY <1>14 DEF ReadChanged
  <2>2. c \in Content /\ ServicesIn(c) \in ServiceMap
    BY <2>1, ReadableType, ServicesInType
  <2>3. order' \in Seq(Names) /\ IsInjective(order')
    BY <2>1, <2>2, PatchOrdersType
  <2> QED
    BY <1>14, <2>1, <2>2, <2>3 DEF ReadChanged
<1>15. CASE WorkerGone
  <2>1. wk \in Workers /\ Answer("err")
    BY <1>15 DEF WorkerGone, Dispatching
  <2> QED
    BY <1>6, <1>15, <2>1 DEF WorkerGone, dispatchConst
<1>16. CASE Precommit
  <2>1. /\ idx \in DOMAIN order
        /\ wk \in Workers
        /\ newServices[Key] # None
    BY <1>16 DEF Precommit, Dispatching, AtPatch, Kind, Key
  <2>2. newServices[Key] \in Services
    BY <1>7, <2>1 DEF ServiceMap
  <2>3. CASE SetSite(PrecommitSvc(Site, newServices[Key])) /\ UNCHANGED alive /\ Answer("ok")
    BY <1>6, <1>8, <1>9, <2>1, <2>2, <2>3, ContainerOps DEF dispatchConst
  <2>4. CASE UNCHANGED workerVars /\ Answer("err")
    BY <1>6, <2>1, <2>4 DEF dispatchConst
  <2>5. CASE /\ alive' = alive \ {wk}
             /\ sites' = [sites EXCEPT ![wk] = NoSites]
             /\ Answer("err")
    BY <1>1, <1>6, <2>1, <2>5 DEF dispatchConst
  <2> QED
    BY <1>16, <2>3, <2>4, <2>5 DEF Precommit
<1>17. CASE Commit
  <2>1. idx \in DOMAIN order /\ wk \in Workers /\ UNCHANGED alive
    BY <1>17 DEF Commit, Dispatching, AtPatch
  <2>2. CASE SetSite(DeployStaged(Site)) /\ Answer("ok")
    <3>1. DeployStaged(Site) \in Container
      BY <1>9, <2>1 DEF DeployStaged, Container, Absent
    <3> QED
      BY <1>6, <1>8, <2>1, <2>2, <3>1 DEF dispatchConst
  <2>3. CASE UNCHANGED sites /\ Answer("err")
    BY <1>6, <2>1, <2>3 DEF dispatchConst
  <2> QED
    BY <1>17, <2>2, <2>3 DEF Commit
<1>18. CASE Update
  <2>1. idx \in DOMAIN order /\ wk \in Workers /\ UNCHANGED alive
    BY <1>18 DEF Update, Dispatching, AtPatch
  <2>2. CASE SetSite(UpdateWithPrecommitted(Site)) /\ Answer("ok")
    <3>1. UpdateWithPrecommitted(Site) \in Container
      BY <1>9, <2>1 DEF UpdateWithPrecommitted, Container, Absent
    <3> QED
      BY <1>6, <1>8, <2>1, <2>2, <3>1 DEF dispatchConst
  <2>3. CASE UNCHANGED sites /\ Answer("err")
    BY <1>6, <2>1, <2>3 DEF dispatchConst
  <2> QED
    BY <1>18, <2>2, <2>3 DEF Update
<1>19. CASE Remove
  <2>1. idx \in DOMAIN order /\ wk \in Workers /\ UNCHANGED alive
    BY <1>19 DEF Remove, Dispatching, AtPatch
  <2>2. CASE SetSite(RemoveSite(Site)) /\ Answer("ok")
    <3>1. RemoveSite(Site) \in Container
      BY <1>9, <2>1 DEF RemoveSite, Container, Absent
    <3> QED
      BY <1>6, <1>8, <2>1, <2>2, <3>1 DEF dispatchConst
  <2>3. CASE UNCHANGED sites /\ Answer("err")
    BY <1>6, <2>1, <2>3 DEF dispatchConst
  <2> QED
    BY <1>19, <2>2, <2>3 DEF Remove
<1>20. CASE Abort
  <2>1. idx \in DOMAIN order /\ wk \in Workers /\ UNCHANGED alive
    BY <1>20 DEF Abort, Dispatching, AtPatch
  <2>2. CASE SetSite(AbortPrecommit(Site)) /\ Answer("ok")
    <3>1. AbortPrecommit(Site) \in Container
      BY <1>9, <2>1 DEF AbortPrecommit, Container, Absent
    <3> QED
      BY <1>6, <1>8, <2>1, <2>2, <3>1 DEF dispatchConst
  <2>3. CASE UNCHANGED sites /\ Answer("err")
    BY <1>6, <2>1, <2>3 DEF dispatchConst
  <2> QED
    BY <1>20, <2>2, <2>3 DEF Abort
<1>21. CASE ListenerFactoryPanics
  BY <1>3, <1>4, <1>21 DEF ListenerFactoryPanics
<1>22. CASE CommitFails
  BY <1>3, <1>4, <1>22 DEF CommitFails
<1>23. CASE SkipDelete
  BY <1>23 DEF SkipDelete, NextPatch, dispatchConst
<1>24. CASE PatchDone
  BY <1>24 DEF PatchDone, NextPatch, dispatchConst
<1>25. CASE PrepareFails
  BY <1>25 DEF PrepareFails, dispatchConst
<1>26. CASE PrepareEnds
  BY <1>26 DEF PrepareEnds, dispatchConst
<1>27. CASE CommitEnds
  BY <1>4, <1>27 DEF CommitEnds
<1>28. CASE AbortEnds
  BY <1>4, <1>5, <1>28 DEF AbortEnds
<1>29. CASE UNCHANGED vars
  BY <1>29
<1> QED
  BY <1>10, <1>11, <1>12, <1>13, <1>14, <1>15, <1>16, <1>17, <1>18, <1>19, <1>20, <1>21, <1>22, <1>23, <1>24, <1>25, <1>26, <1>27, <1>28, <1>29, <1>30, <1>0 DEF Next, Manager, Exited

\* The variables always have their types: TypeOK of the runs.
THEOREM TypeCorrect == Spec => []TypeOK
<1>1. Init => TypeOK
  BY ConfigAssumption DEF Init, Startable, TypeOK, Content, NoServices, NoSites, ServiceMap,
                          Container, Absent, IsInjective, Workers
<1> QED
  BY <1>1, TypeStep, PTL DEF Spec

(***************************************************************************)
(* How the stages of a reload get on.                                      *)
(***************************************************************************)

\* The site of k on worker w is as before, and the two configurations too.
SameSite(w, k) ==
  /\ Untouched(w, k)' <=> Untouched(w, k)
  /\ Prepared(w, k)' <=> Prepared(w, k)
  /\ Switched(w, k)' <=> Switched(w, k)
  /\ Awaiting(w, k)' <=> Awaiting(w, k)

LEMMA SiteFrame ==
  ASSUME NEW w \in Workers, NEW k \in Names,
         sites[w][k]' = sites[w][k],
         UNCHANGED <<onlineServices, newServices>>
  PROVE  SameSite(w, k)
BY DEF SameSite, Untouched, Prepared, Switched, Awaiting

\* An answer of one worker says nothing of the others.
LEMMA OtherWorkers ==
  ASSUME TypeOK, wk \in Workers,
         NEW r \in {"ok", "err"}, Answer(r),
         NEW w \in Workers, w # wk, sites[w]' = sites[w],
         StageInv(w)
  PROVE  StageInv(w)'
<1>1. /\ UNCHANGED <<pc, order, idx, onlineServices, newServices>>
      /\ wk' = wk + 1
      /\ result = "err" => result' = "err"
  BY DEF Answer, dispatchConst
<1>2. \A k \in Names : SameSite(w, k)
  BY <1>1, SiteFrame
<1>3. \A i \in DOMAIN order : i \in Int /\ order[i] \in Names
  BY DEF TypeOK
<1>4. \A i \in DOMAIN order : Sent(i, w)' <=> Sent(i, w)
  BY <1>1, <1>3 DEF Sent, Workers, TypeOK
<1>5. Range(order) \subseteq Names
  BY <1>3 DEF Range
<1> QED
  BY <1>1, <1>2, <1>3, <1>4, <1>5 DEF StageInv, SameSite

\* A worker that answered Err, or refused a command, is where it was.
LEMMA RefusedCommand ==
  ASSUME TypeOK, wk \in Workers, idx \in DOMAIN order,
         Answer("err"), UNCHANGED sites,
         pc \in {"prepare", "commit"},
         NEW w \in Workers, StageInv(w)
  PROVE  StageInv(w)'
<1>1. CASE w # wk
  BY <1>1, OtherWorkers
<1>2. CASE w = wk
  <2>1. /\ UNCHANGED <<pc, order, idx, onlineServices, newServices>>
        /\ wk' = wk + 1
        /\ result' = "err"
    BY DEF Answer, dispatchConst
  <2>2. \A k \in Names : SameSite(w, k)
    BY <2>1, SiteFrame
  <2>3. \A i \in DOMAIN order : i \in Int /\ order[i] \in Names
    BY DEF TypeOK
  <2>4. \A i \in DOMAIN order :
          /\ Sent(i, w) => Sent(i, w)'
          /\ Sent(i, w)' => Sent(i, w) \/ i = idx
    BY <1>2, <2>1, <2>3 DEF Sent, Workers, TypeOK
  <2>5. Range(order) \subseteq Names
    BY <2>3 DEF Range
  <2> QED
    BY <2>1, <2>2, <2>3, <2>4, <2>5 DEF StageInv, SameSite
<1> QED
  BY <1>1, <1>2

\* A command accepted by worker wk changes the site of its key as it must.
LEMMA AcceptedCommand ==
  ASSUME TypeOK, wk \in Workers, idx \in DOMAIN order, IsInjective(order),
         Answer("ok"), NEW c \in Container, SetSite(c),
         NEW v \in Workers, v = wk, NEW key, key = Key,
         \/ pc = "prepare" /\ Prepared(v, key)'
         \/ pc = "commit" /\ Switched(v, key)'
         \/ pc = "abort" /\ Untouched(v, key)',
         NEW w \in Workers, StageInv(w)
  PROVE  StageInv(w)'
<1>0. key \in Names /\ key = order[idx]
  BY DEF Key, TypeOK
<1>1. CASE w # wk
  <2>1. sites[w]' = sites[w]
    BY <1>1, <1>0 DEF SetSite, Key, TypeOK
  <2> QED
    BY <1>1, <2>1, OtherWorkers
<1>2. CASE w = wk /\ w = v
  <2>1. /\ UNCHANGED <<pc, order, idx, onlineServices, newServices>>
        /\ wk' = wk + 1
        /\ result' = result
    BY DEF Answer, dispatchConst
  <2>2. ASSUME NEW k \in Names, k # key
        PROVE  SameSite(w, k)
    <3>1. sites[w][k]' = sites[w][k]
      BY <2>2, <1>0, <1>2 DEF SetSite, Key, TypeOK
    <3> QED
      BY <2>1, <3>1, SiteFrame
  <2>3. \A i \in DOMAIN order : i \in Int /\ order[i] \in Names
    BY DEF TypeOK
  <2>4. \A i \in DOMAIN order : i # idx => order[i] # key
    BY <1>0 DEF IsInjective
  <2>5. \A i \in DOMAIN order :
          /\ i # idx => (Sent(i, w)' <=> Sent(i, w))
          /\ i = idx => Sent(i, w)'
    BY <1>2, <2>1, <2>3 DEF Sent, Workers, TypeOK
  <2>6. Range(order) \subseteq Names /\ key \in Range(order)
    BY <1>0, <2>3 DEF Range
  <2>7. CASE pc = "prepare" /\ Prepared(v, key)'
    <3>1. Awaiting(w, key)'
      BY <1>2, <2>7 DEF Awaiting, Prepared
    <3> QED
      BY <1>0, <1>2, <2>1, <2>2, <2>3, <2>4, <2>5, <2>7, <3>1 DEF StageInv, SameSite
  <2>8. CASE pc = "commit" /\ Switched(v, key)'
    BY <1>0, <1>2, <2>1, <2>2, <2>3, <2>4, <2>5, <2>6, <2>8 DEF StageInv, SameSite
  <2>9. CASE pc = "abort" /\ Untouched(v, key)'
    BY <1>0, <1>2, <2>1, <2>2, <2>3, <2>4, <2>5, <2>9 DEF StageInv, SameSite
  <2> QED
    BY <2>7, <2>8, <2>9
<1> QED
  BY <1>1, <1>2

\* When a loop moves on to another patch or another stage, what it had
\* reached is what the new position says.
LEMMA Positions ==
  ASSUME TypeOK, NEW w \in Workers, NEW i \in DOMAIN order
  PROVE  /\ i \in Nat /\ i >= 1 /\ order[i] \in Names
         /\ order[i] \in Range(order)
         /\ idx \notin DOMAIN order => i < idx
         /\ Sent(i, w) => i <= idx
         /\ wk = NumWorkers + 1 => (Sent(i, w) <=> i <= idx)
         /\ idx' = 1 /\ wk' = 1 => ~Sent(i, w)'
         /\ idx' = idx + 1 /\ wk' = 1 => (Sent(i, w)' <=> i <= idx)
<1>1. i \in 1..Len(order) /\ Len(order) \in Nat /\ order[i] \in Names
  BY DEF TypeOK
<1>2. idx \in Nat /\ idx >= 1 /\ DOMAIN order = 1..Len(order)
  BY DEF TypeOK
<1>3. w \in 1..NumWorkers /\ NumWorkers \in Nat
  BY ConfigAssumption DEF Workers
<1> QED
  BY <1>1, <1>2, <1>3 DEF Sent, Range

\* A key without a patch is configured neither before nor after.
LEMMA NoPatch ==
  ASSUME TypeOK, PatchesInv, pc \in {"prepare", "commit", "abort"},
         NEW k \in Names, k \notin Range(order)
  PROVE  onlineServices[k] = None /\ newServices[k] = None
BY DEF PatchesInv, PatchKeys

\* The stages stay where they are when neither sites nor position change.
LEMMA StageFrame ==
  ASSUME TypeOK, NEW w \in Workers, StageInv(w),
         pc \in {"idle", "read"}, pc' \in {"idle", "read"},
         sites' = sites, onlineServices' = onlineServices
  PROVE  StageInv(w)'
BY DEF StageInv, Untouched

LEMMA NextPatchStage ==
  ASSUME TypeOK, PatchesInv, NextPatch, SkipDelete \/ PatchDone,
         NEW w \in alive, StageInv(w)
  PROVE  StageInv(w)'
<1>1. /\ UNCHANGED <<pc, order, sites, onlineServices, newServices>>
      /\ result' = "ok"
  BY DEF NextPatch, dispatchConst, workerVars
<1>2. w \in Workers /\ pc \in {"prepare", "commit", "abort"}
  BY DEF TypeOK, SkipDelete, PatchDone
<1>3. \A k \in Names : SameSite(w, k)
  BY <1>1, <1>2, SiteFrame
<1>4. \A i \in DOMAIN order :
        /\ order[i] \in Names
        /\ Sent(i, w)' <=> i <= idx
        /\ i \in Nat
  BY <1>2, Positions DEF NextPatch
<1>5. Range(order) \subseteq Names
  BY <1>4 DEF Range
<1>6. CASE SkipDelete
  <2>1. Kind(order[idx]) = "Delete" /\ idx \in DOMAIN order /\ pc # "commit"
    BY <1>6 DEF SkipDelete, AtPatch
  <2>2. newServices[order[idx]] = None
    BY <2>1 DEF Kind
  <2>3. Untouched(w, order[idx]) /\ Awaiting(w, order[idx])
    BY <1>2, <1>4, <2>1, <2>2 DEF StageInv, Prepared, Awaiting
  <2>4. \A i \in DOMAIN order : i # idx /\ i <= idx => Sent(i, w)
    BY <1>4 DEF Sent, TypeOK
  <2> QED
    BY <1>1, <1>2, <1>3, <1>4, <2>1, <2>3, <2>4 DEF StageInv, SameSite
<1>7. CASE PatchDone
  <2>1. \A i \in DOMAIN order : Sent(i, w) <=> i <= idx
    BY <1>2, <1>7, Positions DEF PatchDone
  <2>2. pc # "abort" => result = "ok"
    BY <1>2, <1>7 DEF PatchDone
  <2> QED
    BY <1>1, <1>2, <1>3, <1>4, <1>5, <2>1, <2>2 DEF StageInv, SameSite
<1> QED
  BY <1>6, <1>7

LEMMA PrepareFailsStage ==
  ASSUME TypeOK, PrepareFails, NEW w \in alive, StageInv(w)
  PROVE  StageInv(w)'
<1>1. /\ UNCHANGED <<order, sites, onlineServices, newServices>>
      /\ pc = "prepare" /\ pc' = "abort" /\ idx' = 1 /\ wk' = 1
      /\ w \in Workers
  BY DEF PrepareFails, dispatchConst, workerVars, TypeOK
<1>2. \A k \in Names : SameSite(w, k)
  BY <1>1, SiteFrame
<1>3. \A i \in DOMAIN order : ~Sent(i, w)'
  BY <1>1, Positions
<1> QED
  BY <1>1, <1>2, <1>3 DEF StageInv, SameSite

LEMMA PrepareEndsStage ==
  ASSUME TypeOK, PatchesInv, PrepareEnds, NEW w \in alive, StageInv(w)
  PROVE  StageInv(w)'
<1>1. /\ UNCHANGED <<order, sites, onlineServices, newServices>>
      /\ pc = "prepare" /\ pc' = "commit" /\ idx' = 1 /\ wk' = 1
      /\ w \in Workers
      /\ idx \notin DOMAIN order
  BY DEF PrepareEnds, dispatchConst, workerVars, TypeOK
<1>2. \A k \in Names : SameSite(w, k)
  BY <1>1, SiteFrame
<1>3. \A i \in DOMAIN order : ~Sent(i, w)' /\ order[i] \in Names
  BY <1>1, Positions
<1>4. \A i \in DOMAIN order : Sent(i, w) /\ i # idx
  BY <1>1, Positions DEF Sent
<1>5. \A k \in Names \ Range(order) : Untouched(w, k)
  BY <1>1, NoPatch DEF StageInv, Prepared
<1>6. \A i \in DOMAIN order : Awaiting(w, order[i])
  BY <1>1, <1>4 DEF StageInv
<1> QED
  BY <1>1, <1>2, <1>3, <1>5, <1>6 DEF StageInv, SameSite

\* A commit that ends has switched every name.
LEMMA CommitEndsSwitched ==
  ASSUME TypeOK, PatchesInv, CommitEnds, NEW w \in alive, StageInv(w),
         NEW k \in Names
  PROVE  Switched(w, k)
<1>1. pc = "commit" /\ idx \notin DOMAIN order /\ w \in Workers
  BY DEF CommitEnds, TypeOK
<1>2. CASE k \in Range(order)
  <2>1. PICK i \in DOMAIN order : order[i] = k
    BY <1>2 DEF Range
  <2>2. Sent(i, w) /\ i # idx
    BY <1>1, Positions DEF Sent
  <2> QED
    BY <1>1, <2>1, <2>2 DEF StageInv
<1>3. CASE k \notin Range(order)
  BY <1>1, <1>3, NoPatch DEF StageInv, Untouched, Switched
<1> QED
  BY <1>2, <1>3

\* An abort that ends has cleared every name.
LEMMA AbortEndsUntouched ==
  ASSUME TypeOK, PatchesInv, AbortEnds, NEW w \in alive, StageInv(w),
         NEW k \in Names
  PROVE  Untouched(w, k)
<1>1. pc = "abort" /\ idx \notin DOMAIN order /\ w \in Workers
  BY DEF AbortEnds, TypeOK
<1>2. CASE k \in Range(order)
  <2>1. PICK i \in DOMAIN order : order[i] = k
    BY <1>2 DEF Range
  <2>2. Sent(i, w)
    BY <1>1, Positions DEF Sent
  <2> QED
    BY <1>1, <2>1, <2>2 DEF StageInv
<1>3. CASE k \notin Range(order)
  BY <1>1, <1>3, NoPatch DEF StageInv, Prepared
<1> QED
  BY <1>2, <1>3

\* A command is dispatched for a patch that is there, to a worker that is.
LEMMA Dispatched ==
  ASSUME TypeOK, NEW stage, NEW kinds, Dispatching(stage, kinds)
  PROVE  /\ pc = stage
         /\ idx \in DOMAIN order
         /\ wk \in Workers
         /\ Key \in Names /\ Key = order[idx] /\ Key \in Range(order)
         /\ Site \in Container
         /\ Kind(Key) \in kinds
BY DEF Dispatching, AtPatch, Key, Site, TypeOK, Range

\* Every step keeps the stages of the workers that run in order.
LEMMA StageStep ==
  ASSUME IInv, [Next]_vars, NEW w \in alive'
  PROVE  StageInv(w)'
<1> USE DEF IInv
<1>1. CASE w \notin alive
  <2>1. alive' \subseteq alive
    BY DEF Next, Manager, WriteFile, WorkerDies, Stat, ReadUnchanged, ReadError, ReadFails,
           ReadChanged, WorkerGone, Precommit, Commit, ListenerFactoryPanics, Update, Remove,
           Abort, SkipDelete, PatchDone, PrepareFails, PrepareEnds, CommitFails,
           CommitEnds, AbortEnds, Exited, ReloadFails, ProcessExit, NextPatch,
           vars, workerVars
  <2> QED
    BY <1>1, <2>1
<1>2. ASSUME w \in alive
      PROVE  StageInv(w)'
  <2>0. w \in Workers /\ StageInv(w) /\ TypeOK /\ PatchesInv
    BY <1>2 DEF TypeOK
  <2>1. ASSUME ProcessExit
        PROVE  FALSE
    BY <2>1 DEF ProcessExit
  <2>2. CASE WriteFile
    <3>1. /\ UNCHANGED <<pc, order, idx, wk, result, sites, onlineServices, newServices>>
      BY <2>2 DEF WriteFile, workerVars
    <3> QED
      BY <2>0, <3>1 DEF StageInv, Untouched, Prepared, Switched, Awaiting, Sent
  <2>20. CASE \E v \in Workers : WorkerDies(v)
    <3>1. PICK v \in Workers : WorkerDies(v)
      BY <2>20
    <3>2. /\ UNCHANGED <<pc, order, idx, wk, result, onlineServices, newServices>>
          /\ sites' = [sites EXCEPT ![v] = NoSites]
          /\ alive' = alive \ {v}
      BY <3>1 DEF WorkerDies, managerVars
    <3>3. sites'[w] = sites[w]
      BY <2>0, <3>2 DEF TypeOK
    <3> QED
      BY <2>0, <3>2, <3>3 DEF StageInv, Untouched, Prepared, Switched, Awaiting, Sent
  <2>3. CASE Stat
    BY <2>0, <2>3, StageFrame DEF Stat, workerVars
  <2>4. CASE ReadUnchanged
    BY <2>0, <2>4, StageFrame DEF ReadUnchanged, workerVars
  <2>5. CASE ReadError \/ ReadFails
    BY <2>0, <2>1, <2>5, StageFrame DEF ReadError, ReadFails, ReloadFails, workerVars
  <2>6. CASE ReadChanged
    <3>1. /\ pc = "read" /\ pc' = "prepare" /\ wk' = 1 /\ idx' = 1
          /\ UNCHANGED <<sites, onlineServices>>
      BY <2>6 DEF ReadChanged, workerVars
    <3>2. order' \in Seq(Names)
      BY <2>0, TypeStep DEF TypeOK
    <3>3. \A i \in DOMAIN order' : ~Sent(i, w)'
      BY <2>0, <3>1, <3>2 DEF Sent, Workers
    <3> QED
      BY <2>0, <3>1, <3>3 DEF StageInv, Untouched
  <2>7. CASE WorkerGone
    <3>1. wk \in Workers /\ wk # w /\ Answer("err") /\ sites' = sites
      BY <1>2, <2>7 DEF WorkerGone, Dispatching, workerVars
    <3> QED
      BY <2>0, <3>1, OtherWorkers
  <2>8. CASE Precommit
    <3>1. /\ pc = "prepare" /\ idx \in DOMAIN order /\ wk \in Workers
          /\ Key \in Names /\ Site \in Container
          /\ Kind(Key) \in {"Insert", "Update"} /\ Key \in Range(order)
      BY <2>0, <2>8, Dispatched DEF Precommit
    <3>2. newServices[Key] \in Services
      BY <2>0, <3>1 DEF TypeOK, ServiceMap, Kind, PatchesInv, PatchKeys
    <3>3. CASE SetSite(PrecommitSvc(Site, newServices[Key])) /\ Answer("ok")
      <4> DEFINE c == PrecommitSvc(Site, newServices[Key])
      <4>1. c \in Container
        BY <3>1, <3>2, ContainerOps
      <4>2. /\ c.committed = Site.committed
            /\ c.staged = newServices[Key]
        BY <3>1 DEF PrecommitSvc, Container
      <4>3. ASSUME NEW v, v = wk, NEW key, key = Key
            PROVE  Prepared(v, key)'
        <5>1. v \in alive /\ StageInv(v)
          BY <2>8, <4>3 DEF Precommit
        <5>2. sites[v][key].committed = onlineServices[key]
          BY <3>1, <4>3, <5>1 DEF StageInv, Untouched, Prepared
        <5>3. sites'[v][key] = c
          BY <3>1, <3>3, <4>3, <2>0 DEF SetSite, TypeOK
        <5>4. UNCHANGED <<onlineServices, newServices>>
          BY <3>3 DEF Answer, dispatchConst
        <5> QED
          BY <3>2, <4>2, <4>3, <5>2, <5>3, <5>4, NoneAssumption DEF Prepared, Site
      <4> HIDE DEF c
      <4> QED
        BY <2>0, <3>1, <3>3, <4>1, <4>3, AcceptedCommand DEF TypeOK, c
    <3>4. CASE UNCHANGED workerVars /\ Answer("err")
      BY <2>0, <3>1, <3>4, RefusedCommand DEF workerVars
    <3>5. CASE alive' = alive \ {wk} /\ sites' = [sites EXCEPT ![wk] = NoSites] /\ Answer("err")
      <4>1. w # wk /\ sites[w]' = sites[w]
        BY <2>0, <3>5 DEF TypeOK
      <4> QED
        BY <2>0, <3>1, <3>5, <4>1, OtherWorkers
    <3> QED
      BY <2>8, <3>3, <3>4, <3>5 DEF Precommit
  <2>9. CASE Commit
    <3>1. /\ pc = "commit" /\ idx \in DOMAIN order /\ wk \in Workers
          /\ Key \in Names /\ Key = order[idx] /\ Site \in Container
          /\ Kind(Key) \in {"Insert"}
      BY <2>0, <2>9, Dispatched DEF Commit
    <3>2. CASE SetSite(DeployStaged(Site)) /\ Answer("ok")
      <4> DEFINE c == DeployStaged(Site)
      <4>1. c \in Container
        BY <3>1 DEF DeployStaged, Container, Absent
      <4>2. ASSUME NEW v, v = wk, NEW key, key = Key
            PROVE  Switched(v, key)'
        <5>1. v \in alive /\ StageInv(v)
          BY <2>9, <4>2 DEF Commit
        <5>2. ~Sent(idx, v)
          BY <2>0, <3>1, <4>2 DEF Sent, TypeOK, Workers
        <5>3. Awaiting(v, key)
          BY <3>1, <4>2, <5>1, <5>2 DEF StageInv
        <5>4. sites'[v][key] = c
          BY <3>1, <3>2, <4>2, <2>0 DEF SetSite, TypeOK
        <5>5. UNCHANGED <<onlineServices, newServices>>
          BY <3>2 DEF Answer, dispatchConst
        <5>6. Kind(key) \in {"Insert"} /\ Site = sites[v][key]
          BY <3>1, <4>2 DEF Site
        <5> QED
          BY <3>1, <5>3, <5>4, <5>5, <5>6
             DEF Switched, Awaiting, Untouched, Prepared, Kind, DeployStaged, Container
      <4> HIDE DEF c
      <4> QED
        BY <2>0, <3>1, <3>2, <4>1, <4>2, AcceptedCommand DEF TypeOK, c
    <3>3. CASE UNCHANGED sites /\ Answer("err")
      BY <2>0, <3>1, <3>3, RefusedCommand
    <3> QED
      BY <2>9, <3>2, <3>3 DEF Commit
  <2>10. CASE Update
    <3>1. /\ pc = "commit" /\ idx \in DOMAIN order /\ wk \in Workers
          /\ Key \in Names /\ Key = order[idx] /\ Site \in Container
          /\ Kind(Key) \in {"Update"}
      BY <2>0, <2>10, Dispatched DEF Update
    <3>2. CASE SetSite(UpdateWithPrecommitted(Site)) /\ Answer("ok")
      <4> DEFINE c == UpdateWithPrecommitted(Site)
      <4>1. c \in Container
        BY <3>1 DEF UpdateWithPrecommitted, Container, Absent
      <4>2. ASSUME NEW v, v = wk, NEW key, key = Key
            PROVE  Switched(v, key)'
        <5>1. v \in alive /\ StageInv(v)
          BY <2>10, <4>2 DEF Update
        <5>2. ~Sent(idx, v)
          BY <2>0, <3>1, <4>2 DEF Sent, TypeOK, Workers
        <5>3. Awaiting(v, key)
          BY <3>1, <4>2, <5>1, <5>2 DEF StageInv
        <5>4. sites'[v][key] = c
          BY <3>1, <3>2, <4>2, <2>0 DEF SetSite, TypeOK
        <5>5. UNCHANGED <<onlineServices, newServices>>
          BY <3>2 DEF Answer, dispatchConst
        <5>6. Kind(key) \in {"Update"} /\ Site = sites[v][key]
          BY <3>1, <4>2 DEF Site
        <5> QED
          BY <3>1, <5>3, <5>4, <5>5, <5>6
             DEF Switched, Awaiting, Untouched, Prepared, Kind, UpdateWithPrecommitted, Container
      <4> HIDE DEF c
      <4> QED
        BY <2>0, <3>1, <3>2, <4>1, <4>2, AcceptedCommand DEF TypeOK, c
    <3>3. CASE UNCHANGED sites /\ Answer("err")
      BY <2>0, <3>1, <3>3, RefusedCommand
    <3> QED
      BY <2>10, <3>2, <3>3 DEF Update
  <2>11. CASE Remove
    <3>1. /\ pc = "commit" /\ idx \in DOMAIN order /\ wk \in Workers
          /\ Key \in Names /\ Key = order[idx] /\ Site \in Container
          /\ Kind(Key) \in {"Delete"}
      BY <2>0, <2>11, Dispatched DEF Remove
    <3>2. CASE SetSite(RemoveSite(Site)) /\ Answer("ok")
      <4> DEFINE c == RemoveSite(Site)
      <4>1. c \in Container
        BY <3>1 DEF RemoveSite, Container, Absent
      <4>2. ASSUME NEW v, v = wk, NEW key, key = Key
            PROVE  Switched(v, key)'
        <5>1. v \in alive /\ StageInv(v)
          BY <2>11, <4>2 DEF Remove
        <5>2. ~Sent(idx, v)
          BY <2>0, <3>1, <4>2 DEF Sent, TypeOK, Workers
        <5>3. Awaiting(v, key)
          BY <3>1, <4>2, <5>1, <5>2 DEF StageInv
        <5>4. sites'[v][key] = c
          BY <3>1, <3>2, <4>2, <2>0 DEF SetSite, TypeOK
        <5>5. UNCHANGED <<onlineServices, newServices>>
          BY <3>2 DEF Answer, dispatchConst
        <5>6. Kind(key) \in {"Delete"} /\ Site = sites[v][key]
          BY <3>1, <4>2 DEF Site
        <5> QED
          BY <3>1, <5>3, <5>4, <5>5, <5>6
             DEF Switched, Awaiting, Untouched, Prepared, Kind, RemoveSite, Container, Absent
      <4> HIDE DEF c
      <4> QED
        BY <2>0, <3>1, <3>2, <4>1, <4>2, AcceptedCommand DEF TypeOK, c
    <3>3. CASE UNCHANGED sites /\ Answer("err")
      BY <2>0, <3>1, <3>3, RefusedCommand
    <3> QED
      BY <2>11, <3>2, <3>3 DEF Remove
  <2>12. CASE Abort
    <3>1. /\ pc = "abort" /\ idx \in DOMAIN order /\ wk \in Workers
          /\ Key \in Names /\ Key = order[idx] /\ Site \in Container
          /\ wk \in alive /\ StageInv(wk)
          /\ UNCHANGED <<onlineServices, newServices>>
      BY <2>0, <2>12, Dispatched DEF Abort, Answer, dispatchConst
    <3>2. CASE SetSite(AbortPrecommit(Site)) /\ Answer("ok")
      <4> DEFINE c == AbortPrecommit(Site)
      <4>1. c \in Container
        BY <3>1 DEF AbortPrecommit, Container
      <4>2. ASSUME NEW v, v = wk, NEW key, key = Key
            PROVE  Untouched(v, key)'
        <5>1. sites'[v][key] = c
          BY <3>1, <3>2, <4>2, <2>0 DEF SetSite, TypeOK
        <5> QED
          BY <3>1, <4>2, <5>1
             DEF StageInv, Untouched, Prepared, AbortPrecommit, Container, Site
      <4> HIDE DEF c
      <4> QED
        BY <2>0, <3>1, <3>2, <4>1, <4>2, AcceptedCommand DEF TypeOK, c
    <3>3. CASE ~CanAbort(Site) /\ UNCHANGED sites /\ Answer("err")
      <4>1. CASE w # wk
        <5>1. sites[w]' = sites[w]
          BY <3>3
        <5> QED
          BY <2>0, <3>1, <3>3, <4>1, <5>1, OtherWorkers
      <4>2. CASE w = wk
        <5>1. Site.staged = None
          BY <3>1, <3>3 DEF CanAbort, ListedInv, Site
        <5>2. \A k \in Names : SameSite(w, k)
          BY <2>0, <3>1, <3>3, SiteFrame
        <5>3. \A i \in DOMAIN order :
                order[i] \in Names /\ (Sent(i, w)' => Sent(i, w) \/ i = idx)
          BY <2>0, <3>3, <4>2 DEF Sent, Answer, dispatchConst, TypeOK, Workers
        <5>4. Untouched(w, order[idx])
          BY <3>1, <4>2, <5>1, NoneAssumption DEF StageInv, Untouched, Prepared, Site
        <5>5. UNCHANGED <<pc, order>>
          BY <3>3 DEF Answer, dispatchConst
        <5> QED
          BY <2>0, <3>1, <5>2, <5>3, <5>4, <5>5 DEF StageInv, SameSite
      <4> QED
        BY <4>1, <4>2
    <3> QED
      BY <2>12, <3>2, <3>3 DEF Abort
  <2>13. CASE ListenerFactoryPanics \/ CommitFails
    BY <2>1, <2>13 DEF ListenerFactoryPanics, CommitFails
  <2>14. CASE SkipDelete \/ PatchDone
    BY <1>2, <2>0, <2>14, NextPatchStage DEF SkipDelete, PatchDone
  <2>15. CASE PrepareFails
    BY <1>2, <2>0, <2>15, PrepareFailsStage
  <2>16. CASE PrepareEnds
    BY <1>2, <2>0, <2>16, PrepareEndsStage
  <2>17. CASE CommitEnds
    <3>1. \A k \in Names : Switched(w, k)
      BY <1>2, <2>0, <2>17, CommitEndsSwitched
    <3>2. pc' = "idle" /\ onlineServices' = newServices /\ sites' = sites
      BY <2>17 DEF CommitEnds, workerVars
    <3> QED
      BY <3>1, <3>2 DEF StageInv, Switched, Untouched
  <2>18. CASE AbortEnds
    <3>1. \A k \in Names : Untouched(w, k)
      BY <1>2, <2>0, <2>18, AbortEndsUntouched
    <3>2. pc' = "idle" /\ onlineServices' = onlineServices /\ sites' = sites
      BY <2>1, <2>18 DEF AbortEnds, ReloadFails, workerVars
    <3> QED
      BY <3>1, <3>2 DEF StageInv, Untouched
  <2>19. CASE UNCHANGED vars
    <3>1. UNCHANGED <<pc, order, idx, wk, result, sites, onlineServices, newServices>>
      BY <2>19 DEF vars, managerVars, workerVars
    <3> QED
      BY <2>0, <3>1 DEF StageInv, Untouched, Prepared, Switched, Awaiting, Sent
  <2> QED
    BY <2>2, <2>3, <2>4, <2>5, <2>6, <2>7, <2>8, <2>9, <2>10, <2>11, <2>12, <2>13, <2>14, <2>15, <2>16, <2>17, <2>18, <2>19, <2>20 DEF Next, Manager, Exited
<1> QED
  BY <1>1, <1>2

\* The patches of a reload stay those of its two configurations.
LEMMA PatchesStep == IInv /\ [Next]_vars => PatchesInv'
<1> SUFFICES ASSUME TypeOK, PatchesInv, [Next]_vars
             PROVE  PatchesInv'
  BY DEF IInv
<1>1. CASE ReadChanged
  <2>1. PICK c \in Readable :
          /\ Parses(c)
          /\ newServices' = ServicesIn(c)
          /\ order' \in PatchOrders(onlineServices, ServicesIn(c))
          /\ onlineServices' = onlineServices
    BY <1>1 DEF ReadChanged
  <2>2. ServicesIn(c) \in ServiceMap /\ onlineServices \in ServiceMap
    BY <2>1, ReadableType, ServicesInType DEF TypeOK
  <2> QED
    BY <2>1, <2>2, PatchOrdersType DEF PatchesInv
<1>2. CASE /\ pc \in {"prepare", "commit", "abort"}
           /\ UNCHANGED <<order, onlineServices, newServices>>
  BY <1>2 DEF PatchesInv
<1>3. CASE pc' \notin {"prepare", "commit", "abort"}
  BY <1>3 DEF PatchesInv
<1>4. CASE WriteFile \/ UNCHANGED vars \/ \E w \in Workers : WorkerDies(w)
  BY <1>4 DEF WriteFile, WorkerDies, vars, managerVars, PatchesInv
<1>5. CASE Stat \/ ReadUnchanged \/ ReadError \/ ReadFails
  BY <1>3, <1>5 DEF Stat, ReadUnchanged, ReadError, ReadFails, ReloadFails, ProcessExit
<1>6. CASE WorkerGone \/ Precommit \/ Commit \/ Update \/ Remove \/ Abort
  BY <1>2, <1>6 DEF WorkerGone, Precommit, Commit, Update, Remove, Abort,
                    Answer, Dispatching, dispatchConst
<1>7. CASE SkipDelete \/ PatchDone \/ PrepareFails \/ PrepareEnds
  BY <1>2, <1>7 DEF SkipDelete, PatchDone, PrepareFails, PrepareEnds,
                    NextPatch, dispatchConst
<1>8. CASE ListenerFactoryPanics \/ CommitFails \/ CommitEnds \/ AbortEnds
  BY <1>3, <1>8 DEF ListenerFactoryPanics, CommitFails, CommitEnds, AbortEnds,
                    ReloadFails, ProcessExit
<1> QED
  BY <1>1, <1>4, <1>5, <1>6, <1>7, <1>8 DEF Next, Manager, Exited

\* What a step can do to the site tables.
SiteSteps == {PrecommitSvc(Site, newServices[Key]), DeployStaged(Site),
              UpdateWithPrecommitted(Site), RemoveSite(Site),
              AbortPrecommit(Site)}

LEMMA TableStep ==
  ASSUME TypeOK, [Next]_vars
  PROVE  \/ UNCHANGED workerVars
         \/ ProcessExit
         \/ \E w \in alive : /\ alive' = alive \ {w}
                             /\ sites' = [sites EXCEPT ![w] = NoSites]
         \/ /\ wk \in alive /\ Key \in Names /\ Site \in Container
            /\ UNCHANGED alive
            /\ \E c \in SiteSteps : SetSite(c)
<1>1. CASE Precommit
  BY <1>1, Dispatched DEF Precommit, SiteSteps, workerVars
<1>2. CASE Commit
  BY <1>2, Dispatched DEF Commit, SiteSteps, workerVars
<1>3. CASE Update
  BY <1>3, Dispatched DEF Update, SiteSteps, workerVars
<1>4. CASE Remove
  BY <1>4, Dispatched DEF Remove, SiteSteps, workerVars
<1>5. CASE Abort
  BY <1>5, Dispatched DEF Abort, SiteSteps, workerVars
<1>6. CASE ReadError \/ ReadFails \/ AbortEnds \/ CommitFails \/ ListenerFactoryPanics
  BY <1>6 DEF ReadError, ReadFails, AbortEnds, CommitFails, ListenerFactoryPanics, ReloadFails
<1>7. CASE UNCHANGED workerVars
  BY <1>7
<1>8. CASE \E w \in Workers : WorkerDies(w)
  BY <1>8 DEF WorkerDies
<1> QED
  BY <1>1, <1>2, <1>3, <1>4, <1>5, <1>6, <1>7, <1>8
     DEF Next, Manager, WriteFile, Stat, ReadUnchanged, ReadChanged, WorkerGone,
         SkipDelete, PatchDone, NextPatch, PrepareFails, PrepareEnds, CommitEnds,
         Exited, vars

\* A site that holds a service is a key of the table, and a worker that has
\* died holds none.
LEMMA TablesStep == IInv /\ [Next]_vars => ListedInv' /\ GoneInv'
<1> SUFFICES ASSUME TypeOK, ListedInv, GoneInv, [Next]_vars
             PROVE  ListedInv' /\ GoneInv'
  BY DEF IInv
<1>0. \A w \in Workers, k \in Names :
        NoSites[k].committed = None /\ NoSites[k].staged = None
  BY DEF NoSites, Absent
<1>1. CASE UNCHANGED workerVars
  BY <1>1 DEF workerVars, ListedInv, GoneInv
<1>2. CASE ProcessExit
  BY <1>0, <1>2 DEF ProcessExit, ListedInv, GoneInv
<1>3. CASE \E w \in alive : /\ alive' = alive \ {w}
                            /\ sites' = [sites EXCEPT ![w] = NoSites]
  BY <1>0, <1>3 DEF ListedInv, GoneInv, TypeOK
<1>4. CASE /\ wk \in alive /\ Key \in Names /\ Site \in Container
           /\ UNCHANGED alive
           /\ \E c \in SiteSteps : SetSite(c)
  <2>1. PICK c \in SiteSteps : SetSite(c)
    BY <1>4
  <2>2. Site.committed # None \/ Site.staged # None => Site.listed
    BY <1>4 DEF ListedInv, Site, TypeOK
  <2>3. c.committed # None \/ c.staged # None => c.listed
    <3>1. CASE c = PrecommitSvc(Site, newServices[Key])
      BY <1>4, <3>1 DEF PrecommitSvc, Container
    <3>2. CASE c = DeployStaged(Site) \/ c = UpdateWithPrecommitted(Site)
      BY <1>4, <2>2, <3>2 DEF DeployStaged, UpdateWithPrecommitted, Container
    <3>3. CASE c = RemoveSite(Site)
      BY <3>3 DEF RemoveSite, Absent
    <3>4. CASE c = AbortPrecommit(Site)
      BY <1>4, <2>2, <3>4 DEF AbortPrecommit, Container
    <3> QED
      BY <2>1, <3>1, <3>2, <3>3, <3>4 DEF SiteSteps
  <2>4. \A w \in Workers, k \in Names :
          sites'[w][k] = IF w = wk /\ k = Key THEN c ELSE sites[w][k]
    BY <1>4, <2>1 DEF SetSite, TypeOK
  <2>5. ListedInv'
    BY <2>3, <2>4 DEF ListedInv
  <2>6. \A w \in Workers : w # wk => sites'[w] = sites[w]
    BY <2>1 DEF SetSite, TypeOK
  <2> QED
    BY <1>4, <2>5, <2>6 DEF GoneInv
<1> QED
  BY <1>1, <1>2, <1>3, <1>4, TableStep

(***************************************************************************)
(* The invariant, and what follows from it.                                *)
(***************************************************************************)

\* IInv holds in every state the program reaches.
THEOREM StagesCorrect == Spec => []IInv
<1>1. Init => IInv
  <2> SUFFICES ASSUME Init
               PROVE  IInv
    OBVIOUS
  <2>1. TypeOK
    BY ConfigAssumption DEF Init, Startable, TypeOK, Content, NoServices, NoSites, ServiceMap,
                            Container, Absent, IsInjective, Workers
  <2>2. PatchesInv /\ ListedInv /\ GoneInv
    BY DEF Init, PatchesInv, ListedInv, GoneInv, NoSites, Absent
  <2>3. \A w \in alive : StageInv(w)
    BY DEF Init, Startable, StageInv, Untouched, NoSites, Absent, NoServices
  <2> QED
    BY <2>1, <2>2, <2>3 DEF IInv
<1>2. IInv /\ [Next]_vars => IInv'
  BY TypeStep, PatchesStep, TablesStep, StageStep DEF IInv
<1> QED
  BY <1>1, <1>2, PTL DEF Spec

\* Between two reloads all running workers serve exactly online_services.
THEOREM Agreement == Spec => []StableAgreement
<1>1. IInv => StableAgreement
  <2> SUFFICES ASSUME IInv, pc \in {"idle", "read"}, NEW w \in alive
               PROVE  /\ Serving(w) = onlineServices
                      /\ \A k \in Names : sites[w][k].staged = None
    BY DEF StableAgreement
  <2>1. \A k \in Names : Untouched(w, k)
    BY DEF IInv, StageInv
  <2>2. onlineServices \in [Names -> Services \cup {None}]
    BY DEF IInv, TypeOK, ServiceMap
  <2> QED
    BY <2>1, <2>2 DEF Untouched, Serving
<1> QED
  BY <1>1, StagesCorrect, PTL

\* Every command of a commit stage finds what prepare should have left.
THEOREM CommitsAreReady == Spec => []CommitReady
<1>1. IInv => CommitReady
  <2> SUFFICES ASSUME IInv, pc = "commit",
                      NEW i \in DOMAIN order, NEW w \in alive, ~Sent(i, w)
               PROVE  LET k == order[i]
                          c == sites[w][k]
                      IN CASE Kind(k) = "Insert" -> /\ CanDeploy(c)
                                                    /\ c.committed = None
                                                    /\ c.staged = newServices[k]
                           [] Kind(k) = "Update" -> CanUpdate(c) /\ c.staged = newServices[k]
                           [] Kind(k) = "Delete" -> CanRemove(c)
    BY DEF CommitReady
  <2> DEFINE k == order[i]
             c == sites[w][k]
  <2>1. w \in Workers /\ k \in Names /\ k \in Range(order)
    BY DEF IInv, TypeOK, Range
  <2>2. Awaiting(w, k)
    BY DEF IInv, StageInv
  <2>3. onlineServices[k] # None \/ newServices[k] # None
    BY <2>1 DEF IInv, PatchesInv, PatchKeys
  <2>4. c.committed # None \/ c.staged # None => c.listed
    BY <2>1 DEF IInv, ListedInv
  <2>5. CASE Kind(k) = "Insert"
    BY <2>2, <2>3, <2>4, <2>5 DEF Kind, Awaiting, Untouched, Prepared, CanDeploy
  <2>6. CASE Kind(k) = "Update"
    BY <2>2, <2>3, <2>4, <2>6 DEF Kind, Awaiting, Untouched, Prepared, CanUpdate
  <2>7. CASE Kind(k) = "Delete"
    BY <2>2, <2>3, <2>4, <2>7 DEF Kind, Awaiting, Untouched, Prepared, CanRemove
  <2>8. Kind(k) \in {"Insert", "Update", "Delete"}
    BY DEF Kind
  <2> QED
    BY <2>5, <2>6, <2>7, <2>8
<1> QED
  BY <1>1, StagesCorrect, PTL

(***************************************************************************)
(* The manager and the workers implement the rolling deployment.           *)
(***************************************************************************)

\* The services of workers whose sites stay as they are stay the same.
LEMMA ServedFrame == UNCHANGED sites => UNCHANGED Served
BY DEF Served, Serving

\* A process that exits takes the deployment down.
LEMMA ExitStep ==
  ASSUME ProcessExit, pc # "dead"
  PROVE  Rolling!Exit
<1>1. pc' = "dead" /\ alive' = {} /\ sites' = [w \in Workers |-> NoSites]
  BY DEF ProcessExit
<1>2. Served' = [w \in Workers |-> NoServices]
  BY <1>1 DEF Served, Serving, NoSites, NoServices, Absent
<1> QED
  BY <1>1, <1>2 DEF Rolling!Exit, Rolling!Nothing, Phase, Goal, NoServices

\* A command accepted in the commit stage switches one name of one worker.
LEMMA SwitchStep ==
  ASSUME TypeOK, pc = "commit", wk \in alive, Key \in Names,
         Answer("ok"), UNCHANGED alive,
         NEW c \in Container, SetSite(c), c.committed = newServices[Key]
  PROVE  Rolling!Next
<1>1. UNCHANGED <<pc, newServices, onlineServices>>
  BY DEF Answer, dispatchConst
<1>2. wk \in Workers
  BY DEF TypeOK
<1>3. \A w \in Workers, k \in Names :
        sites'[w][k] = IF w = wk /\ k = Key THEN c ELSE sites[w][k]
  BY <1>2 DEF SetSite, TypeOK
<1>4. Served' = [Served EXCEPT ![wk][Key] = newServices[Key]]
  <2>1. Served = [w \in Workers |-> [k \in Names |-> sites[w][k].committed]]
    BY DEF Served, Serving
  <2>2. Served' = [w \in Workers |-> [k \in Names |-> sites'[w][k].committed]]
    BY DEF Served, Serving
  <2>3. ASSUME NEW w \in Workers
        PROVE  Served'[w] = IF w = wk THEN [Served[wk] EXCEPT ![Key] = newServices[Key]]
                                      ELSE Served[w]
    <3>1. Served'[w] = [k \in Names |-> sites'[w][k].committed]
      BY <2>2
    <3>2. Served[w] = [k \in Names |-> sites[w][k].committed]
      BY <2>1
    <3>3. CASE w = wk
      BY <1>3, <3>1, <3>2, <3>3
    <3>4. CASE w # wk
      BY <1>3, <3>1, <3>2, <3>4
    <3> QED
      BY <3>3, <3>4
  <2> QED
    BY <1>2, <2>1, <2>2, <2>3
<1>5. Rolling!Switch(wk, Key)
  BY <1>1, <1>4 DEF Rolling!Switch, Phase, Goal
<1> QED
  BY <1>2, <1>5 DEF Rolling!Next

\* Staging, or clearing what is staged, is invisible.
LEMMA HiddenStep ==
  ASSUME TypeOK, pc \in {"prepare", "abort"}, wk \in alive, Key \in Names,
         Answer("ok"), UNCHANGED alive,
         NEW c \in Container, SetSite(c), c.committed = Site.committed
  PROVE  UNCHANGED Rolling!rvars
<1>1. UNCHANGED <<pc, newServices, onlineServices>>
  BY DEF Answer, dispatchConst
<1>2. wk \in Workers
  BY DEF TypeOK
<1>3. \A w \in Workers, k \in Names :
        sites'[w][k].committed = sites[w][k].committed
  BY <1>2 DEF SetSite, Site, TypeOK
<1>4. Served' = Served
  BY <1>3 DEF Served, Serving
<1> QED
  BY <1>1, <1>4 DEF Rolling!rvars, Phase, Goal

\* The thread of a worker that dies takes its services with it.
LEMMA LossStep ==
  ASSUME TypeOK, NEW v \in alive, alive' = alive \ {v},
         sites' = [sites EXCEPT ![v] = NoSites],
         UNCHANGED <<pc, onlineServices, newServices>>
  PROVE  Rolling!LoseWorker(v)
<1>1. \A w \in Workers : sites'[w] = IF w = v THEN NoSites ELSE sites[w]
  BY DEF TypeOK
<1>2. Served' = [Served EXCEPT ![v] = NoServices]
  <2>1. Served' = [w \in Workers |-> [k \in Names |-> sites'[w][k].committed]]
    BY DEF Served, Serving
  <2>2. ASSUME NEW w \in Workers
        PROVE  Served'[w] = IF w = v THEN NoServices ELSE Served[w]
    BY <1>1, <2>1, <2>2 DEF Served, Serving, NoSites, NoServices, Absent
  <2>3. Served = [w \in Workers |-> Served[w]]
    BY DEF Served
  <2> QED
    BY <2>1, <2>2, <2>3
<1> QED
  BY <1>2 DEF Rolling!LoseWorker, Rolling!Nothing, NoServices, Phase, Goal

LEMMA RollingStep ==
  ASSUME IInv, [Next]_vars
  PROVE  [Rolling!Next]_(Rolling!rvars)
<1>0. TypeOK /\ (\A w \in alive : StageInv(w)) /\ GoneInv /\ PatchesInv
  BY DEF IInv
<1>1. ASSUME UNCHANGED <<alive, sites, onlineServices>>, Phase = "stable", Phase' = "stable"
      PROVE  UNCHANGED Rolling!rvars
  BY <1>1, ServedFrame DEF Rolling!rvars, Phase, Goal
<1>2. ASSUME UNCHANGED <<pc, alive, sites, onlineServices, newServices>>
      PROVE  UNCHANGED Rolling!rvars
  BY <1>2, ServedFrame DEF Rolling!rvars, Phase, Goal
<1>3. ASSUME ProcessExit, pc # "dead"
      PROVE  Rolling!Next
  BY <1>3, ExitStep DEF Rolling!Next
<1>4. CASE WriteFile
  BY <1>2, <1>4 DEF WriteFile, workerVars
<1>22. CASE \E v \in Workers : WorkerDies(v)
  <2>1. PICK v \in Workers : WorkerDies(v)
    BY <1>22
  <2>2. /\ v \in alive /\ alive' = alive \ {v}
        /\ sites' = [sites EXCEPT ![v] = NoSites]
        /\ UNCHANGED <<pc, onlineServices, newServices>>
    BY <2>1 DEF WorkerDies, managerVars
  <2> QED
    BY <1>0, <2>1, <2>2, LossStep DEF Rolling!Next
<1>5. CASE Stat
  BY <1>1, <1>5 DEF Stat, workerVars, Phase
<1>6. CASE ReadUnchanged
  BY <1>1, <1>6 DEF ReadUnchanged, workerVars, Phase
<1>7. CASE ReadError \/ ReadFails
  BY <1>1, <1>3, <1>7 DEF ReadError, ReadFails, ReloadFails, workerVars, Phase
<1>8. CASE ReadChanged
  BY <1>1, <1>8 DEF ReadChanged, workerVars, Phase
<1>9. CASE WorkerGone
  BY <1>2, <1>9 DEF WorkerGone, Answer, dispatchConst, workerVars
<1>10. CASE Precommit
  <2>1. /\ pc = "prepare" /\ wk \in alive /\ wk \in Workers /\ Key \in Names
        /\ Site \in Container
    BY <1>0, <1>10, Dispatched DEF Precommit
  <2>2. UNCHANGED <<pc, onlineServices, newServices>>
    BY <1>10 DEF Precommit, Answer, dispatchConst
  <2>3. CASE SetSite(PrecommitSvc(Site, newServices[Key])) /\ UNCHANGED alive /\ Answer("ok")
    <3>1. Kind(Key) \in {"Insert", "Update"} /\ Key \in Range(order)
      BY <1>0, <1>10, Dispatched DEF Precommit
    <3>2. newServices[Key] \in Services
      BY <1>0, <2>1, <3>1 DEF TypeOK, ServiceMap, Kind, PatchesInv, PatchKeys
    <3>3. PrecommitSvc(Site, newServices[Key]) \in Container
      BY <2>1, <3>2, ContainerOps
    <3>4. PrecommitSvc(Site, newServices[Key]).committed = Site.committed
      BY <2>1 DEF PrecommitSvc, Container
    <3> QED
      BY <1>0, <2>1, <2>3, <3>3, <3>4, HiddenStep
  <2>4. CASE UNCHANGED workerVars
    BY <1>2, <2>2, <2>4 DEF workerVars
  <2>5. CASE alive' = alive \ {wk} /\ sites' = [sites EXCEPT ![wk] = NoSites]
    <3>1. Rolling!LoseWorker(wk)
      BY <1>0, <2>1, <2>2, <2>5, LossStep DEF Phase
    <3> QED
      BY <2>1, <3>1 DEF Rolling!Next
  <2> QED
    BY <1>10, <2>3, <2>4, <2>5 DEF Precommit
<1>11. CASE Commit
  <2>1. /\ pc = "commit" /\ wk \in alive /\ wk \in Workers /\ idx \in DOMAIN order
        /\ Key \in Names /\ Key = order[idx] /\ Site \in Container
        /\ Kind(Key) = "Insert" /\ UNCHANGED alive
    BY <1>0, <1>11, Dispatched DEF Commit
  <2>2. CASE SetSite(DeployStaged(Site)) /\ Answer("ok")
    <3>1. ~Sent(idx, wk)
      BY <1>0, <2>1 DEF Sent, TypeOK, Workers
    <3>2. Awaiting(wk, Key)
      BY <1>0, <2>1, <3>1 DEF StageInv
    <3>3. DeployStaged(Site).committed = newServices[Key]
      BY <2>1, <3>2 DEF Awaiting, Untouched, Prepared, Kind, Site, DeployStaged, Container
    <3>4. DeployStaged(Site) \in Container
      BY <2>1 DEF DeployStaged, Container, Absent
    <3> QED
      BY <1>0, <2>1, <2>2, <3>3, <3>4, SwitchStep
  <2>3. CASE UNCHANGED sites /\ Answer("err")
    BY <1>2, <2>1, <2>3 DEF Answer, dispatchConst
  <2> QED
    BY <1>11, <2>2, <2>3 DEF Commit
<1>12. CASE Update
  <2>1. /\ pc = "commit" /\ wk \in alive /\ wk \in Workers /\ idx \in DOMAIN order
        /\ Key \in Names /\ Key = order[idx] /\ Site \in Container
        /\ Kind(Key) = "Update" /\ UNCHANGED alive
    BY <1>0, <1>12, Dispatched DEF Update
  <2>2. CASE SetSite(UpdateWithPrecommitted(Site)) /\ Answer("ok")
    <3>1. ~Sent(idx, wk)
      BY <1>0, <2>1 DEF Sent, TypeOK, Workers
    <3>2. Awaiting(wk, Key)
      BY <1>0, <2>1, <3>1 DEF StageInv
    <3>3. UpdateWithPrecommitted(Site).committed = newServices[Key]
      BY <2>1, <3>2 DEF Awaiting, Untouched, Prepared, Kind, Site, UpdateWithPrecommitted, Container
    <3>4. UpdateWithPrecommitted(Site) \in Container
      BY <2>1 DEF UpdateWithPrecommitted, Container, Absent
    <3> QED
      BY <1>0, <2>1, <2>2, <3>3, <3>4, SwitchStep
  <2>3. CASE UNCHANGED sites /\ Answer("err")
    BY <1>2, <2>1, <2>3 DEF Answer, dispatchConst
  <2> QED
    BY <1>12, <2>2, <2>3 DEF Update
<1>13. CASE Remove
  <2>1. /\ pc = "commit" /\ wk \in alive /\ wk \in Workers /\ idx \in DOMAIN order
        /\ Key \in Names /\ Key = order[idx] /\ Site \in Container
        /\ Kind(Key) = "Delete" /\ UNCHANGED alive
    BY <1>0, <1>13, Dispatched DEF Remove
  <2>2. CASE SetSite(RemoveSite(Site)) /\ Answer("ok")
    <3>1. ~Sent(idx, wk)
      BY <1>0, <2>1 DEF Sent, TypeOK, Workers
    <3>2. Awaiting(wk, Key)
      BY <1>0, <2>1, <3>1 DEF StageInv
    <3>3. RemoveSite(Site).committed = newServices[Key]
      BY <2>1, <3>2 DEF Awaiting, Untouched, Prepared, Kind, Site, RemoveSite, Container, Absent
    <3>4. RemoveSite(Site) \in Container
      BY <2>1 DEF RemoveSite, Container, Absent
    <3> QED
      BY <1>0, <2>1, <2>2, <3>3, <3>4, SwitchStep
  <2>3. CASE UNCHANGED sites /\ Answer("err")
    BY <1>2, <2>1, <2>3 DEF Answer, dispatchConst
  <2> QED
    BY <1>13, <2>2, <2>3 DEF Remove
<1>14. CASE Abort
  <2>1. /\ pc = "abort" /\ wk \in alive /\ Key \in Names /\ Site \in Container
        /\ UNCHANGED alive
    BY <1>0, <1>14, Dispatched DEF Abort
  <2>2. CASE SetSite(AbortPrecommit(Site)) /\ Answer("ok")
    <3>1. /\ AbortPrecommit(Site) \in Container
          /\ AbortPrecommit(Site).committed = Site.committed
      BY <2>1 DEF AbortPrecommit, Container
    <3> QED
      BY <1>0, <2>1, <2>2, <3>1, HiddenStep
  <2>3. CASE UNCHANGED sites /\ Answer("err")
    BY <1>2, <2>1, <2>3 DEF Answer, dispatchConst
  <2> QED
    BY <1>14, <2>2, <2>3 DEF Abort
<1>15. CASE ListenerFactoryPanics \/ CommitFails
  BY <1>3, <1>15 DEF ListenerFactoryPanics, CommitFails, Dispatching
<1>16. CASE SkipDelete \/ PatchDone
  BY <1>2, <1>16 DEF SkipDelete, PatchDone, NextPatch, dispatchConst, workerVars
<1>17. CASE PrepareFails
  BY <1>1, <1>17 DEF PrepareFails, dispatchConst, workerVars, Phase
<1>18. CASE PrepareEnds
  <2>1. /\ pc = "prepare" /\ pc' = "commit"
        /\ UNCHANGED <<alive, sites, newServices>>
    BY <1>18 DEF PrepareEnds, dispatchConst, workerVars
  <2>2. newServices \in Rolling!Configuration
    BY <1>0 DEF TypeOK, ServiceMap, Rolling!Configuration
  <2>3. Rolling!Begin
    BY <2>1, <2>2, ServedFrame DEF Rolling!Begin, Phase, Goal
  <2> QED
    BY <2>3 DEF Rolling!Next
<1>19. CASE CommitEnds
  <2>1. /\ pc = "commit" /\ pc' = "idle" /\ onlineServices' = newServices
        /\ UNCHANGED <<alive, sites>>
    BY <1>19 DEF CommitEnds, workerVars
  <2>2. ASSUME NEW w \in alive
        PROVE  Served[w] = newServices
    <3>1. w \in Workers /\ newServices \in [Names -> Services \cup {None}]
      BY <1>0 DEF TypeOK, ServiceMap
    <3>2. \A k \in Names : Switched(w, k)
      BY <1>0, <1>19, CommitEndsSwitched
    <3> QED
      BY <3>1, <3>2 DEF Served, Serving, Switched
  <2>3. Rolling!Complete
    BY <2>1, <2>2, ServedFrame DEF Rolling!Complete, Phase, Goal
  <2> QED
    BY <2>3 DEF Rolling!Next
<1>20. CASE AbortEnds
  BY <1>1, <1>3, <1>20 DEF AbortEnds, ReloadFails, workerVars, Phase
<1>21. CASE UNCHANGED vars
  BY <1>2, <1>21 DEF vars, managerVars, workerVars
<1> QED
  BY <1>4, <1>5, <1>6, <1>7, <1>8, <1>9, <1>10, <1>11, <1>12, <1>13, <1>14, <1>15, <1>16, <1>17, <1>18, <1>19, <1>20, <1>21, <1>22 DEF Next, Manager, Exited

\* Reloading a configuration is a rolling deployment: the safety part of
\* what the runs check as ImplementsRolling, for any number of workers.
THEOREM ReloadRefinesRolling == Spec => ImplementsRolling
<1>1. Init => Rolling!Init
  <2> SUFFICES ASSUME Init
               PROVE  Rolling!Init
    OBVIOUS
  <2>1. Served = [w \in Workers |-> NoServices]
    BY DEF Init, Served, Serving, NoSites, NoServices, Absent
  <2> QED
    BY <2>1 DEF Init, Startable, Rolling!Init, Rolling!Nothing, Phase, Goal, NoServices
<1>2. IInv /\ [Next]_vars => [Rolling!Next]_(Rolling!rvars)
  BY RollingStep
<1> QED
  BY <1>1, <1>2, StagesCorrect, PTL DEF Spec, ImplementsRolling, Rolling!Spec

(***************************************************************************)
(* Serving with all workers or not at all.                                 *)
(***************************************************************************)

\* Who serves nothing and has a command that leaves what is committed alone
\* serves nothing.
LEMMA IdleStep ==
  ASSUME TypeOK, Idle, Key \in Names, wk \in Workers,
         NEW c \in Container, SetSite(c), c.committed = Site.committed
  PROVE  Idle'
<1>1. \A w \in Workers, k \in Names : sites'[w][k].committed = sites[w][k].committed
  BY DEF SetSite, Site, TypeOK
<1>2. ASSUME NEW w \in Workers
      PROVE  Serving(w)' = Serving(w)
  BY <1>1 DEF Serving
<1> QED
  BY <1>2 DEF Idle, NoServices

\* Nobody serves anything who has no sites.
LEMMA IdleLoss ==
  ASSUME TypeOK, Idle, NEW v \in Workers, sites' = [sites EXCEPT ![v] = NoSites]
  PROVE  Idle'
<1>1. \A w \in Workers : sites'[w] = IF w = v THEN NoSites ELSE sites[w]
  BY DEF TypeOK
<1> QED
  BY <1>1 DEF Idle, Serving, NoSites, NoServices, Absent

LEMMA IdleExit ==
  ASSUME ProcessExit
  PROVE  Idle' /\ pc' = "dead" /\ alive' = {}
BY DEF ProcessExit, Idle, Serving, NoSites, NoServices, Absent

\* A worker that is not there keeps the prepare stage at its first patch.
LEMMA LoadStep ==
  ASSUME IInv, LoadInv, [Next]_vars
  PROVE  LoadInv'
<1>0. /\ TypeOK /\ PatchesInv /\ Workers # {}
      /\ alive # Workers /\ onlineServices = NoServices /\ Idle
      /\ \A k \in PatchKeys(onlineServices, newServices) : Kind(k) = "Insert"
  <2>1. Workers # {}
    BY ConfigAssumption DEF Workers
  <2>2. TypeOK /\ PatchesInv /\ alive # Workers /\ onlineServices = NoServices /\ Idle
    BY DEF IInv, LoadInv
  <2>3. \A k \in Names : onlineServices[k] = None
    BY <2>2 DEF NoServices
  <2>4. \A k \in PatchKeys(onlineServices, newServices) : Kind(k) = "Insert"
    BY <2>3 DEF Kind, PatchKeys
  <2> QED
    BY <2>1, <2>2, <2>4
<1>1. ASSUME UNCHANGED <<alive, sites, onlineServices>>, pc' \notin {"prepare", "commit"}
      PROVE  LoadInv'
  BY <1>0, <1>1 DEF LoadInv, Idle, Serving
<1>2. ASSUME ProcessExit, UNCHANGED onlineServices
      PROVE  LoadInv'
  BY <1>0, <1>2, IdleExit DEF LoadInv
<1>3. PICK v \in Workers \ alive : pc = "prepare" => (wk > v => result = "err")
  <2>1. CASE pc = "prepare"
    BY <2>1 DEF LoadInv
  <2>2. CASE pc # "prepare"
    BY <1>0, <2>2 DEF TypeOK
  <2> QED
    BY <2>1, <2>2
<1>4. CASE WriteFile
  BY <1>4 DEF LoadInv, WriteFile, workerVars, Idle, Serving
<1>5. CASE \E w \in Workers : WorkerDies(w)
  <2>1. PICK w \in Workers : WorkerDies(w)
    BY <1>5
  <2>2. /\ alive' = alive \ {w}
        /\ sites' = [sites EXCEPT ![w] = NoSites]
        /\ UNCHANGED <<pc, idx, wk, result, order, onlineServices>>
    BY <2>1 DEF WorkerDies, managerVars
  <2>3. Idle'
    BY <1>0, <2>2, IdleLoss
  <2>4. alive' # Workers /\ v \in Workers \ alive'
    BY <1>0, <2>2
  <2>5. pc' = "prepare" => idx' = 1 /\ (wk' > v => result' = "err")
    BY <1>3, <2>2 DEF LoadInv
  <2>6. pc' = "commit" => order' = <<>>
    BY <2>2 DEF LoadInv
  <2> QED
    BY <1>0, <2>2, <2>3, <2>4, <2>5, <2>6 DEF LoadInv, NoServices
<1>6. CASE Stat
  BY <1>1, <1>6 DEF Stat, workerVars
<1>7. CASE ReadUnchanged
  BY <1>1, <1>7 DEF ReadUnchanged, workerVars
<1>8. CASE ReadError \/ ReadFails
  BY <1>1, <1>2, <1>8 DEF ReadError, ReadFails, ReloadFails, workerVars
<1>9. CASE ReadChanged
  BY <1>0, <1>3, <1>9 DEF LoadInv, ReadChanged, workerVars, Idle, Serving, Workers
<1>10. CASE WorkerGone
  <2>1. pc # "commit"
    BY <1>10 DEF LoadInv, WorkerGone, Dispatching, AtPatch
  <2>2. result' = "err" /\ UNCHANGED <<pc, idx, order, onlineServices, alive, sites>>
    BY <1>10 DEF WorkerGone, Answer, dispatchConst, workerVars
  <2> QED
    BY <1>0, <1>3, <2>1, <2>2 DEF LoadInv, Idle, Serving
<1>11. CASE Precommit
  <2>1. /\ pc = "prepare" /\ wk \in alive /\ wk \in Workers /\ Key \in Names
        /\ Site \in Container
    BY <1>0, <1>11, Dispatched DEF Precommit
  <2>2. /\ UNCHANGED <<pc, idx, order, onlineServices>>
        /\ wk' = wk + 1 /\ result' \in {result, "err"}
    BY <1>11 DEF Precommit, Answer, dispatchConst
  <2>3. alive' \subseteq alive
    BY <1>11 DEF Precommit, workerVars
  <2>4. wk' > v => result' = "err"
    BY <1>3, <2>1, <2>2 DEF Workers
  <2>5. Idle'
    <3>1. CASE SetSite(PrecommitSvc(Site, newServices[Key]))
      <4>1. Key \in Range(order)
        BY <1>0, <1>11, Dispatched DEF Precommit
      <4>2. newServices[Key] \in Services
        BY <1>0, <2>1, <4>1 DEF TypeOK, ServiceMap, PatchesInv, PatchKeys, NoServices
      <4>3. /\ PrecommitSvc(Site, newServices[Key]) \in Container
            /\ PrecommitSvc(Site, newServices[Key]).committed = Site.committed
        BY <2>1, <4>2, ContainerOps DEF PrecommitSvc, Container
      <4> QED
        BY <1>0, <2>1, <3>1, <4>3, IdleStep
    <3>2. CASE UNCHANGED workerVars
      BY <1>0, <3>2 DEF workerVars, Idle, Serving
    <3>3. CASE sites' = [sites EXCEPT ![wk] = NoSites]
      BY <1>0, <2>1, <3>3, IdleLoss
    <3> QED
      BY <1>11, <3>1, <3>2, <3>3 DEF Precommit
  <2>6. \E w \in Workers \ alive' : wk' > w => result' = "err"
    BY <1>3, <2>3, <2>4
  <2>7. alive' # Workers
    BY <1>3, <2>3
  <2> QED
    BY <1>0, <2>1, <2>2, <2>5, <2>6, <2>7 DEF LoadInv
<1>12. CASE Commit \/ Update \/ Remove \/ ListenerFactoryPanics
  BY <1>12 DEF LoadInv, Commit, Update, Remove, ListenerFactoryPanics, Dispatching, AtPatch
<1>13. CASE Abort
  <2>1. /\ pc = "abort" /\ wk \in alive /\ wk \in Workers /\ Key \in Names
        /\ Site \in Container /\ UNCHANGED alive
    BY <1>0, <1>13, Dispatched DEF Abort
  <2>2. UNCHANGED <<pc, onlineServices>>
    BY <1>13 DEF Abort, Answer, dispatchConst
  <2>3. Idle'
    <3>1. CASE SetSite(AbortPrecommit(Site))
      <4>1. /\ AbortPrecommit(Site) \in Container
            /\ AbortPrecommit(Site).committed = Site.committed
        BY <2>1 DEF AbortPrecommit, Container
      <4> QED
        BY <1>0, <2>1, <3>1, <4>1, IdleStep
    <3>2. CASE UNCHANGED sites
      BY <1>0, <3>2 DEF Idle, Serving
    <3> QED
      BY <1>13, <3>1, <3>2 DEF Abort
  <2> QED
    BY <1>0, <2>1, <2>2, <2>3 DEF LoadInv
<1>14. CASE SkipDelete
  <2>1. Key \in PatchKeys(onlineServices, newServices) /\ Kind(Key) = "Delete"
    BY <1>0, <1>14 DEF SkipDelete, AtPatch, Key, TypeOK, PatchesInv, Range
  <2> QED
    BY <1>0, <2>1
<1>15. CASE PatchDone
  <2>1. pc # "prepare"
    <3>1. wk > v /\ wk = NumWorkers + 1
      BY <1>3, <1>15, ConfigAssumption DEF PatchDone, Workers
    <3> QED
      BY <1>3, <1>15, <3>1 DEF PatchDone
  <2> QED
    BY <2>1, <1>15 DEF LoadInv, PatchDone, NextPatch, dispatchConst, workerVars, Idle, Serving
<1>16. CASE PrepareFails
  BY <1>1, <1>16 DEF PrepareFails, dispatchConst, workerVars
<1>17. CASE PrepareEnds
  <2>1. order = <<>>
    BY <1>0, <1>17 DEF LoadInv, PrepareEnds, TypeOK
  <2> QED
    BY <1>17, <2>1 DEF LoadInv, PrepareEnds, dispatchConst, workerVars, Idle, Serving
<1>18. CASE CommitFails
  BY <1>2, <1>18 DEF CommitFails
<1>19. CASE CommitEnds
  <2>1. pc = "commit" /\ order = <<>>
    BY <1>19 DEF LoadInv, CommitEnds
  <2>2. newServices = NoServices
    BY <1>0, <2>1 DEF TypeOK, ServiceMap, PatchesInv, PatchKeys, NoServices, Range
  <2> QED
    BY <1>0, <1>19, <2>2 DEF LoadInv, CommitEnds, workerVars, Idle, Serving
<1>20. CASE AbortEnds
  BY <1>1, <1>2, <1>20 DEF AbortEnds, ReloadFails, workerVars
<1>21. CASE UNCHANGED vars
  BY <1>21 DEF LoadInv, vars, fileVars, managerVars, workerVars, Idle, Serving
<1> QED
  BY <1>4, <1>5, <1>6, <1>7, <1>8, <1>9, <1>10, <1>11, <1>12, <1>13, <1>14, <1>15, <1>16,
     <1>17, <1>18, <1>19, <1>20, <1>21 DEF Next, Manager, Exited

\* A process with a worker that could not start never serves, on any worker.
THEOREM NothingWithoutAll == Spec => ServesWithAllWorkers
<1>1. Init /\ alive # Workers => LoadInv
  <2> SUFFICES ASSUME Init, alive # Workers
               PROVE  LoadInv
    OBVIOUS
  <2>1. Idle
    BY DEF Init, Idle, Serving, NoSites, NoServices, Absent
  <2> QED
    BY <2>1 DEF Init, LoadInv
<1>2. IInv /\ LoadInv /\ [Next]_vars => LoadInv'
  BY LoadStep
<1>3. LoadInv => Idle
  BY DEF LoadInv
<1> QED
  BY <1>1, <1>2, <1>3, StagesCorrect, PTL DEF Spec, ServesWithAllWorkers

(***************************************************************************)
(* What the workers see, and what makes a reload fail.                     *)
(***************************************************************************)

\* Uniformity goes further than StableAgreement: preparing and aborting, for
\* however many sites and however far they get, change nothing that is served.
THEOREM ServedIsUniform == Spec => []Rolling!Uniform
<1>1. IInv => Rolling!Uniform
  <2> SUFFICES ASSUME IInv, Phase = "stable", NEW w \in alive
               PROVE  Served[w] = onlineServices
    BY DEF Rolling!Uniform, Phase, Goal
  <2>1. w \in Workers /\ StageInv(w) /\ pc \in {"idle", "read", "prepare", "abort"}
    BY DEF IInv, TypeOK, Phase
  <2>2. \A k \in Names : sites[w][k].committed = onlineServices[k]
    BY <2>1 DEF StageInv, Untouched, Prepared
  <2>3. onlineServices \in [Names -> Services \cup {None}]
    BY DEF IInv, TypeOK, ServiceMap
  <2> QED
    BY <2>1, <2>2, <2>3 DEF Served, Serving
<1> QED
  BY <1>1, StagesCorrect, PTL

\* Setting a site of worker wk, done to its table as a function.
LEMMA SetTable ==
  ASSUME TypeOK, wk \in Workers, Key \in Names, NEW c, SetSite(c)
  PROVE  \A w \in Workers :
           sites'[w] = IF w = wk THEN [sites[w] EXCEPT ![Key] = c] ELSE sites[w]
BY DEF SetSite, TypeOK

LEMMA CommandStep ==
  ASSUME IInv, [Next]_vars, NEW w \in Workers, w \in alive', sites[w]' # sites[w]
  PROVE  Table(w)!Next
<1>0. TypeOK /\ PatchesInv
  BY DEF IInv
<1>1. ASSUME wk \in Workers, Key \in Names, NEW c, SetSite(c)
      PROVE  w = wk /\ Site = sites[w][Key] /\ sites[w]' = [sites[w] EXCEPT ![Key] = c]
  BY <1>0, <1>1, SetTable DEF Site
<1>2. CASE Precommit
  <2>1. /\ wk \in Workers /\ Key \in Names /\ Key \in Range(order)
        /\ pc = "prepare" /\ Kind(Key) \in {"Insert", "Update"}
    BY <1>0, <1>2, Dispatched DEF Precommit
  <2>2. newServices[Key] \in Services
    BY <1>0, <2>1 DEF TypeOK, ServiceMap, Kind, PatchesInv, PatchKeys
  <2>3. SetSite(PrecommitSvc(Site, newServices[Key]))
    BY <1>0, <1>2, <2>1 DEF Precommit, workerVars, TypeOK
  <2>4. Table(w)!Precommit(Key, newServices[Key])
    BY <1>1, <2>1, <2>3 DEF Table!Precommit, Table!Set, Table!PrecommitSvc,
                              PrecommitSvc
  <2> QED
    BY <2>1, <2>2, <2>4 DEF Table!Next
<1>3. CASE Commit
  <2>1. wk \in Workers /\ Key \in Names
    BY <1>0, <1>3, Dispatched DEF Commit
  <2>2. CanDeploy(Site) /\ SetSite(DeployStaged(Site))
    BY <1>3 DEF Commit
  <2>3. Table(w)!Commit(Key)
    BY <1>1, <2>1, <2>2 DEF Table!Commit, Table!Set, Table!CanDeploy, Table!DeployStaged,
                              CanDeploy, DeployStaged
  <2> QED
    BY <2>1, <2>3 DEF Table!Next
<1>4. CASE Update
  <2>1. wk \in Workers /\ Key \in Names
    BY <1>0, <1>4, Dispatched DEF Update
  <2>2. CanUpdate(Site) /\ SetSite(UpdateWithPrecommitted(Site))
    BY <1>4 DEF Update
  <2>3. Table(w)!Update(Key)
    BY <1>1, <2>1, <2>2 DEF Table!Update, Table!Set, Table!CanUpdate, Table!UpdateWithPrecommitted,
                              CanUpdate, UpdateWithPrecommitted
  <2> QED
    BY <2>1, <2>3 DEF Table!Next
<1>5. CASE Remove
  <2>1. wk \in Workers /\ Key \in Names
    BY <1>0, <1>5, Dispatched DEF Remove
  <2>2. CanRemove(Site) /\ SetSite(RemoveSite(Site))
    BY <1>5 DEF Remove
  <2>3. Table(w)!Remove(Key)
    BY <1>1, <2>1, <2>2 DEF Table!Remove, Table!Set, Table!CanRemove, Table!RemoveSite, Table!Absent,
                              CanRemove, RemoveSite, Absent
  <2> QED
    BY <2>1, <2>3 DEF Table!Next
<1>6. CASE Abort
  <2>1. wk \in Workers /\ Key \in Names
    BY <1>0, <1>6, Dispatched DEF Abort
  <2>2. CanAbort(Site) /\ SetSite(AbortPrecommit(Site))
    BY <1>6 DEF Abort
  <2>3. Table(w)!Abort(Key)
    BY <1>1, <2>1, <2>2 DEF Table!Abort, Table!Set, Table!CanAbort, Table!AbortPrecommit,
                              CanAbort, AbortPrecommit
  <2> QED
    BY <2>1, <2>3 DEF Table!Next
<1>7. CASE \E v \in Workers : WorkerDies(v)
  <2>1. PICK v \in Workers : WorkerDies(v)
    BY <1>7
  <2> QED
    BY <1>0, <2>1 DEF WorkerDies, TypeOK
<1>8. CASE UNCHANGED workerVars \/ ProcessExit
  BY <1>8 DEF workerVars, ProcessExit
<1>9. CASE ReadError \/ ReadFails \/ AbortEnds \/ CommitFails \/ ListenerFactoryPanics
  BY <1>8, <1>9 DEF ReadError, ReadFails, AbortEnds, CommitFails, ListenerFactoryPanics, ReloadFails
<1> QED
  BY <1>2, <1>3, <1>4, <1>5, <1>6, <1>7, <1>8, <1>9
     DEF Next, Manager, WriteFile, Stat, ReadUnchanged, ReadChanged, WorkerGone,
         SkipDelete, PatchDone, NextPatch, PrepareFails, PrepareEnds, CommitEnds,
         Exited, vars

\* The table of a worker changes by commands as ServiceExecutor implements them:
\* what is proved of a worker there holds for every worker here.
THEOREM WorkersAreCommanded == Spec => WorkersObeyCommands
<1>1. IInv /\ [Next]_vars =>
        [\A w \in Workers : w \in alive' /\ sites[w]' # sites[w] => Table(w)!Next]_vars
  BY CommandStep
<1> QED
  BY <1>1, StagesCorrect, PTL DEF Spec, WorkersObeyCommands

\* A command of the commit stage that fails on a worker that runs is a Commit
\* whose listener does.
LEMMA CommitAnswers ==
  ASSUME IInv, CommitReady, Commit \/ Update \/ Remove
  PROVE  /\ result' = "err" => result = "err" \/ Unbindable
         /\ pc = "commit" /\ UNCHANGED <<pc, idx, order, newServices, onlineServices, alive>>
<1>0. TypeOK
  BY DEF IInv
<1>1. /\ pc = "commit" /\ idx \in DOMAIN order /\ wk \in alive /\ wk \in Workers
      /\ Site = sites[wk][order[idx]] /\ Key = order[idx]
      /\ UNCHANGED <<pc, idx, order, newServices, onlineServices, alive>>
  BY <1>0, Dispatched DEF Commit, Update, Remove, Answer, dispatchConst, Site, Key
<1>2. ~Sent(idx, wk)
  BY <1>0, <1>1 DEF Sent, TypeOK, Workers
<1>3. CASE Commit
  <2>1. Kind(Key) = "Insert"
    BY <1>0, <1>3, Dispatched DEF Commit
  <2>2. CanDeploy(Site)
    BY <1>1, <1>2, <2>1 DEF CommitReady
  <2> QED
    BY <1>1, <1>3, <2>1, <2>2 DEF Commit, Answer, Unbindable
<1>4. CASE Update
  <2>1. Kind(Key) = "Update"
    BY <1>0, <1>4, Dispatched DEF Update
  <2>2. CanUpdate(Site)
    BY <1>1, <1>2, <2>1 DEF CommitReady
  <2> QED
    BY <1>1, <1>4, <2>2 DEF Update, Answer
<1>5. CASE Remove
  <2>1. Kind(Key) = "Delete"
    BY <1>0, <1>5, Dispatched DEF Remove
  <2>2. CanRemove(Site)
    BY <1>1, <1>2, <2>1 DEF CommitReady
  <2> QED
    BY <1>1, <1>5, <2>2 DEF Remove, Answer
<1> QED
  BY <1>3, <1>4, <1>5

\* Every answer that is an error has its cause, as long as it counts.
LEMMA CauseStep ==
  ASSUME IInv, CommitReady, CauseInv, [Next]_vars
  PROVE  CauseInv'
<1>0. TypeOK
  BY DEF IInv
<1>1. ASSUME result' = "ok" \/ pc' \notin {"prepare", "commit"}
      PROVE  CauseInv'
  BY <1>1 DEF CauseInv
<1>2. ASSUME UNCHANGED <<pc, idx, order, newServices, onlineServices, result>>,
             alive' \subseteq alive
      PROVE  CauseInv'
  BY <1>0, <1>2 DEF CauseInv, Unbuildable, Unbindable, Kind, Key, TypeOK
<1>3. CASE WriteFile
  BY <1>2, <1>3 DEF WriteFile, workerVars
<1>4. CASE \E w \in Workers : WorkerDies(w)
  BY <1>2, <1>4 DEF WorkerDies, managerVars
<1>5. CASE Stat \/ ReadUnchanged \/ ReadError \/ ReadFails \/ ReadChanged
  BY <1>1, <1>5 DEF Stat, ReadUnchanged, ReadError, ReadFails, ReadChanged, ReloadFails, ProcessExit
<1>6. CASE WorkerGone
  <2>1. wk \in Workers /\ wk \notin alive /\ alive' = alive
    BY <1>6 DEF WorkerGone, Dispatching, workerVars
  <2> QED
    BY <2>1 DEF CauseInv
<1>7. CASE Precommit
  <2>1. pc = "prepare" /\ UNCHANGED <<pc, idx, order, newServices, onlineServices>>
    BY <1>7 DEF Precommit, Dispatching, Answer, dispatchConst
  <2>2. CASE UNCHANGED alive /\ Answer("ok")
    <3>1. result' = result
      BY <2>2 DEF Answer
    <3> QED
      BY <1>2, <2>1, <2>2, <3>1
  <2>3. CASE "err" \in BuildOutcomes[newServices[Key]]
    BY <2>1, <2>3 DEF CauseInv, Unbuildable, Key
  <2>4. CASE alive' = alive \ {wk}
    <3>1. alive' # Workers
      BY <1>7, <2>4 DEF Precommit, Dispatching
    <3> QED
      BY <2>1, <3>1 DEF CauseInv
  <2> QED
    BY <1>7, <2>2, <2>3, <2>4 DEF Precommit
<1>8. CASE Commit \/ Update \/ Remove
  BY <1>8, CommitAnswers DEF CauseInv, Unbindable, Kind, Key
<1>9. CASE ListenerFactoryPanics \/ CommitFails \/ CommitEnds \/ AbortEnds
  BY <1>1, <1>9 DEF ListenerFactoryPanics, CommitFails, CommitEnds, AbortEnds, DropLocals
<1>10. CASE Abort
  BY <1>1, <1>10 DEF Abort, Dispatching, Answer, dispatchConst
<1>11. CASE SkipDelete \/ PatchDone \/ PrepareFails \/ PrepareEnds
  BY <1>1, <1>11 DEF SkipDelete, PatchDone, NextPatch, PrepareFails, PrepareEnds
<1>12. CASE UNCHANGED vars
  BY <1>2, <1>12 DEF vars, managerVars, workerVars
<1> QED
  BY <1>3, <1>4, <1>5, <1>6, <1>7, <1>8, <1>9, <1>10, <1>11, <1>12 DEF Next, Manager, Exited

\* No reload fails because of what came before it: with all workers there, what
\* is refused has a service that cannot be made, and the process ends at the
\* `expect` of the commit only for a new site that cannot be listened for.
THEOREM FailuresHaveCauses == Spec => FailsForCause
<1>1. Init => CauseInv
  BY DEF Init, CauseInv
<1>2. IInv /\ CommitReady /\ CauseInv /\ [Next]_vars => CauseInv'
  BY CauseStep
<1>3. CauseInv /\ [Next]_vars =>
        [/\ PrepareFails => alive # Workers \/ Unbuildable
         /\ CommitFails => alive # Workers \/ Unbindable]_vars
  BY DEF CauseInv, PrepareFails, CommitFails
<1> QED
  BY <1>1, <1>2, <1>3, StagesCorrect, CommitsAreReady, PTL DEF Spec, FailsForCause

\* Where no factory panics, the promise of ServiceExecutor that reload_panic
\* shows broken is kept: preparing a reload stops nobody from serving.
THEOREM SafeBuildsSpareServing ==
  ASSUME \A s \in Services : "panic" \notin BuildOutcomes[s]
  PROVE  Spec => ValidationSparesServing
<1>1. ASSUME IInv, pc = "prepare", Manager, NEW w \in Workers
      PROVE  Serving(w)' = Serving(w)
  <2>0. TypeOK /\ PatchesInv
    BY <1>1 DEF IInv
  <2>1. CASE Precommit
    <3>1. /\ Key \in Names /\ Key \in Range(order) /\ Site \in Container
          /\ wk \in Workers /\ Kind(Key) \in {"Insert", "Update"}
      BY <2>0, <2>1, Dispatched DEF Precommit
    <3>2. newServices[Key] \in Services
      BY <1>1, <2>0, <3>1 DEF TypeOK, ServiceMap, Kind, PatchesInv, PatchKeys
    <3>3. CASE UNCHANGED workerVars
      BY <3>3 DEF workerVars, Serving
    <3>4. CASE SetSite(PrecommitSvc(Site, newServices[Key]))
      <4>1. PrecommitSvc(Site, newServices[Key]).committed = Site.committed
        BY <3>1 DEF PrecommitSvc, Container
      <4>2. \A k \in Names : sites'[w][k].committed = sites[w][k].committed
        BY <2>0, <3>1, <3>4, <4>1 DEF SetSite, Site, TypeOK
      <4> QED
        BY <4>2 DEF Serving
    <3> QED
      BY <2>1, <3>2, <3>3, <3>4 DEF Precommit
  <2>2. CASE WorkerGone \/ SkipDelete \/ PatchDone \/ PrepareFails \/ PrepareEnds
    BY <2>2 DEF WorkerGone, SkipDelete, PatchDone, NextPatch, PrepareFails, PrepareEnds,
                workerVars, Serving
  <2> QED
    BY <1>1, <2>1, <2>2
       DEF Manager, Stat, ReadUnchanged, ReadError, ReadFails, ReadChanged, Commit, ListenerFactoryPanics,
           Update, Remove, Abort, CommitFails, CommitEnds, AbortEnds, Dispatching
<1>2. IInv /\ [Next]_vars =>
        [pc = "prepare" /\ Manager => \A w \in Workers : Serving(w)' = Serving(w)]_vars
  BY <1>1
<1> QED
  BY <1>2, StagesCorrect, PTL DEF Spec, ValidationSparesServing

(***************************************************************************)
(* Which files are safe to reload.                                         *)
(***************************************************************************)

\* A set of routes has a first one.
LEMMA FirstIsThere ==
  ASSUME NEW S \in SUBSET Nat, S # {}
  PROVE  First(S) \in S /\ \A j \in S : First(S) <= j
<1>1. \E i \in S : \A j \in S : ~(<<j, i>> \in OpToRel(<, Nat))
  <2> DEFINE R == OpToRel(<, Nat)
  <2>1. IsWellFoundedOn(R, Nat)
    BY NatLessThanWellFounded
  <2> HIDE DEF R
  <2>2. \E i \in S : \A j \in S : ~(<<j, i>> \in R)
    BY <2>1, WFMin
  <2> QED
    BY <2>2 DEF R
<1>2. \E i \in S : \A j \in S : i <= j
  <2>1. PICK i \in S : \A j \in S : ~(<<j, i>> \in OpToRel(<, Nat))
    BY <1>1
  <2>2. \A j \in S : ~(j < i)
    BY <2>1 DEF OpToRel
  <2> QED
    BY <2>2
<1> QED
  BY <1>2 DEF First

\* The making of a site can panic exactly where SafeToMake says so: a router
\* gets to a route that has no balancer before it gets to one that it refuses,
\* or the sum of a Thrift site's weights is checked and too large.
THEOREM MakingPanicsExactly ==
  ASSUME NEW server \in ServerConfig
  PROVE  "panic" \in MakeService(server) <=> ~SafeToMake(server)
<1>0. server.routes \in Seq(RouteConfig) /\ server.protocol \in {"http", "thrift"}
  BY DEF ServerConfig
<1>1. DOMAIN server.routes = 1..Len(server.routes) /\ Len(server.routes) \in Nat
  BY <1>0
<1>2. "panic" \in MakeService(server) <=> Stack(server) = "panic"
  BY DEF MakeService
<1>3. CASE server.protocol = "thrift"
  BY <1>2, <1>3 DEF Stack, SafeToMake
<1>4. CASE server.protocol = "http"
  <2> DEFINE routes == server.routes
             failing == Failing(routes)
  <2>1. ASSUME NEW i \in DOMAIN routes
        PROVE  Insert(routes, i) = "panic" <=> ~Balanced(routes[i])
    BY DEF Insert, Balanced
  <2>2. CASE failing = {}
    <3>1. \A i \in DOMAIN routes : Insert(routes, i) = "ok"
      BY <2>2 DEF Failing
    <3>2. \A i \in DOMAIN routes : Balanced(routes[i])
      BY <2>1, <3>1
    <3>3. NewFromIter(routes) = "ok"
      BY <2>2 DEF NewFromIter
    <3> QED
      BY <1>2, <1>4, <3>2, <3>3 DEF Stack, SafeToMake
  <2>3. CASE failing # {}
    <3> DEFINE k == First(failing)
    <3>1. failing \subseteq Nat
      BY <1>1 DEF Failing
    <3>2. k \in failing /\ \A j \in failing : k <= j
      BY <2>3, <3>1, FirstIsThere
    <3>3. k \in DOMAIN routes /\ Insert(routes, k) # "ok"
      BY <3>2 DEF Failing
    <3> HIDE DEF k
    <3>4. \A j \in 1..(k - 1) : Insert(routes, j) = "ok"
      BY <1>1, <3>2, <3>3 DEF Failing
    <3>5. NewFromIter(routes) = Insert(routes, k)
      BY <2>3 DEF NewFromIter, k
    <3>6. CASE Insert(routes, k) = "panic"
      <4>1. ~Balanced(routes[k])
        BY <2>1, <3>3, <3>6
      <4> QED
        BY <1>2, <1>4, <3>3, <3>4, <3>5, <3>6, <4>1 DEF Stack, SafeToMake
    <3>7. CASE Insert(routes, k) # "panic"
      <4>1. ASSUME NEW i \in DOMAIN routes, \A j \in 1..(i - 1) : Insert(routes, j) = "ok"
            PROVE  Balanced(routes[i])
        <5>1. i <= k
          BY <1>1, <3>3, <4>1
        <5>2. CASE i = k
          BY <2>1, <3>3, <3>7, <5>2
        <5>3. CASE i < k
          <6>1. Insert(routes, i) = "ok"
            BY <1>1, <3>3, <3>4, <5>3
          <6> QED
            BY <2>1, <6>1
        <5> QED
          BY <1>1, <3>3, <5>1, <5>2, <5>3
      <4> QED
        BY <1>2, <1>4, <3>5, <3>7, <4>1 DEF Stack, SafeToMake
    <3> QED
      BY <3>6, <3>7
  <2> QED
    BY <2>2, <2>3
<1> QED
  BY <1>0, <1>3, <1>4

\* Where arithmetic is not checked no balancer panics, whatever the weights: a
\* Thrift site is refused with an error, which the reload survives.
THEOREM ThriftSitesAreSafe ==
  ASSUME NEW server \in ServerConfig, server.protocol = "thrift",
         OverflowChecks = FALSE
  PROVE  SafeToMake(server)
<1>1. TryFromUpstreams(server.routes[1]) # "panic"
  BY DEF TryFromUpstreams, WeightedIndex
<1> QED
  BY <1>1 DEF SafeToMake

\* Reloading files whose sites are safe to make keeps the promise that
\* reload_panic shows broken, whatever else is wrong with them: paths that
\* clash, lists that are refused, certificates or listeners that fail.
THEOREM SafeSitesSpareServing ==
  ASSUME NEW Server \in [Services -> ServerConfig],
         BuildOutcomes = [s \in Services |-> MakeService(Server[s])],
         \A s \in Services : SafeToMake(Server[s])
  PROVE  Spec => ValidationSparesServing
<1>1. ASSUME NEW s \in Services
      PROVE  "panic" \notin BuildOutcomes[s]
  <2>1. Server[s] \in ServerConfig /\ BuildOutcomes[s] = MakeService(Server[s])
    BY <1>1
  <2> QED
    BY <1>1, <2>1, MakingPanicsExactly
<1> QED
  BY <1>1, SafeBuildsSpareServing
=============================================================================
