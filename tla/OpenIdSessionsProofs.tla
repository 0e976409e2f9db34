------------------------ MODULE OpenIdSessionsProofs ------------------------
(***************************************************************************)
(* Proofs about OpenIdSessions, for any requests, workers and codes and    *)
(* any bounds on the redirects and restarts.                               *)
(***************************************************************************)
EXTENDS OpenIdSessions, FiniteSetTheorems, TLAPS

-----------------------------------------------------------------------------
(* The types, unfolded, and the visits that are counted.                   *)

\* Nothing that is there is None.
LEMMA Distinct ==
  /\ None \notin Workers /\ None \notin Sessions /\ None \notin Codes
  /\ None \notin SessionState /\ None \notin CallbackPair
  /\ \A s \in Sessions : s \in Nat /\ s # 0 /\ s <= MaxSessions
  /\ MaxSessions \in Nat /\ MaxRestarts \in Nat
BY OpenIdAssumption DEF Sessions, States

\* What the type invariant says of single values.
LEMMA Types ==
  ASSUME TypeOK
  PROVE  /\ issued \in Nat /\ base \in Nat /\ restarts \in Nat
         /\ base <= issued /\ issued <= MaxSessions
         /\ \A s \in Sessions : store[s] # None =>
              /\ store[s].nonce \in Sessions
              /\ store[s].access_token \in Codes \cup {None}
              /\ store[s] = [nonce |-> store[s].nonce, access_token |-> store[s].access_token]
         /\ \A r \in Requests :
              /\ req[r] # None => /\ req[r] \in CallbackPair
                                  /\ req[r].code \in Codes \cup {None}
              /\ session[r] \in Sessions \cup {None} /\ nonce[r] \in Sessions \cup {None}
              /\ at[r] \in Workers \cup {None} /\ pc[r] \in Places
<1>1. issued \in 0..MaxSessions /\ base \in 0..issued /\ restarts \in 0..MaxRestarts
  BY DEF TypeOK
<1>2. \A s \in Sessions : store[s] # None => store[s] \in SessionState
  BY DEF TypeOK
<1>3. \A x \in SessionState :
        /\ x.nonce \in Sessions /\ x.access_token \in Codes \cup {None}
        /\ x = [nonce |-> x.nonce, access_token |-> x.access_token]
  BY DEF SessionState
<1>4. \A r \in Requests : req[r] # None => req[r] \in CallbackPair
  BY DEF TypeOK
<1>5. \A x \in CallbackPair : x.code \in Codes \cup {None}
  BY DEF CallbackPair
<1> QED
  BY <1>1, <1>2, <1>3, <1>4, <1>5, Distinct DEF TypeOK

\* Nobody who is not counted has to be redirected.
LEMMA CountKept ==
  ASSUME IInv, Visiting' \subseteq Visiting, issued' = issued
  PROVE  CountInv'
<1>1. IsFiniteSet(Visiting) /\ issued + Cardinality(Visiting) <= MaxSessions
  BY DEF IInv, CountInv
<1>2. /\ IsFiniteSet(Visiting') /\ Cardinality(Visiting') <= Cardinality(Visiting)
      /\ Cardinality(Visiting') \in Nat /\ Cardinality(Visiting) \in Nat
  BY <1>1, FS_Subset, FS_CardinalityType
<1> QED
  BY <1>1, <1>2, Types, Distinct DEF IInv, CountInv

\* The initial states satisfy the invariant.
LEMMA InvInit == Init => IInv
<1> SUFFICES ASSUME Init PROVE IInv
  OBVIOUS
<1>1. TypeOK
  BY Distinct DEF Init, TypeOK, Places
<1>2. CountInv
  <2>1. Visiting = {}
    BY DEF Init, Visiting
  <2> QED
    BY <2>1, FS_EmptySet, Distinct DEF Init, CountInv
<1>3. StoreInv
  BY Distinct DEF Init, StoreInv, OfThisLife
<1>4. RequestInv /\ BlocksOnlyOnForeign
  BY DEF Init, RequestInv, BlocksOnlyOnForeign
<1> QED
  BY <1>1, <1>2, <1>3, <1>4 DEF IInv

-----------------------------------------------------------------------------
(* One request moves.                                                      *)

\* A request that is not with a stuck worker goes from one place to another,
\* with what it needs there; nothing else changes but the codes taken.
LEMMA InvMoves ==
  ASSUME IInv, NEW r \in Requests, at[r] \notin stuck, CountInv',
         UNCHANGED <<store, issued, workerVars, lifeVars>>,
         used \subseteq used', used' \subseteq Codes,
         NEW pair \in CallbackPair \cup {None}, NEW place \in Places,
         NEW w \in Workers \cup {None},
         NEW s \in Sessions \cup {None}, NEW n \in Sessions \cup {None},
         req' = [req EXCEPT ![r] = pair], pc' = [pc EXCEPT ![r] = place],
         at' = [at EXCEPT ![r] = w],
         session' = [session EXCEPT ![r] = s], nonce' = [nonce EXCEPT ![r] = n],
         place = "idle" <=> w = None,
         place \in {"exchange", "taken", "refused"} =>
           /\ pair # None /\ pair.state \in Sessions
           /\ store[pair.state] # None /\ n = pair.state,
         place = "taken" => pair.code # None /\ pair.code \in used',
         place = "inner" => Authed(s)
  PROVE  IInv'
<1>1. UNCHANGED <<store, issued, stuck, dead, base, restarts>>
  BY DEF workerVars, lifeVars
<1>2. /\ pc'[r] = place /\ at'[r] = w /\ req'[r] = pair /\ session'[r] = s /\ nonce'[r] = n
      /\ \A q \in Requests \ {r} :
           /\ pc'[q] = pc[q] /\ at'[q] = at[q] /\ req'[q] = req[q]
           /\ session'[q] = session[q] /\ nonce'[q] = nonce[q]
  BY DEF IInv, TypeOK
<1>3. TypeOK'
  BY <1>1 DEF IInv, TypeOK
<1>4. StoreInv'
  BY <1>1 DEF IInv, StoreInv, OfThisLife
<1>5. RequestInv'
  <2> SUFFICES ASSUME NEW q \in Requests
               PROVE  /\ pc'[q] = "idle" <=> at'[q] = None
                      /\ pc'[q] \in {"exchange", "taken", "refused"} =>
                           /\ req'[q] # None /\ req'[q].state \in Sessions
                           /\ store'[req'[q].state] # None /\ nonce'[q] = req'[q].state
                      /\ pc'[q] = "taken" => req'[q].code # None /\ req'[q].code \in used'
                      /\ pc'[q] = "inner" => /\ session'[q] \in Sessions
                                             /\ store'[session'[q]] # None
                                             /\ store'[session'[q]].access_token # None
    BY DEF RequestInv, Known, Authed
  <2>1. CASE q = r
    BY <1>1, <1>2, <2>1 DEF Authed
  <2>2. CASE q # r
    BY <1>1, <1>2, <2>2 DEF IInv, RequestInv, Known, Authed
  <2> QED
    BY <2>1, <2>2
<1>6. BlocksOnlyOnForeign'
  BY <1>1, <1>2 DEF IInv, BlocksOnlyOnForeign, Foreign, OfThisLife
<1> QED
  BY <1>3, <1>4, <1>5, <1>6 DEF IInv

\* A request is sent to a live worker, whatever it has in its URL.
LEMMA InvSend ==
  ASSUME IInv, NEW r \in Requests, NEW pair \in CallbackPair \cup {None},
         Send(r, pair), CountInv'
  PROVE  IInv'
<1>1. PICK w \in Workers \ dead : at' = [at EXCEPT ![r] = w]
  BY DEF Send
<1>2. at[r] = None /\ None \notin stuck /\ w # None
  BY Distinct DEF Send, IInv, RequestInv, TypeOK
<1>3. /\ session' = [session EXCEPT ![r] = session[r]] /\ session[r] \in Sessions \cup {None}
      /\ nonce' = [nonce EXCEPT ![r] = nonce[r]] /\ nonce[r] \in Sessions \cup {None}
  BY DEF Send, IInv, TypeOK
<1>4. /\ pc' = [pc EXCEPT ![r] = "check"] /\ "check" \in Places
      /\ req' = [req EXCEPT ![r] = pair]
      /\ UNCHANGED <<store, issued, workerVars, lifeVars, used>>
  BY DEF Send, Goto, Places
<1>5. used \subseteq used' /\ used' \subseteq Codes
  BY <1>4 DEF IInv, TypeOK
<1> QED
  BY <1>1, <1>2, <1>3, <1>4, <1>5, InvMoves

\* A visit is counted until it is redirected.
LEMMA InvVisit == ASSUME IInv, NEW r \in Requests, Visit(r) PROVE IInv'
<1>1. Send(r, None) /\ issued + Cardinality(Visiting) < MaxSessions
  BY DEF Visit
<1>2. /\ Visiting' \subseteq Visiting \cup {r} /\ issued' = issued
  BY <1>1 DEF Send, Goto, Visiting, IInv, TypeOK
<1>3. IsFiniteSet(Visiting) /\ Cardinality(Visiting) \in Nat
  BY FS_CardinalityType DEF IInv, CountInv
<1>4. /\ IsFiniteSet(Visiting \cup {r})
      /\ Cardinality(Visiting \cup {r}) <= Cardinality(Visiting) + 1
      /\ Cardinality(Visiting \cup {r}) \in Nat
  BY <1>3, FS_AddElement, FS_CardinalityType
<1>5. /\ IsFiniteSet(Visiting') /\ Cardinality(Visiting') <= Cardinality(Visiting \cup {r})
      /\ Cardinality(Visiting') \in Nat
  BY <1>2, <1>4, FS_Subset, FS_CardinalityType
<1>6. CountInv'
  BY <1>1, <1>2, <1>3, <1>4, <1>5, Types, Distinct DEF IInv, CountInv
<1> QED
  BY <1>1, <1>6, InvSend

\* A callback is never redirected, so it is not counted.
LEMMA InvCallback == ASSUME IInv, NEW r \in Requests, Callback(r) PROVE IInv'
<1>1. PICK pair \in CallbackPair : Send(r, pair)
  BY DEF Callback
<1>2. Visiting' \subseteq Visiting /\ issued' = issued
  BY <1>1, Distinct DEF Send, Goto, Visiting, IInv, TypeOK
<1> QED
  BY <1>1, <1>2, CountKept, InvSend

\* A request moves on inside its worker, which keeps what it was asked.
LEMMA InvWithin ==
  ASSUME IInv, NEW r \in Requests, NEW from \in Places, Runs(r, from),
         NEW place \in Places \ {"idle", "check"}, place = "discover" => from = "check",
         from # "idle", Goto(r, place),
         NEW s \in Sessions \cup {None}, NEW n \in Sessions \cup {None},
         session' = [session EXCEPT ![r] = s], nonce' = [nonce EXCEPT ![r] = n],
         UNCHANGED <<store, issued, workerVars, lifeVars, req, at>>,
         used \subseteq used', used' \subseteq Codes,
         place \in {"exchange", "taken", "refused"} =>
           req[r] # None /\ Known(r) /\ n = req[r].state,
         place = "taken" => req[r].code # None /\ req[r].code \in used',
         place = "inner" => Authed(s)
  PROVE  IInv'
<1>1. /\ pc[r] = from /\ at[r] \notin stuck /\ pc' = [pc EXCEPT ![r] = place]
      /\ req' = [req EXCEPT ![r] = req[r]] /\ at' = [at EXCEPT ![r] = at[r]]
      /\ req[r] \in CallbackPair \cup {None} /\ at[r] \in Workers \cup {None}
  BY DEF Runs, Goto, IInv, TypeOK
<1>2. at[r] # None
  BY <1>1 DEF IInv, RequestInv
<1>3. Visiting' \subseteq Visiting
  BY <1>1 DEF Visiting, IInv, TypeOK
<1>4. CountInv'
  BY <1>3, CountKept
<1>5. place \in {"exchange", "taken", "refused"} =>
        /\ req[r] # None /\ req[r].state \in Sessions
        /\ store[req[r].state] # None /\ n = req[r].state
  BY DEF Known
<1> QED
  BY <1>1, <1>2, <1>4, <1>5, InvMoves

\* The provider takes a code once.
LEMMA InvTakeCode == ASSUME IInv, NEW r \in Requests, TakeCode(r) PROVE IInv'
<1>1. Runs(r, "exchange") /\ pc[r] = "exchange" /\ "exchange" \in Places
  BY DEF TakeCode, Runs, Places
<1>2. req[r] # None /\ Known(r) /\ nonce[r] = req[r].state
  BY <1>1 DEF IInv, RequestInv
<1>3. PICK place \in {"taken", "refused"} :
        /\ Goto(r, place)
        /\ place = "taken" => req[r].code # None /\ used' = used \cup {req[r].code}
        /\ place = "refused" => used' = used
  BY DEF TakeCode
<1>4. place \in Places \ {"idle", "check"} /\ place # "discover" /\ place # "inner"
  BY DEF Places
<1>5. /\ session' = [session EXCEPT ![r] = session[r]] /\ session[r] \in Sessions \cup {None}
      /\ nonce' = [nonce EXCEPT ![r] = nonce[r]] /\ nonce[r] \in Sessions \cup {None}
      /\ UNCHANGED <<store, issued, workerVars, lifeVars, req, at>>
  BY DEF TakeCode, IInv, TypeOK
<1>6. used \subseteq used' /\ used' \subseteq Codes /\ (place = "taken" => req[r].code \in used')
  BY <1>2, <1>3, Types DEF IInv, TypeOK
<1> QED
  BY <1>1, <1>2, <1>3, <1>4, <1>5, <1>6, InvWithin

-----------------------------------------------------------------------------
(* Requests end.                                                           *)

\* What has ended leaves nothing behind, and the rest is as it was.
LEMMA Ended ==
  ASSUME IInv, NEW R \in SUBSET Requests, End(R)
  PROVE  /\ Visiting' = Visiting \ R
         /\ req' \in [Requests -> CallbackPair \cup {None}] /\ pc' \in [Requests -> Places]
         /\ at' \in [Requests -> Workers \cup {None}]
         /\ {session', nonce'} \subseteq [Requests -> Sessions \cup {None}]
         /\ \A r \in R : pc'[r] = "idle" /\ at'[r] = None
         /\ \A r \in Requests \ R :
              /\ pc'[r] = pc[r] /\ at'[r] = at[r] /\ req'[r] = req[r]
              /\ session'[r] = session[r] /\ nonce'[r] = nonce[r]
<1>1. /\ pc' = [r \in Requests |-> IF r \in R THEN "idle" ELSE pc[r]]
      /\ at' = [r \in Requests |-> IF r \in R THEN None ELSE at[r]]
      /\ req' = [r \in Requests |-> IF r \in R THEN None ELSE req[r]]
      /\ session' = [r \in Requests |-> IF r \in R THEN None ELSE session[r]]
      /\ nonce' = [r \in Requests |-> IF r \in R THEN None ELSE nonce[r]]
  BY DEF End
<1>2. Visiting' = Visiting \ R
  BY <1>1 DEF Visiting
<1>3. "idle" \in Places
  BY DEF Places
<1> QED
  BY <1>1, <1>2, <1>3 DEF IInv, TypeOK

\* What goes on goes on if the store keeps its sessions and their tokens.
LEMMA RequestsGoOn ==
  ASSUME IInv, NEW R \in SUBSET Requests, End(R), used \subseteq used',
         \A s \in Sessions : store[s] # None =>
           store'[s] # None /\ (store[s].access_token # None => store'[s].access_token # None)
  PROVE  RequestInv'
<1> SUFFICES ASSUME NEW q \in Requests
             PROVE  /\ pc'[q] = "idle" <=> at'[q] = None
                    /\ pc'[q] \in {"exchange", "taken", "refused"} =>
                         /\ req'[q] # None /\ req'[q].state \in Sessions
                         /\ store'[req'[q].state] # None /\ nonce'[q] = req'[q].state
                    /\ pc'[q] = "taken" => req'[q].code # None /\ req'[q].code \in used'
                    /\ pc'[q] = "inner" => /\ session'[q] \in Sessions
                                           /\ store'[session'[q]] # None
                                           /\ store'[session'[q]].access_token # None
  BY DEF RequestInv, Known, Authed
<1>1. CASE q \in R
  BY <1>1, Ended
<1>2. CASE q \notin R
  <2>1. /\ pc'[q] = pc[q] /\ at'[q] = at[q] /\ req'[q] = req[q]
        /\ session'[q] = session[q] /\ nonce'[q] = nonce[q]
    BY <1>2, Ended
  <2> QED
    BY <2>1 DEF IInv, RequestInv, Known, Authed
<1> QED
  BY <1>1, <1>2

\* A worker that panics leaves the store as it is, and the stuck ones stuck.
LEMMA InvPanics ==
  ASSUME IInv, NEW w \in Workers, w \notin stuck, Panics(w) PROVE IInv'
<1> DEFINE R == {r \in Requests : at[r] = w}
<1>1. /\ dead' = dead \cup {w} /\ End(R) /\ R \in SUBSET Requests
      /\ UNCHANGED <<store, issued, stuck, base, restarts, used>>
  BY DEF Panics, lifeVars
<1>2. CountInv'
  <2>1. Visiting' \subseteq Visiting
    BY <1>1, Ended
  <2> QED
    BY <1>1, <2>1, CountKept
<1>3. TypeOK'
  BY <1>1, Ended DEF IInv, TypeOK
<1>4. StoreInv'
  BY <1>1 DEF IInv, StoreInv, OfThisLife
<1>5. RequestInv'
  BY <1>1, RequestsGoOn
<1>6. BlocksOnlyOnForeign'
  <2>1. \A r \in Requests : at[r] \in stuck =>
          pc'[r] = pc[r] /\ at'[r] = at[r] /\ req'[r] = req[r]
    BY <1>1, Ended
  <2> QED
    BY <1>1, <2>1 DEF IInv, BlocksOnlyOnForeign, Foreign, OfThisLife
<1> QED
  BY <1>2, <1>3, <1>4, <1>5, <1>6 DEF IInv

\* With the process go the store and every request.
LEMMA InvRestart == ASSUME IInv, Restart PROVE IInv'
<1>1. /\ restarts < MaxRestarts /\ restarts' = restarts + 1 /\ base' = issued
      /\ store' = [s \in Sessions |-> None] /\ stuck' = {} /\ dead' = {} /\ End(Requests)
      /\ UNCHANGED <<issued, used>> /\ Requests \in SUBSET Requests
  BY DEF Restart
<1>2. CountInv'
  <2>1. Visiting' \subseteq Visiting
    BY <1>1, Ended
  <2> QED
    BY <1>1, <2>1, CountKept
<1>3. restarts' \in 0..MaxRestarts /\ base' \in 0..issued'
  BY <1>1, Distinct, Types DEF IInv
<1>4. TypeOK'
  BY <1>1, <1>3, Ended DEF IInv, TypeOK
<1>5. StoreInv'
  <2>1. \A s \in Sessions : s \notin issued + 1..issued
    BY Distinct, Types DEF IInv
  <2> QED
    BY <1>1, <2>1 DEF StoreInv, OfThisLife
<1>6. RequestInv'
  <2>1. \A r \in Requests : pc'[r] = "idle" /\ at'[r] = None
    BY <1>1, Ended
  <2> QED
    BY <2>1 DEF RequestInv
<1>7. BlocksOnlyOnForeign'
  BY <1>1 DEF BlocksOnlyOnForeign
<1> QED
  BY <1>2, <1>4, <1>5, <1>6, <1>7 DEF IInv

\* A request that runs is with a worker that is not stuck.
LEMMA Running ==
  ASSUME IInv, NEW r \in Requests, NEW place \in Places \ {"idle"}, Runs(r, place)
  PROVE  at[r] \in Workers /\ at[r] \notin stuck
BY Types DEF IInv, RequestInv, Runs

\* The exchange with the provider fails, or what comes before it.
LEMMA InvFail == ASSUME IInv, NEW r \in Requests, Fail(r) PROVE IInv'
<1>1. Panics(at[r])
  BY DEF Fail, CheckFails, DiscoverFails, ExchangeFails
<1>2. at[r] \in Workers /\ at[r] \notin stuck
  BY Running DEF Fail, CheckFails, DiscoverFails, ExchangeFails, Exchanging, Places
<1> QED
  BY <1>1, <1>2, InvPanics

-----------------------------------------------------------------------------
(* Waiting for the lock.                                                   *)

\* Somebody waits, and there is a foreign callback with a stuck worker.
LEMMA InvBlocks ==
  ASSUME IInv, NEW r \in Requests, at[r] \in Workers, Blocks(r),
         stuck # {} \/ Foreign(r)
  PROVE  IInv'
<1>1. /\ stuck' = stuck \cup {at[r]}
      /\ UNCHANGED <<store, issued, dead, base, restarts, req, pc, at, session, nonce, used>>
  BY DEF Blocks, lifeVars, requestVars
<1>2. CountInv' /\ TypeOK'
  BY <1>1 DEF IInv, CountInv, Visiting, TypeOK
<1>3. StoreInv' /\ RequestInv'
  BY <1>1 DEF IInv, StoreInv, OfThisLife, RequestInv, Known, Authed
<1>4. BlocksOnlyOnForeign'
  BY <1>1 DEF IInv, BlocksOnlyOnForeign, Foreign, OfThisLife
<1> QED
  BY <1>2, <1>3, <1>4 DEF IInv

\* The lock is waited for where somebody waits already.
LEMMA InvQueues ==
  ASSUME IInv, NEW r \in Requests, NEW place \in Places \ {"idle"}, Runs(r, place),
         stuck # {}, Blocks(r)
  PROVE  IInv'
BY InvBlocks, Running

\* A state that is not in the store was not sent out by this process.
LEMMA InvUnknownSession == ASSUME IInv, NEW r \in Requests, UnknownSession(r) PROVE IInv'
<1>1. /\ Runs(r, "discover") /\ pc[r] = "discover" /\ "discover" \in Places \ {"idle"}
      /\ req[r] # None /\ ~Known(r) /\ (Blocks(r) \/ Panics(at[r]))
  BY DEF UnknownSession, Runs, Places
<1>2. at[r] \in Workers /\ at[r] \notin stuck
  BY <1>1, Running
<1>3. Foreign(r)
  <2>1. \A s : s \in OfThisLife => s \in Sessions
    BY Types, Distinct DEF IInv, OfThisLife, Sessions
  <2> QED
    BY <1>1, <2>1 DEF IInv, StoreInv, Known, Foreign
<1> QED
  BY <1>1, <1>2, <1>3, InvBlocks, InvPanics

-----------------------------------------------------------------------------
(* The handler.                                                            *)

\* What is let through by its cookie has the session that the cookie names.
LEMMA InvCheck == ASSUME IInv, NEW r \in Requests, Check(r) PROVE IInv'
<1>1. Runs(r, "check") /\ "check" \in Places \ {"idle"}
  BY DEF Check, Places
<1>2. PICK cookie \in {None} \cup 0..issued :
        IF cookie # None /\ stuck # {} THEN Blocks(r)
        ELSE /\ IF Authed(cookie)
                THEN session' = [session EXCEPT ![r] = cookie] /\ Goto(r, "inner")
                ELSE UNCHANGED session /\ Goto(r, "discover")
             /\ UNCHANGED <<store, issued, workerVars, lifeVars, req, at, nonce, used>>
  BY DEF Check
<1>3. CASE cookie # None /\ stuck # {}
  BY <1>1, <1>2, <1>3, InvQueues
<1>4. CASE ~(cookie # None /\ stuck # {})
  <2>1. /\ UNCHANGED <<store, issued, workerVars, lifeVars, req, at>>
        /\ nonce' = [nonce EXCEPT ![r] = nonce[r]] /\ nonce[r] \in Sessions \cup {None}
        /\ used \subseteq used' /\ used' \subseteq Codes
    BY <1>2, <1>4 DEF IInv, TypeOK
  <2>2. CASE Authed(cookie)
    <3>1. session' = [session EXCEPT ![r] = cookie] /\ Goto(r, "inner") /\ cookie \in Sessions
      BY <1>2, <1>4, <2>2 DEF Authed
    <3> DEFINE place == "inner"
    <3>2. place \in Places \ {"idle", "check"} /\ "check" \in Places
      BY DEF Places
    <3>3. /\ place \notin {"exchange", "taken", "refused", "discover"} /\ "check" # "idle"
          /\ Goto(r, place)
      BY <3>1
    <3> HIDE DEF place
    <3> QED
      BY <1>1, <2>1, <2>2, <3>1, <3>2, <3>3, InvWithin
  <2>3. CASE ~Authed(cookie)
    <3>1. /\ session' = [session EXCEPT ![r] = session[r]] /\ Goto(r, "discover")
          /\ session[r] \in Sessions \cup {None}
      BY <1>2, <1>4, <2>3 DEF IInv, TypeOK
    <3> DEFINE place == "discover"
    <3>2. place \in Places \ {"idle", "check"} /\ "check" \in Places
      BY DEF Places
    <3>3. /\ place \notin {"exchange", "taken", "refused", "inner"} /\ "check" # "idle"
          /\ Goto(r, place)
      BY <3>1
    <3> HIDE DEF place
    <3> QED
      BY <1>1, <2>1, <3>1, <3>2, <3>3, InvWithin
  <2> QED
    BY <2>2, <2>3
<1> QED
  BY <1>3, <1>4

\* Who has to be redirected is counted, so there is a session left to issue.
LEMMA SessionsLast ==
  ASSUME IInv, NEW r \in Visiting
  PROVE  /\ issued + 1 \in Sessions
         /\ Cardinality(Visiting \ {r}) = Cardinality(Visiting) - 1
         /\ IsFiniteSet(Visiting \ {r}) /\ Cardinality(Visiting) \in Nat
<1>1. IsFiniteSet(Visiting) /\ issued + Cardinality(Visiting) <= MaxSessions
  BY DEF IInv, CountInv
<1>2. /\ Cardinality(Visiting \ {r}) = Cardinality(Visiting) - 1
      /\ IsFiniteSet(Visiting \ {r})
      /\ Cardinality(Visiting) \in Nat /\ Cardinality(Visiting \ {r}) \in Nat
  BY <1>1, FS_RemoveElement, FS_CardinalityType
<1> QED
  BY <1>1, <1>2, Distinct, Types DEF IInv, Sessions

\* A state is in the store when it is sent out.
LEMMA InvRedirect == ASSUME IInv, NEW r \in Requests, Redirect(r) PROVE IInv'
<1>1. Runs(r, "discover") /\ pc[r] = "discover" /\ req[r] = None
      /\ "discover" \in Places \ {"idle"}
  BY DEF Redirect, Runs, Places
<1>2. CASE stuck # {}
  BY <1>1, <1>2, InvQueues DEF Redirect
<1>3. CASE stuck = {}
  <2> DEFINE n == issued + 1
             new == [nonce |-> n, access_token |-> None]
  <2>1. /\ issued' = n /\ store' = [store EXCEPT ![n] = new]
        /\ End({r}) /\ {r} \in SUBSET Requests
        /\ UNCHANGED <<stuck, dead, base, restarts, used>>
    BY <1>3 DEF Redirect, workerVars, lifeVars
  <2>2. r \in Visiting
    BY <1>1 DEF Visiting
  <2>3. n \in Sessions /\ n \in Nat /\ n <= MaxSessions /\ issued \in Nat /\ base \in Nat
        /\ base <= issued
    BY <2>2, SessionsLast, Distinct, Types DEF IInv
  <2>4. new \in SessionState /\ new # None
    BY <2>3, Distinct DEF SessionState
  <2>5. /\ store'[n] = new /\ \A s \in Sessions : s # n => store'[s] = store[s]
        /\ store[n] = None
    <3>1. n \notin OfThisLife
      BY <2>3 DEF OfThisLife
    <3> QED
      BY <2>1, <2>3, <3>1 DEF IInv, TypeOK, StoreInv
  <2>6. CountInv'
    <3>1. Visiting' = Visiting \ {r}
      BY <2>1, Ended
    <3> QED
      BY <2>1, <2>2, <2>3, <3>1, SessionsLast DEF IInv, CountInv
  <2>7. TypeOK'
    <3>1. issued' \in 0..MaxSessions /\ base' \in 0..issued'
      BY <2>1, <2>3
    <3>2. store' \in [Sessions -> SessionState \cup {None}]
      BY <2>1, <2>4 DEF IInv, TypeOK
    <3> QED
      BY <2>1, <3>1, <3>2, Ended DEF IInv, TypeOK
  <2>8. StoreInv'
    <3> SUFFICES ASSUME NEW s \in Sessions
                 PROVE  /\ store'[s] # None <=> s \in base + 1..n
                        /\ store'[s] # None =>
                             /\ store'[s].nonce = s
                             /\ store'[s].access_token # None =>
                                  /\ store'[s].access_token.nonce = s
                                  /\ store'[s].access_token \in used
      BY <2>1 DEF StoreInv, OfThisLife
    <3>1. CASE s = n
      BY <2>3, <2>4, <2>5, <3>1
    <3>2. CASE s # n
      <4>1. s \in base + 1..n <=> s \in OfThisLife
        BY <2>3, <3>2, Distinct DEF OfThisLife
      <4> QED
        BY <2>5, <3>2, <4>1 DEF IInv, StoreInv
    <3> QED
      BY <3>1, <3>2
  <2>9. RequestInv'
    <3>1. \A s \in Sessions : store[s] # None => store'[s] = store[s]
      BY <2>5
    <3> QED
      BY <2>1, <3>1, RequestsGoOn
  <2>10. BlocksOnlyOnForeign'
    BY <1>3, <2>1 DEF BlocksOnlyOnForeign
  <2> QED
    BY <2>6, <2>7, <2>8, <2>9, <2>10 DEF IInv
<1> QED
  BY <1>2, <1>3

\* A callback goes on with the session that it found.
LEMMA InvFindSession == ASSUME IInv, NEW r \in Requests, FindSession(r) PROVE IInv'
<1>1. Runs(r, "discover") /\ "discover" \in Places \ {"idle"} /\ req[r] # None
  BY DEF FindSession, Places
<1>2. CASE stuck # {}
  BY <1>1, <1>2, InvQueues DEF FindSession
<1>3. CASE stuck = {}
  <2>1. /\ Known(r) /\ nonce' = [nonce EXCEPT ![r] = store[req[r].state].nonce]
        /\ Goto(r, "exchange") /\ "exchange" \in Places
        /\ session' = [session EXCEPT ![r] = session[r]] /\ session[r] \in Sessions \cup {None}
        /\ UNCHANGED <<store, issued, workerVars, lifeVars, req, at>>
        /\ used \subseteq used' /\ used' \subseteq Codes
    BY <1>3 DEF FindSession, IInv, TypeOK, Places
  <2>2. store[req[r].state].nonce = req[r].state /\ req[r].state \in Sessions
    BY <2>1 DEF IInv, StoreInv, Known
  <2> DEFINE place == "exchange"
             n == req[r].state
  <2>3. place \in Places \ {"idle", "check"} /\ "discover" \in Places
    BY DEF Places
  <2>4. place \notin {"taken", "inner", "discover"} /\ "discover" # "idle" /\ Goto(r, place)
    BY <2>1
  <2>5. nonce' = [nonce EXCEPT ![r] = n] /\ n \in Sessions \cup {None}
    BY <2>1, <2>2
  <2>6. req[r] # None /\ Known(r) /\ n = req[r].state
    BY <1>1, <2>1
  <2>7. /\ session' = [session EXCEPT ![r] = session[r]] /\ session[r] \in Sessions \cup {None}
        /\ UNCHANGED <<store, issued, workerVars, lifeVars, req, at>>
        /\ used \subseteq used' /\ used' \subseteq Codes
    BY <2>1
  <2> HIDE DEF place, n
  <2> QED
    BY <1>1, <2>3, <2>4, <2>5, <2>6, <2>7, InvWithin
<1> QED
  BY <1>2, <1>3

\* What StoreToken does to the store.
LEMMA TokenStored ==
  ASSUME IInv, NEW r \in Requests, StoreToken(r), stuck = {}
  PROVE  LET state == req[r].state IN
         /\ pc[r] = "taken" /\ at[r] \in Workers
         /\ state \in Sessions /\ store[state] # None /\ store[state].nonce = state
         /\ req[r].code \in Codes /\ req[r].code \in used /\ req[r].code.nonce = state
         /\ store'[state] = [nonce |-> state, access_token |-> req[r].code]
         /\ store'[state] \in SessionState
         /\ store' \in [Sessions -> SessionState \cup {None}]
         /\ \A s \in Sessions : s # state => store'[s] = store[s]
<1> DEFINE state == req[r].state
<1>1. /\ Runs(r, "taken") /\ pc[r] = "taken" /\ "taken" \in Places \ {"idle"}
      /\ req[r].code.nonce = nonce[r]
      /\ store' = [store EXCEPT ![state].access_token = req[r].code]
  BY DEF StoreToken, Runs, Verified, Places
<1>2. at[r] \in Workers
  BY <1>1, Running
<1>3. /\ state \in Sessions /\ store[state] # None /\ nonce[r] = state
      /\ req[r].code # None /\ req[r].code \in used
  BY <1>1 DEF IInv, RequestInv, Known
<1>4. req[r].code \in Codes /\ store[state].nonce = state
  BY <1>3 DEF IInv, TypeOK, StoreInv
<1>5. store[state] = [nonce |-> state, access_token |-> store[state].access_token]
  BY <1>3, <1>4, Types DEF IInv
<1> HIDE DEF state
<1>6. /\ store'[state] = [store[state] EXCEPT !.access_token = req[r].code]
      /\ \A s \in Sessions : s # state => store'[s] = store[s]
  BY <1>1, <1>3 DEF IInv, TypeOK
<1>7. store'[state] = [nonce |-> state, access_token |-> req[r].code]
  BY <1>5, <1>6
<1>8. store'[state] \in SessionState
  BY <1>3, <1>4, <1>7 DEF SessionState
<1>9. store' \in [Sessions -> SessionState \cup {None}]
  BY <1>1, <1>3, <1>6, <1>8 DEF IInv, TypeOK
<1> QED
  BY <1>1, <1>2, <1>3, <1>4, <1>6, <1>7, <1>8, <1>9 DEF state

\* The token is by a code of the session's own nonce, whoever stores it.
LEMMA InvStoreToken == ASSUME IInv, NEW r \in Requests, StoreToken(r) PROVE IInv'
<1>1. CASE stuck # {}
  BY <1>1, InvQueues DEF StoreToken, Places
<1>2. CASE stuck = {}
  <2> DEFINE state == req[r].state
  <2>1. /\ session' = [session EXCEPT ![r] = state] /\ pc' = [pc EXCEPT ![r] = "inner"]
        /\ UNCHANGED <<issued, stuck, dead, base, restarts, req, at, nonce, used>>
    BY <1>2 DEF StoreToken, workerVars, lifeVars, Goto
  <2>2. /\ pc[r] = "taken" /\ at[r] # None /\ state \in Sessions
        /\ store[state] # None /\ store[state].nonce = state
        /\ req[r].code # None /\ req[r].code \in used /\ req[r].code.nonce = state
        /\ store'[state] = [nonce |-> state, access_token |-> req[r].code]
        /\ store'[state] # None /\ store' \in [Sessions -> SessionState \cup {None}]
        /\ \A s \in Sessions : s # state => store'[s] = store[s]
    BY <1>2, TokenStored, Distinct
  <2> HIDE DEF state
  <2>3. CountInv'
    <3>1. Visiting' \subseteq Visiting
      BY <2>1 DEF Visiting, IInv, TypeOK
    <3> QED
      BY <2>1, <3>1, CountKept
  <2>4. TypeOK'
    BY <2>1, <2>2 DEF IInv, TypeOK, Places
  <2>5. StoreInv'
    BY <2>1, <2>2 DEF IInv, StoreInv, OfThisLife
  <2>6. RequestInv'
    <3> SUFFICES ASSUME NEW q \in Requests
                 PROVE  /\ pc'[q] = "idle" <=> at[q] = None
                        /\ pc'[q] \in {"exchange", "taken", "refused"} =>
                             /\ req[q] # None /\ req[q].state \in Sessions
                             /\ store'[req[q].state] # None /\ nonce[q] = req[q].state
                        /\ pc'[q] = "taken" => req[q].code # None /\ req[q].code \in used
                        /\ pc'[q] = "inner" => /\ session'[q] \in Sessions
                                               /\ store'[session'[q]] # None
                                               /\ store'[session'[q]].access_token # None
      BY <2>1 DEF RequestInv, Known, Authed
    <3>1. \A s \in Sessions : store[s] # None =>
            /\ store'[s] # None
            /\ store[s].access_token # None => store'[s].access_token # None
      BY <2>2
    <3>2. CASE q = r
      BY <2>1, <2>2, <3>2 DEF IInv, TypeOK
    <3>3. CASE q # r
      <4>1. pc'[q] = pc[q] /\ session'[q] = session[q]
        BY <2>1, <3>3 DEF IInv, TypeOK
      <4> QED
        BY <3>1, <4>1 DEF IInv, RequestInv, Known, Authed
    <3> QED
      BY <3>2, <3>3
  <2>7. BlocksOnlyOnForeign'
    BY <1>2, <2>1 DEF BlocksOnlyOnForeign
  <2> QED
    BY <2>3, <2>4, <2>5, <2>6, <2>7 DEF IInv
<1> QED
  BY <1>1, <1>2

\* The request is over.
LEMMA InvInner == ASSUME IInv, NEW r \in Requests, Inner(r) PROVE IInv'
<1>1. /\ Runs(r, "inner") /\ "inner" \in Places \ {"idle"} /\ End({r}) /\ {r} \in SUBSET Requests
      /\ UNCHANGED <<store, issued, stuck, dead, base, restarts, used>>
  BY DEF Inner, workerVars, lifeVars, Places
<1>2. CountInv'
  <2>1. Visiting' \subseteq Visiting
    BY <1>1, Ended
  <2> QED
    BY <1>1, <2>1, CountKept
<1>3. TypeOK'
  BY <1>1, Ended DEF IInv, TypeOK
<1>4. StoreInv'
  BY <1>1 DEF IInv, StoreInv, OfThisLife
<1>5. RequestInv'
  BY <1>1, RequestsGoOn
<1>6. BlocksOnlyOnForeign'
  <2>1. at[r] \notin stuck
    BY <1>1, Running
  <2>2. \A q \in Requests : at[q] \in stuck =>
          pc'[q] = pc[q] /\ at'[q] = at[q] /\ req'[q] = req[q]
    BY <1>1, <2>1, Ended
  <2> QED
    BY <1>1, <2>2 DEF IInv, BlocksOnlyOnForeign, Foreign, OfThisLife
<1> QED
  BY <1>2, <1>3, <1>4, <1>5, <1>6 DEF IInv

\* Every step preserves the invariant.
LEMMA InvNext == IInv /\ [Next]_vars => IInv'
<1> SUFFICES ASSUME IInv, [Next]_vars PROVE IInv'
  OBVIOUS
<1>1. ASSUME NEW r \in Requests, Client(r) PROVE IInv'
  BY <1>1, InvVisit, InvCallback DEF Client
<1>2. ASSUME NEW r \in Requests, Handle(r) PROVE IInv'
  BY <1>2, InvCheck, InvRedirect, InvFindSession, InvUnknownSession, InvStoreToken, InvInner
     DEF Handle
<1>3. ASSUME NEW r \in Requests, TakeCode(r) PROVE IInv'
  BY <1>3, InvTakeCode
<1>4. ASSUME NEW r \in Requests, Fail(r) PROVE IInv'
  BY <1>4, InvFail
<1>5. CASE Restart
  BY <1>5, InvRestart
<1>6. CASE UNCHANGED vars
  <2>1. /\ UNCHANGED <<store, issued, base, stuck, dead, restarts>>
        /\ UNCHANGED <<req, pc, at, session, nonce, used>>
    BY <1>6 DEF vars, workerVars, lifeVars, requestVars
  <2>2. TypeOK' /\ CountInv' /\ StoreInv'
    BY <2>1 DEF IInv, TypeOK, CountInv, Visiting, StoreInv, OfThisLife
  <2>3. RequestInv' /\ BlocksOnlyOnForeign'
    BY <2>1 DEF IInv, RequestInv, Known, Authed, BlocksOnlyOnForeign, Foreign, OfThisLife
  <2> QED
    BY <2>2, <2>3 DEF IInv
<1> QED
  BY <1>1, <1>2, <1>3, <1>4, <1>5, <1>6 DEF Next

-----------------------------------------------------------------------------
(* The theorems.                                                           *)

\* The inductive invariant: the store has the sessions that this life of the
\* process sent out, each with a token for its own nonce or none, and requests
\* in the middle of an exchange still find there what they had read.
THEOREM InvariantCorrect == Spec => []IInv
<1> QED
  BY InvInit, InvNext, PTL DEF Spec

\* The variables have their types; no session is issued beyond the bound.
THEOREM TypeCorrect == Spec => []TypeOK
<1>1. IInv => TypeOK
  BY DEF IInv
<1> QED
  BY <1>1, InvariantCorrect, PTL

\* Nobody waits for the lock but behind a callback with a foreign state.
THEOREM LoginsBlockNobody == Spec => []BlocksOnlyOnForeign
<1>1. IInv => BlocksOnlyOnForeign
  BY DEF IInv
<1> QED
  BY <1>1, InvariantCorrect, PTL

\* Nothing gets through the handler but under a session of this process that a
\* token was given for.
THEOREM ServedUnderToken == Spec => []ServedLoggedIn
<1>1. IInv => ServedLoggedIn
  <2> SUFFICES ASSUME IInv, NEW r \in Requests, pc[r] = "inner"
               PROVE  /\ Authed(session[r]) /\ session[r] \in OfThisLife
                      /\ store[session[r]].access_token.nonce = store[session[r]].nonce
                      /\ store[session[r]].access_token \in used
    BY DEF ServedLoggedIn
  <2>1. Authed(session[r])
    BY DEF IInv, RequestInv
  <2> QED
    BY <2>1 DEF IInv, StoreInv, Authed
<1> QED
  BY <1>1, InvariantCorrect, PTL

\* As long as the process lives, no step of anybody undoes a session or a login.
THEOREM SessionsAreKept == Spec => SessionsKept
<1> DEFINE Kept(s) == /\ store'[s] # None /\ store'[s].nonce = store[s].nonce
                      /\ store[s].access_token # None =>
                           /\ store'[s].access_token # None
                           /\ store'[s].access_token.nonce = store[s].access_token.nonce
           Step == \A s \in Sessions : store[s] # None => Kept(s)
<1>1. IInv /\ [Next]_vars => [restarts' = restarts => Step]_vars
  <2> SUFFICES ASSUME IInv, Next, restarts' = restarts, NEW s \in Sessions, store[s] # None
               PROVE  Kept(s)
    OBVIOUS
  <2>1. CASE store' = store
    BY <2>1
  <2>2. ASSUME NEW r \in Requests, Redirect(r) PROVE store'[s] = store[s]
    <3>1. CASE stuck # {}
      BY <2>2, <3>1 DEF Redirect, Blocks
    <3>2. CASE stuck = {}
      <4>1. store' = [store EXCEPT ![issued + 1] = [nonce |-> issued + 1, access_token |-> None]]
        BY <2>2, <3>2 DEF Redirect
      <4>2. s # issued + 1
        BY Distinct, Types DEF IInv, StoreInv, OfThisLife
      <4> QED
        BY <4>1, <4>2 DEF IInv, TypeOK
    <3> QED
      BY <3>1, <3>2
  <2>3. ASSUME NEW r \in Requests, StoreToken(r) PROVE Kept(s)
    <3>1. CASE stuck # {}
      BY <2>3, <3>1 DEF StoreToken, Blocks
    <3>2. CASE stuck = {} /\ s # req[r].state
      BY <2>3, <3>2, TokenStored
    <3>3. CASE stuck = {} /\ s = req[r].state
      <4>1. /\ store'[s] = [nonce |-> s, access_token |-> req[r].code]
            /\ store'[s] \in SessionState /\ store[s].nonce = s
            /\ req[r].code \in Codes /\ req[r].code.nonce = s
        BY <2>3, <3>3, TokenStored
      <4>2. store[s].access_token # None => store[s].access_token.nonce = s
        BY DEF IInv, StoreInv
      <4> QED
        BY <4>1, <4>2, Distinct
    <3> QED
      BY <3>1, <3>2, <3>3
  <2>4. ASSUME NEW r \in Requests, Client(r) \/ TakeCode(r) \/ Fail(r) PROVE store' = store
    BY <2>4 DEF Client, Visit, Callback, Send, TakeCode, Fail, CheckFails, DiscoverFails,
       ExchangeFails, Panics
  <2>5. ASSUME NEW r \in Requests, Check(r) \/ FindSession(r) \/ UnknownSession(r) \/ Inner(r)
        PROVE  store' = store
    BY <2>5 DEF Check, FindSession, UnknownSession, Inner, Blocks, Panics
  <2>6. ~Restart
    BY Types DEF IInv, Restart
  <2> QED
    BY <2>1, <2>2, <2>3, <2>4, <2>5, <2>6 DEF Next, Handle
<1>2. [restarts' = restarts => Step]_vars =>
        [restarts' = restarts =>
           \A s \in Sessions : store[s] # None =>
             /\ store'[s] # None /\ store'[s].nonce = store[s].nonce
             /\ store[s].access_token # None =>
                  LET old == store[s].access_token  new == store'[s].access_token IN
                  new # None /\ new.nonce = old.nonce]_vars
  OBVIOUS
<1> QED
  BY <1>1, <1>2, InvariantCorrect, PTL DEF Spec, SessionsKept
=============================================================================
