-------------------------- MODULE HttpProxyProofs --------------------------
(***************************************************************************)
(* Proofs about HttpProxy, for any number of clients, routes, upstreams,   *)
(* connections and updates.                                                *)
(***************************************************************************)
EXTENDS HttpProxy, TLAPS

-----------------------------------------------------------------------------
(* Facts about the data.                                                   *)

\* An index goes on to the next, and from the last to the first.
LEMMA NextIndex ==
  ASSUME NEW n \in Nat, NEW i \in 0..(n - 1)
  PROVE  (i + 1) % n = IF i + 1 = n THEN 0 ELSE i + 1
<1>1. CASE i + 1 = n
  BY <1>1
<1>2. CASE i + 1 < n
  BY <1>2
<1> QED
  BY <1>1, <1>2

\* The routes of a service.
LEMMA RouteFacts ==
  ASSUME NEW f \in Configs, NEW p \in DOMAIN f.routes
  PROVE  /\ p \in Paths
         /\ f.routes[p] \in Route
         /\ f.routes[p].upstreams \in Seq(Endpoint)
         /\ Len(f.routes[p].upstreams) \in 1..MaxUpstreams
         /\ DOMAIN f.routes[p].upstreams = 1..Len(f.routes[p].upstreams)
         /\ \A i \in 0..(Len(f.routes[p].upstreams) - 1) :
              i \in Index /\ f.routes[p].upstreams[i + 1] \in Endpoint
<1>1. p \in Paths /\ IsRoute(f.routes[p])
  BY ProxyAssumption DEF IsConfig
<1>2. /\ f.routes[p] \in Route
      /\ Len(f.routes[p].upstreams) \in 1..MaxUpstreams
  BY <1>1 DEF IsRoute
<1>3. f.routes[p].upstreams \in Seq(Endpoint)
  BY <1>2 DEF Route
<1>4. DOMAIN f.routes[p].upstreams = 1..Len(f.routes[p].upstreams)
  BY <1>3
<1>5. ASSUME NEW i \in 0..(Len(f.routes[p].upstreams) - 1)
      PROVE  i \in Index /\ f.routes[p].upstreams[i + 1] \in Endpoint
  <2>1. i + 1 \in 1..Len(f.routes[p].upstreams) /\ i \in Index
    BY <1>2, ProxyAssumption DEF Index
  <2> QED
    BY <1>3, <2>1
<1> QED
  BY <1>1, <1>2, <1>3, <1>4, <1>5

\* None is none of the others.
LEMMA NoneFacts ==
  /\ None \notin Conns /\ None \notin Conn /\ None \notin Requests
  /\ None \notin Endpoint /\ None \notin Addresses
BY ProxyAssumption

\* An endpoint has a scheme and an address.
LEMMA EndpointFacts ==
  ASSUME NEW e \in Endpoint
  PROVE  e.scheme \in Schemes /\ e.addr \in Addresses
BY DEF Endpoint

\* The connection that a client is on.
LEMMA ConnFacts ==
  ASSUME TypeOK, NEW k \in Conns, conn[k] # None
  PROVE  /\ conn[k] \in Conn
         /\ conn[k].pool \in Generations /\ conn[k].scheme \in Schemes
         /\ conn[k].addr \in Addresses /\ conn[k].version \in Versions
BY DEF TypeOK, Conn

\* Generations are numbers.
LEMMA GenerationFacts ==
  ASSUME TypeOK
  PROVE  /\ cur \in Nat /\ cur >= 1
         /\ \A g \in 1..cur : g \in Generations
         /\ \A g \in Generations : g \in Nat /\ g >= 1
BY ProxyAssumption DEF TypeOK, Generations

\* A client's service has its configuration.
LEMMA ServiceFacts ==
  ASSUME TypeOK, NEW c \in Clients
  PROVE  svc[c] \in Generations /\ cfg[svc[c]] \in Configs
BY DEF TypeOK

-----------------------------------------------------------------------------
(* Steps of a request that is on no connection.                            *)

\* What is kept of the other clients.
Aside(c) ==
  \A d \in Clients \ {c} :
    /\ pc'[d] = pc[d] /\ req'[d] = req[d] /\ ver'[d] = ver[d]
    /\ ep'[d] = ep[d] /\ resp'[d] = resp[d]

\* The invariant of a request speaks of that request and of its service.
LEMMA OtherRequests ==
  ASSUME NEW d \in Clients, RequestInv(d),
         pc'[d] = pc[d], req'[d] = req[d], ep'[d] = ep[d], resp'[d] = resp[d],
         on'[d] = on[d], svc'[d] = svc[d], cfg'[svc[d]] = cfg[svc[d]]
  PROVE  RequestInv(d)'
<1>1. cfg'[svc'[d]].routes = cfg[svc[d]].routes
  OBVIOUS
<1>2. Chosen(d)' <=> Chosen(d)
  BY <1>1 DEF Chosen, Offers
<1>3. AsRouted(d)' <=> AsRouted(d)
  BY <1>1 DEF AsRouted, Offers
<1> QED
  BY <1>1, <1>2, <1>3 DEF RequestInv

\* Nobody's connection is affected.
LEMMA InvMoves ==
  ASSUME IInv, NEW c \in Clients, pc[c] \notin {"sending", "sent"},
         UNCHANGED <<siteVars, svc, on, conn>>,
         TypeOK', TurnsInv', Aside(c), RequestInv(c)'
  PROVE  IInv'
<1>1. SitesInv'
  BY DEF IInv, SitesInv, siteVars
<1>2. ASSUME NEW d \in Clients PROVE RequestInv(d)'
  <2>1. CASE d = c
    BY <2>1
  <2>2. CASE d # c
    BY <2>2, OtherRequests DEF IInv, Aside, siteVars
  <2> QED
    BY <2>1, <2>2
<1>3. ASSUME NEW d \in Clients, on'[d] # None PROVE FitsOn(d, on[d])'
  <2>1. d # c /\ FitsOn(d, on[d])
    BY <1>3 DEF IInv, RequestInv
  <2>2. ep'[d] = ep[d] /\ ver'[d] = ver[d]
    BY <2>1 DEF Aside
  <2> QED
    BY <2>1, <2>2 DEF FitsOn, Users, siteVars
<1> QED
  BY <1>1, <1>2, <1>3 DEF IInv

\* Turns do not change either.
LEMMA TurnsKept ==
  ASSUME TurnsInv, UNCHANGED <<cur, cfg, next, count>>
  PROVE  TurnsInv'
BY DEF TurnsInv, InTurn

\* A response of our own.
LEMMA RespondFacts ==
  ASSUME TypeOK, NEW c \in Clients, NEW status \in {400, 404, 500, 502}, Respond(c, status)
  PROVE  /\ resp' \in [Clients -> [status: {200, 400, 404, 500, 502},
                                   from: Addresses \cup {None}] \cup {None}]
         /\ resp'[c].status = status /\ resp'[c].from = None
         /\ \A d \in Clients \ {c} : resp'[d] = resp[d]
BY DEF TypeOK, Respond

\* A client connects, or goes.
LEMMA InvAccept ==
  ASSUME IInv, NEW c \in Clients, Accept(c) \/ Close(c)
  PROVE  IInv'
<1>0. TypeOK /\ cur \in 1..cur /\ 1 \in 1..cur /\ \A g \in 1..cur : g \in Generations
  BY GenerationFacts DEF IInv
<1>1. /\ svc'[c] \in 1..cur /\ svc' \in [Clients -> Generations]
      /\ pc' \in [Clients -> Places] /\ pc'[c] \in {"closed", "ready"}
      /\ pc[c] \notin {"sending", "sent"}
      /\ \A d \in Clients \ {c} : svc'[d] = svc[d] /\ pc'[d] = pc[d]
  <2>1. CASE Accept(c)
    BY <1>0, <2>1 DEF Accept, Goto, Places, TypeOK
  <2>2. CASE Close(c)
    BY <1>0, <2>2 DEF Close, Goto, Places, TypeOK
  <2> QED
    BY <2>1, <2>2
<1>2. UNCHANGED <<alive, siteVars, selectVars, requestVars, ver, ep, on, resp, conn>>
  BY DEF Accept, Close
<1>3. TypeOK'
  BY <1>1, <1>2 DEF siteVars, selectVars, requestVars, IInv, TypeOK
<1>4. SitesInv'
  BY <1>1, <1>2 DEF siteVars, IInv, SitesInv
<1>5. TurnsInv'
  BY <1>2, TurnsKept DEF siteVars, selectVars, IInv
<1>6. ASSUME NEW d \in Clients PROVE RequestInv(d)'
  <2>1. CASE d = c
    BY <1>1, <1>2, <2>1 DEF IInv, RequestInv
  <2>2. CASE d # c
    BY <1>1, <1>2, <2>2, OtherRequests DEF siteVars, requestVars, IInv
  <2> QED
    BY <2>1, <2>2
<1>7. ASSUME NEW d \in Clients, on'[d] # None PROVE FitsOn(d, on[d])'
  <2>1. d # c /\ FitsOn(d, on[d])
    BY <1>1, <1>2, <1>7 DEF IInv, RequestInv
  <2> QED
    BY <1>1, <1>2, <2>1 DEF FitsOn, Users, siteVars
<1> QED
  BY <1>2, <1>3, <1>4, <1>5, <1>6, <1>7 DEF IInv

\* A request comes, or its response is written.
LEMMA InvReceive ==
  ASSUME IInv, NEW c \in Clients, Receive(c) \/ Deliver(c)
  PROVE  IInv'
<1>1. /\ pc[c] \in {"ready", "answered"} /\ on[c] = None
      /\ UNCHANGED <<alive, siteVars, selectVars, svc, on, conn>>
  BY DEF Receive, Deliver, IInv, RequestInv
<1>2. TurnsInv'
  BY <1>1, TurnsKept DEF siteVars, selectVars, IInv
<1>3. CASE Receive(c)
  <2>1. PICK r \in Requests : /\ req' = [req EXCEPT ![c] = r]
                              /\ ver' = [ver EXCEPT ![c] = r.version]
    BY <1>3 DEF Receive
  <2>2. r.version \in Versions
    BY ProxyAssumption DEF Request
  <2>3. asked' \in 0..MaxRequests
    BY <1>3, ProxyAssumption DEF Receive, IInv, TypeOK
  <2>4. TypeOK' /\ Aside(c)
    BY <1>1, <1>3, <2>1, <2>2, <2>3
    DEF Receive, Goto, Places, Aside, siteVars, selectVars, IInv, TypeOK
  <2>5. pc'[c] = "handle" /\ req'[c] \in Requests
    BY <1>3, <2>1 DEF Receive, Goto, IInv, TypeOK
  <2>6. RequestInv(c)'
    BY <1>1, <2>5 DEF RequestInv
  <2> QED
    BY <1>1, <1>2, <2>4, <2>6, InvMoves
<1>4. CASE Deliver(c)
  <2>1. TypeOK' /\ Aside(c)
    BY <1>1, <1>4
    DEF Deliver, Goto, Places, Versions, Aside, siteVars, selectVars, IInv, TypeOK
  <2>2. RequestInv(c)'
    BY <1>1, <1>4 DEF Deliver, Goto, RequestInv, IInv, TypeOK
  <2> QED
    BY <1>1, <1>2, <2>1, <2>2, InvMoves
<1> QED
  BY <1>3, <1>4

\* A response of our own takes the place of whatever was to come.
LEMMA InvRespond ==
  ASSUME IInv, NEW c \in Clients, NEW status \in {400, 404, 500, 502},
         pc[c] \notin {"closed", "ready", "sending", "sent"},
         (status = 404) <=> req[c].path \notin DOMAIN cfg[svc[c]].routes,
         Respond(c, status),
         NEW place \in {"encode", "answered"}, Goto(c, place),
         status = 404 => place = "answered",
         UNCHANGED <<alive, siteVars, selectVars, svc, requestVars, ver, ep, on, conn>>
  PROVE  IInv'
<1>1. TurnsInv'
  BY TurnsKept DEF siteVars, selectVars, IInv
<1>2. TypeOK' /\ Aside(c)
  BY RespondFacts
  DEF Goto, Places, Aside, siteVars, selectVars, requestVars, IInv, TypeOK
<1>3. pc'[c] = place /\ resp'[c].status = status /\ resp'[c].from = None
  BY RespondFacts DEF Goto, IInv, TypeOK
<1>4. AsRouted(c)'
  BY <1>3 DEF AsRouted, siteVars, requestVars
<1>5. req[c] \in Requests /\ on[c] = None
  BY DEF IInv, RequestInv
<1>6. RequestInv(c)'
  BY <1>3, <1>4, <1>5 DEF RequestInv, siteVars, requestVars
<1> QED
  BY <1>1, <1>2, <1>6, InvMoves

\* Return leads to a place where a response is.
LEMMA ReturnFacts ==
  ASSUME NEW c \in Clients, Return(c)
  PROVE  \E place \in {"encode", "answered"} : Goto(c, place)
BY DEF Return

\* The responses that are made instead of an upstream's.
LEMMA InvFails ==
  ASSUME IInv, NEW c \in Clients,
         NotFound(c) \/ Unresolved(c) \/ ConnectFails(c)
  PROVE  IInv'
<1>1. CASE NotFound(c)
  BY <1>1, InvRespond DEF NotFound, Routes
<1>2. CASE Unresolved(c) \/ ConnectFails(c)
  <2>1. PICK place \in {"encode", "answered"} : Goto(c, place)
    BY <1>2, ReturnFacts DEF Unresolved, ConnectFails
  <2>2. req[c].path \in DOMAIN cfg[svc[c]].routes
    BY <1>2 DEF Unresolved, ConnectFails, IInv, RequestInv, Chosen
  <2>3. PICK status \in {400, 502} : Respond(c, status)
    BY <1>2 DEF Unresolved, ConnectFails
  <2> QED
    BY <1>2, <2>1, <2>2, <2>3, InvRespond DEF Unresolved, ConnectFails
<1> QED
  BY <1>1, <1>2

\* A request goes on to the next place, with the endpoint that it has.
LEMMA InvGoesOn ==
  ASSUME IInv, NEW c \in Clients, NEW place \in {"connect", "connecting", "answered"},
         Goto(c, place),
         \/ pc[c] = "decode" /\ place = "connect"
         \/ pc[c] = "connect" /\ place = "connecting"
         \/ pc[c] = "encode" /\ place = "answered",
         UNCHANGED <<alive, siteVars, selectVars, svc, requestVars, ver, ep, on, resp, conn>>
  PROVE  IInv'
<1>1. TurnsInv'
  BY TurnsKept DEF siteVars, selectVars, IInv
<1>2. TypeOK' /\ Aside(c) /\ pc'[c] = place
  BY DEF Goto, Places, Aside, siteVars, selectVars, requestVars, IInv, TypeOK
<1>3. Chosen(c)' <=> Chosen(c)
  BY DEF Chosen, Offers, siteVars, requestVars
<1>4. AsRouted(c)' <=> AsRouted(c)
  BY DEF AsRouted, Offers, siteVars, requestVars
<1>5. RequestInv(c)'
  BY <1>2, <1>3, <1>4 DEF RequestInv, siteVars, requestVars, IInv
<1> QED
  BY <1>1, <1>2, <1>5, InvMoves

\* Decoding, encoding and looking for a connection.
LEMMA InvPasses ==
  ASSUME IInv, NEW c \in Clients, Decode(c) \/ Encode(c) \/ NotPooled(c)
  PROVE  IInv'
<1>1. CASE NotPooled(c)
  BY <1>1, InvGoesOn DEF NotPooled
<1>2. CASE Decode(c)
  <2>1. CASE Goto(c, "connect") /\ UNCHANGED resp
    BY <1>2, <2>1, InvGoesOn DEF Decode
  <2>2. CASE Respond(c, 400) /\ Goto(c, "answered")
    <3>1. req[c].path \in DOMAIN cfg[svc[c]].routes
      BY <1>2 DEF Decode, IInv, RequestInv, Chosen
    <3> QED
      BY <1>2, <2>2, <3>1, InvRespond DEF Decode
  <2> QED
    BY <1>2, <2>1, <2>2 DEF Decode
<1>3. CASE Encode(c)
  <2>1. CASE Goto(c, "answered") /\ UNCHANGED resp
    BY <1>3, <2>1, InvGoesOn DEF Encode
  <2>2. CASE Respond(c, 500) /\ Goto(c, "answered")
    <3>1. req[c].path \in DOMAIN cfg[svc[c]].routes
      BY <1>3 DEF Encode, IInv, RequestInv
    <3> QED
      BY <1>3, <2>2, <3>1, InvRespond DEF Encode
  <2> QED
    BY <1>3, <2>1, <2>2 DEF Encode
<1> QED
  BY <1>1, <1>2, <1>3

-----------------------------------------------------------------------------
(* The choice of an upstream.                                              *)

\* The route of a request that has one.
LEMMA RouteOf ==
  ASSUME IInv, NEW c \in Clients, pc[c] = "handle", req[c].path \in DOMAIN Routes(c)
  PROVE  /\ svc[c] \in 1..cur /\ svc[c] \in Generations /\ cfg[svc[c]] \in Configs
         /\ req[c] \in Requests /\ req[c].path \in Paths
         /\ Upstreams(c) \in Seq(Endpoint) /\ Len(Upstreams(c)) \in 1..MaxUpstreams
         /\ DOMAIN Upstreams(c) = 1..Len(Upstreams(c))
         /\ \A i \in 0..(Len(Upstreams(c)) - 1) :
              i \in Index /\ Upstreams(c)[i + 1] \in Endpoint
         /\ InTurn(Routes(c)[req[c].path], next[svc[c]][req[c].path],
                   count[svc[c]][req[c].path])
<1>1. svc[c] \in 1..cur /\ svc[c] \in Generations /\ cfg[svc[c]] \in Configs /\ req[c] \in Requests
  BY ServiceFacts DEF IInv, SitesInv, RequestInv
<1>2. TypeOK /\ svc[c] <= cur
  BY <1>1, GenerationFacts DEF IInv
<1>3. InTurn(Routes(c)[req[c].path], next[svc[c]][req[c].path], count[svc[c]][req[c].path])
  BY <1>1, <1>2 DEF IInv, TurnsInv, Routes
<1> QED
  BY <1>1, <1>3, RouteFacts DEF Routes, Upstreams

\* What is selected is there, and wanted.
LEMMA SelectableFacts ==
  ASSUME IInv, NEW c \in Clients, pc[c] = "handle", req[c].path \in DOMAIN Routes(c),
         NEW i \in Selectable(c)
  PROVE  /\ i \in 0..(Len(Upstreams(c)) - 1)
         /\ Routes(c)[req[c].path].load_balancer = "weighted_random" =>
              Upstreams(c)[i + 1].weight > 0
         /\ Routes(c)[req[c].path].load_balancer = "round_robin" =>
              i = next[svc[c]][req[c].path]
<1> DEFINE strategy == Routes(c)[req[c].path].load_balancer
<1>1. Len(Upstreams(c)) \in 1..MaxUpstreams /\ MaxUpstreams \in Nat
  BY RouteOf, ProxyAssumption
<1>2. CASE strategy = "round_robin"
  BY <1>2, RouteOf DEF Selectable, InTurn, Upstreams
<1>3. CASE strategy = "first"
  BY <1>1, <1>3 DEF Selectable
<1>4. CASE strategy = "random"
  BY <1>4 DEF Selectable
<1>5. CASE strategy \notin {"round_robin", "first", "random"}
  BY <1>5 DEF Selectable
<1> QED
  BY <1>2, <1>3, <1>4, <1>5

\* One more turn leaves the turns in order.
LEMMA TurnTaken ==
  ASSUME NEW r, NEW m \in Nat \ {0}, Len(r.upstreams) = m, m <= MaxUpstreams,
         NEW n \in Nat, NEW turns \in [Index -> Nat], InTurn(r, n, turns),
         r.load_balancer = "round_robin",
         NEW k, k = (n + 1) % m,
         NEW after, after = [turns EXCEPT ![n] = @ + 1]
  PROVE  InTurn(r, k, after)
<1>1. /\ n \in 0..(m - 1) /\ m - 1 \in 0..(m - 1)
      /\ \A i \in 0..(m - 1) :
           turns[i] = IF i < n THEN turns[m - 1] + 1 ELSE turns[m - 1]
  BY DEF InTurn
<1>2. \A i \in 0..(m - 1) : i \in Index /\ turns[i] \in Nat
  BY ProxyAssumption DEF Index
<1>3. \A i \in 0..(m - 1) : after[i] = IF i = n THEN turns[i] + 1 ELSE turns[i]
  BY <1>1, <1>2
<1>4. k = IF n + 1 = m THEN 0 ELSE n + 1
  BY <1>1, NextIndex
<1>5. SUFFICES /\ k \in 0..(m - 1)
               /\ \A i \in 0..(m - 1) :
                    after[i] = IF i < k THEN after[m - 1] + 1 ELSE after[m - 1]
  BY <1>5 DEF InTurn
<1>6. CASE n + 1 = m
  <2>1. k = 0 /\ n = m - 1
    BY <1>1, <1>4, <1>6
  <2>2. \A i \in 0..(m - 1) : after[i] = turns[m - 1] + 1
    BY <1>1, <1>2, <1>3, <2>1
  <2> QED
    BY <1>1, <2>1, <2>2
<1>7. CASE n + 1 # m
  <2>1. k = n + 1 /\ n < m - 1 /\ k \in 0..(m - 1)
    BY <1>1, <1>4, <1>7
  <2>2. after[m - 1] = turns[m - 1]
    BY <1>1, <1>3, <2>1
  <2>3. ASSUME NEW i \in 0..(m - 1)
        PROVE  after[i] = IF i < n + 1 THEN turns[m - 1] + 1 ELSE turns[m - 1]
    BY <1>1, <1>2, <1>3
  <2> QED
    BY <2>1, <2>2, <2>3
<1> QED
  BY <1>6, <1>7

\* The turns of the route are in order afterwards, and the others as they were.
LEMMA InvSelected ==
  ASSUME IInv, NEW c \in Clients, pc[c] = "handle", req[c].path \in DOMAIN Routes(c),
         NEW i \in Selectable(c), Selected(c, i), UNCHANGED siteVars
  PROVE  /\ next' \in [Generations -> [Paths -> Nat]]
         /\ count' \in [Generations -> [Paths -> [Index -> Nat]]]
         /\ TurnsInv'
<1> DEFINE q == req[c].path
           v == svc[c]
           r == Routes(c)[q]
<1>1. CASE r.load_balancer # "round_robin"
  <2>1. UNCHANGED <<next, count>>
    BY <1>1 DEF Selected, selectVars
  <2> QED
    BY <2>1, TurnsKept DEF siteVars, IInv, TypeOK
<1>2. CASE r.load_balancer = "round_robin"
  <2>1. /\ v \in Generations /\ v <= cur /\ q \in Paths /\ cur \in Nat
        /\ Len(r.upstreams) \in Nat \ {0} /\ Len(r.upstreams) <= MaxUpstreams
        /\ InTurn(r, next[v][q], count[v][q]) /\ i = next[v][q] /\ i \in Index
    BY <1>2, RouteOf, SelectableFacts, GenerationFacts, ProxyAssumption DEF Upstreams, IInv
  <2>2. /\ next[v][q] \in Nat /\ count[v][q] \in [Index -> Nat]
        /\ next \in [Generations -> [Paths -> Nat]]
        /\ count \in [Generations -> [Paths -> [Index -> Nat]]]
    BY <2>1 DEF IInv, TypeOK
  <2> DEFINE n == (next[v][q] + 1) % Len(r.upstreams)
             turns == [count[v][q] EXCEPT ![i] = @ + 1]
  <2>3. next' = [next EXCEPT ![v][q] = n] /\ count' = [count EXCEPT ![v][q] = turns]
    BY <1>2 DEF Selected, Upstreams
  <2>4. n \in Nat /\ turns \in [Index -> Nat]
    BY <2>1, <2>2
  <2>5. InTurn(r, n, turns)
    <3> HIDE DEF q, v, r
    <3> QED
      BY <1>2, <2>1, <2>2, TurnTaken
  <2> HIDE DEF n, turns
  <2>6. /\ next' \in [Generations -> [Paths -> Nat]]
        /\ count' \in [Generations -> [Paths -> [Index -> Nat]]]
    BY <2>1, <2>2, <2>3, <2>4
  <2>7. ASSUME NEW g \in Generations, NEW p \in Paths
        PROVE  IF g = v /\ p = q THEN next'[g][p] = n /\ count'[g][p] = turns
               ELSE next'[g][p] = next[g][p] /\ count'[g][p] = count[g][p]
    BY <2>1, <2>2, <2>3
  <2>8. ASSUME NEW g \in Generations, g <= cur, NEW p \in DOMAIN cfg[g].routes
        PROVE  InTurn(cfg[g].routes[p], next'[g][p], count'[g][p])
    <3>1. p \in Paths
      BY RouteFacts DEF IInv, TypeOK
    <3>2. InTurn(cfg[g].routes[p], next[g][p], count[g][p])
      BY <2>8 DEF IInv, TurnsInv
    <3> QED
      BY <2>5, <2>7, <3>1, <3>2 DEF Routes
  <2>9. ASSUME NEW g \in Generations, ~(g <= cur), NEW p \in Paths
        PROVE  next'[g][p] = 0 /\ \A j \in Index : count'[g][p][j] = 0
    BY <2>1, <2>7, <2>9 DEF IInv, TurnsInv
  <2> QED
    BY <2>6, <2>8, <2>9 DEF TurnsInv, siteVars
<1> QED
  BY <1>1, <1>2

\* The request gets its endpoint, or the worker panics.
LEMMA InvRewrite ==
  ASSUME IInv, NEW c \in Clients, Rewrite(c) \/ RewritePanics(c)
  PROVE  IInv'
<1>1. /\ pc[c] = "handle" /\ req[c].path \in DOMAIN Routes(c)
      /\ UNCHANGED <<siteVars, svc, requestVars, ver, on, resp, conn>>
  BY DEF Rewrite, RewritePanics
<1>2. CASE Rewrite(c)
  <2>1. PICK i \in Selectable(c) : /\ ep' = [ep EXCEPT ![c] = Upstreams(c)[i + 1]]
                                   /\ Selected(c, i)
    BY <1>2 DEF Rewrite
  <2>2. /\ next' \in [Generations -> [Paths -> Nat]]
        /\ count' \in [Generations -> [Paths -> [Index -> Nat]]]
        /\ TurnsInv'
    BY <1>1, <2>1, InvSelected
  <2>3. i \in 0..(Len(Upstreams(c)) - 1) /\ Upstreams(c)[i + 1] \in Endpoint
    BY <1>1, RouteOf, SelectableFacts
  <2>4. PICK place \in {"decode", "connect"} : Goto(c, place) /\ UNCHANGED alive
    BY <1>2 DEF Rewrite
  <2>5. TypeOK' /\ Aside(c)
    BY <1>1, <2>1, <2>2, <2>3, <2>4
    DEF Goto, Places, Aside, siteVars, requestVars, IInv, TypeOK
  <2>6. pc'[c] = place /\ ep'[c] = Upstreams(c)[i + 1]
    BY <2>1, <2>4 DEF Goto, IInv, TypeOK
  <2>7. Offers(Routes(c)[req[c].path], Upstreams(c)[i + 1].addr)
    <3>1. i + 1 \in DOMAIN Upstreams(c)
      BY <1>1, <2>3, RouteOf
    <3>2. Routes(c)[req[c].path].load_balancer = "weighted_random" =>
            Upstreams(c)[i + 1].weight > 0
      BY <1>1, SelectableFacts
    <3> QED
      BY <3>1, <3>2 DEF Offers, Upstreams
  <2>8. Chosen(c)'
    BY <1>1, <2>3, <2>6, <2>7 DEF Chosen, Routes, Offers, siteVars, requestVars
  <2>9. req[c] \in Requests /\ on[c] = None
    BY <1>1 DEF IInv, RequestInv
  <2>10. RequestInv(c)'
    BY <1>1, <2>4, <2>6, <2>8, <2>9 DEF RequestInv, requestVars
  <2> QED
    BY <1>1, <2>2, <2>5, <2>10, InvMoves
<1>3. CASE RewritePanics(c)
  <2>1. PICK i \in Selectable(c) : Selected(c, i)
    BY <1>3 DEF RewritePanics
  <2>2. /\ next' \in [Generations -> [Paths -> Nat]]
        /\ count' \in [Generations -> [Paths -> [Index -> Nat]]]
        /\ TurnsInv'
    BY <1>1, <2>1, InvSelected
  <2>3. alive' = FALSE /\ UNCHANGED <<pc, ep>>
    BY <1>3 DEF RewritePanics
  <2>4. TypeOK' /\ Aside(c)
    BY <1>1, <2>2, <2>3 DEF Aside, siteVars, requestVars, IInv, TypeOK
  <2>5. RequestInv(c)'
    BY <1>1, <2>3, OtherRequests DEF IInv, siteVars, requestVars
  <2> QED
    BY <1>1, <2>2, <2>4, <2>5, InvMoves
<1> QED
  BY <1>2, <1>3

-----------------------------------------------------------------------------
(* Connections.                                                            *)

\* The connection that a request is sent on fits.
LEMMA SentFacts ==
  ASSUME IInv, NEW c \in Clients, pc[c] \in {"sending", "sent"}
  PROVE  /\ on[c] \in Conns /\ FitsOn(c, on[c]) /\ conn[on[c]] \in Conn
         /\ Chosen(c) /\ req[c] \in Requests
<1>1. on[c] # None /\ Chosen(c) /\ req[c] \in Requests
  BY DEF IInv, RequestInv
<1>2. on[c] \in Conns /\ FitsOn(c, on[c])
  BY <1>1 DEF IInv, TypeOK
<1> QED
  BY <1>1, <1>2, ConnFacts DEF FitsOn, IInv

\* A request is sent on a connection that fits, of its own or shared.
LEMMA InvSend ==
  ASSUME IInv, NEW c \in Clients, pc[c] \in {"connect", "connecting"},
         NEW k \in Conns, conn' \in [Conns -> Conn \cup {None}],
         \A j \in Conns \ {k} : conn'[j] = conn[j],
         conn'[k] = conn[k] \/ Users(k) = {},
         conn'[k] # None,
         conn'[k].version \in Versions,
         conn'[k].pool = pool[svc[c]][ep[c].scheme],
         conn'[k].scheme = ep[c].scheme, conn'[k].addr = ep[c].addr,
         conn'[k].version = "1.1" => Users(k) = {},
         Send(c, k, conn'[k].version),
         UNCHANGED <<alive, siteVars, selectVars, svc, requestVars, ep, resp>>
  PROVE  IInv'
<1>1. TypeOK /\ Chosen(c) /\ req[c] \in Requests /\ on[c] = None
  BY DEF IInv, RequestInv
<1>2. /\ pc' = [pc EXCEPT ![c] = "sending"] /\ on' = [on EXCEPT ![c] = k]
      /\ ver' = IF ep[c].scheme = "http" THEN [ver EXCEPT ![c] = conn'[k].version] ELSE ver
  BY DEF Send, Goto
<1>3. TypeOK'
  BY <1>1, <1>2 DEF Places, siteVars, selectVars, requestVars, TypeOK
<1>4. /\ pc'[c] = "sending" /\ on'[c] = k /\ k # None
      /\ \A d \in Clients \ {c} :
           pc'[d] = pc[d] /\ on'[d] = on[d] /\ ver'[d] = ver[d]
      /\ ep[c].scheme = "http" => ver'[c] = conn'[k].version
  BY <1>1, <1>2, NoneFacts DEF TypeOK
<1>5. /\ svc[c] \in 1..cur /\ ep[c].scheme \in Schemes
      /\ conn'[k].pool \in 1..cur
  BY <1>1, EndpointFacts DEF IInv, SitesInv, Chosen
<1>6. SitesInv'
  BY <1>5 DEF IInv, SitesInv, siteVars
<1>7. TurnsInv'
  BY TurnsKept DEF siteVars, selectVars, IInv
<1>8. ASSUME NEW d \in Clients PROVE RequestInv(d)'
  <2>1. CASE d = c
    <3>1. Chosen(c)'
      BY <1>1 DEF Chosen, Offers, siteVars, requestVars
    <3> QED
      BY <1>1, <1>4, <2>1, <3>1 DEF RequestInv, requestVars
  <2>2. CASE d # c
    BY <1>4, <2>2, OtherRequests DEF siteVars, requestVars, IInv
  <2> QED
    BY <2>1, <2>2
<1>9. /\ \A j \in Conns \ {k} : Users(j)' = Users(j)
      /\ Users(k)' = Users(k) \cup {c}
  BY <1>1, <1>4, NoneFacts DEF Users
<1>10. ASSUME NEW d \in Clients, on'[d] # None PROVE FitsOn(d, on[d])'
  <2>1. CASE d = c
    BY <1>4, <1>9, <2>1 DEF FitsOn, siteVars
  <2>2. CASE d # c
    <3>1. FitsOn(d, on[d]) /\ on[d] \in Conns /\ on'[d] = on[d]
      BY <1>1, <1>4, <1>10, <2>2 DEF IInv, TypeOK
    <3>2. CASE on[d] = k
      <4>1. d \in Users(k)
        BY <3>2 DEF Users
      <4> QED
        BY <1>4, <2>2, <3>1, <3>2, <4>1 DEF FitsOn, siteVars
    <3>3. CASE on[d] # k
      BY <1>4, <1>9, <2>2, <3>1, <3>3 DEF FitsOn, siteVars
    <3> QED
      BY <3>2, <3>3
  <2> QED
    BY <2>1, <2>2
<1> QED
  BY <1>3, <1>6, <1>7, <1>8, <1>10 DEF IInv

\* A connection of the pool, or a new one.
LEMMA InvConnect ==
  ASSUME IInv, NEW c \in Clients, FromPool(c) \/ Connected(c)
  PROVE  IInv'
<1>1. CASE FromPool(c)
  <2>1. PICK k \in Conns : Fits(c, k) /\ Send(c, k, conn[k].version)
    BY <1>1 DEF FromPool
  <2>2. conn[k] # None /\ conn[k].version \in Versions
    BY <2>1, ConnFacts DEF Fits, IInv
  <2>3. conn' = conn /\ conn \in [Conns -> Conn \cup {None}]
    BY <1>1 DEF FromPool, IInv, TypeOK
  <2> QED
    BY <1>1, <2>1, <2>2, <2>3, InvSend DEF FromPool, Fits
<1>2. CASE Connected(c)
  <2>1. PICK k \in Conns, v \in Speaks(cfg[svc[c]], ep[c].scheme) :
          /\ Users(k) = {}
          /\ conn' = [conn EXCEPT ![k] = [pool |-> pool[svc[c]][ep[c].scheme],
                                          scheme |-> ep[c].scheme, addr |-> ep[c].addr,
                                          version |-> v]]
          /\ Send(c, k, v)
    BY <1>2 DEF Connected
  <2>2. v \in Versions
    BY DEF Speaks, Versions
  <2>3. /\ svc[c] \in Generations /\ ep[c] \in Endpoint
        /\ ep[c].scheme \in Schemes /\ ep[c].addr \in Addresses
    BY <1>2, EndpointFacts DEF Connected, IInv, TypeOK, RequestInv, Chosen
  <2> DEFINE new == [pool |-> pool[svc[c]][ep[c].scheme], scheme |-> ep[c].scheme,
                     addr |-> ep[c].addr, version |-> v]
  <2>4. new \in Conn
    BY <2>2, <2>3 DEF Conn, IInv, TypeOK
  <2>5. /\ conn' \in [Conns -> Conn \cup {None}] /\ conn'[k] = new
        /\ \A j \in Conns \ {k} : conn'[j] = conn[j]
    BY <2>1, <2>4 DEF IInv, TypeOK
  <2>6. conn'[k] # None /\ conn'[k].version = v
    BY <2>4, <2>5, NoneFacts
  <2> QED
    BY <1>2, <2>1, <2>2, <2>5, <2>6, InvSend DEF Connected
<1> QED
  BY <1>1, <1>2

\* A request that has been written stays on its connection.
LEMMA InvWritten ==
  ASSUME IInv, NEW c \in Clients, Written(c)
  PROVE  IInv'
<1>1. /\ pc[c] = "sending" /\ pc' = [pc EXCEPT ![c] = "sent"]
      /\ UNCHANGED <<alive, siteVars, selectVars, svc, requestVars, ver, ep, on, resp, conn>>
  BY DEF Written, Goto
<1>2. TypeOK'
  BY <1>1 DEF Places, siteVars, selectVars, requestVars, IInv, TypeOK
<1>3. pc'[c] = "sent" /\ \A d \in Clients \ {c} : pc'[d] = pc[d]
  BY <1>1 DEF IInv, TypeOK
<1>4. SitesInv'
  BY <1>1 DEF IInv, SitesInv, siteVars
<1>5. TurnsInv'
  BY <1>1, TurnsKept DEF siteVars, selectVars, IInv
<1>6. ASSUME NEW d \in Clients PROVE RequestInv(d)'
  <2>1. CASE d = c
    <3>1. Chosen(c) /\ req[c] \in Requests /\ on[c] # None
      BY <1>1 DEF IInv, RequestInv
    <3>2. Chosen(c)'
      BY <1>1, <3>1 DEF Chosen, Offers, siteVars, requestVars
    <3> QED
      BY <1>1, <1>3, <2>1, <3>1, <3>2 DEF RequestInv, requestVars
  <2>2. CASE d # c
    BY <1>1, <1>3, <2>2, OtherRequests DEF siteVars, requestVars, IInv
  <2> QED
    BY <2>1, <2>2
<1>7. ASSUME NEW d \in Clients, on'[d] # None PROVE FitsOn(d, on[d])'
  BY <1>1, <1>7 DEF IInv, FitsOn, Users, siteVars
<1> QED
  BY <1>2, <1>4, <1>5, <1>6, <1>7 DEF IInv

\* A request is over with its connection, which is closed only if nobody else
\* is on it.
LEMMA InvRelease ==
  ASSUME IInv, NEW c \in Clients, pc[c] \in {"sending", "sent"}, Release(c),
         NEW place \in {"encode", "answered"}, Goto(c, place),
         resp' \in [Clients -> [status: {200, 400, 404, 500, 502},
                                from: Addresses \cup {None}] \cup {None}],
         \A d \in Clients \ {c} : resp'[d] = resp[d],
         resp'[c].status # 404,
         resp'[c].from \in {None, ep[c].addr},
         UNCHANGED <<alive, siteVars, selectVars, svc, requestVars, ver, ep>>
  PROVE  IInv'
<1>1. /\ TypeOK /\ on[c] \in Conns /\ FitsOn(c, on[c]) /\ Chosen(c) /\ req[c] \in Requests
  BY SentFacts DEF IInv
<1>2. /\ on' = [on EXCEPT ![c] = None]
      /\ \/ conn' = conn
         \/ Users(on[c]) = {c} /\ conn' = [conn EXCEPT ![on[c]] = None]
  BY DEF Release
<1>3. TypeOK'
  <2>1. conn' \in [Conns -> Conn \cup {None}]
    <3>1. conn \in [Conns -> Conn \cup {None}]
      BY <1>1 DEF TypeOK
    <3> QED
      BY <1>2, <3>1
  <2>2. on' \in [Clients -> Conns \cup {None}]
    BY <1>1, <1>2 DEF TypeOK
  <2>3. pc' \in [Clients -> Places]
    BY <1>1 DEF Goto, Places, TypeOK
  <2> QED
    BY <1>1, <2>1, <2>2, <2>3 DEF siteVars, selectVars, requestVars, TypeOK
<1>4. /\ pc'[c] = place /\ on'[c] = None
      /\ \A d \in Clients \ {c} : pc'[d] = pc[d] /\ on'[d] = on[d]
      /\ \A k \in Conns : conn'[k] # None => conn'[k] = conn[k]
  BY <1>1, <1>2 DEF Goto, TypeOK
<1>5. SitesInv'
  BY <1>4 DEF IInv, SitesInv, siteVars
<1>6. TurnsInv'
  BY TurnsKept DEF siteVars, selectVars, IInv
<1>7. ASSUME NEW d \in Clients PROVE RequestInv(d)'
  <2>1. CASE d = c
    <3>1. AsRouted(c)' /\ req[c].path \in DOMAIN cfg[svc[c]].routes
      BY <1>1 DEF AsRouted, Chosen, Offers, siteVars, requestVars
    <3> QED
      BY <1>1, <1>4, <2>1, <3>1 DEF RequestInv, siteVars, requestVars
  <2>2. CASE d # c
    BY <1>4, <2>2, OtherRequests DEF siteVars, requestVars, IInv
  <2> QED
    BY <2>1, <2>2
<1>8. ASSUME NEW d \in Clients, on'[d] # None PROVE FitsOn(d, on[d])'
  <2>1. d # c /\ on'[d] = on[d] /\ on[d] \in Conns /\ FitsOn(d, on[d])
    BY <1>1, <1>4, <1>8 DEF IInv, TypeOK
  <2>2. d \in Users(on[d])
    BY DEF Users
  <2>3. conn'[on[d]] = conn[on[d]]
    <3>1. CASE conn' = conn
      BY <3>1
    <3>2. CASE Users(on[c]) = {c} /\ conn' = [conn EXCEPT ![on[c]] = None]
      <4>1. on[d] # on[c]
        BY <2>1, <2>2, <3>2
      <4> QED
        BY <1>1, <2>1, <3>2, <4>1 DEF TypeOK
    <3> QED
      BY <1>2, <3>1, <3>2
  <2>4. Users(on[d]) = {d} => Users(on[d])' = {d}
    <3> DEFINE k == on[d]
    <3>1. Users(k)' = Users(k) \ {c}
      BY <1>4, <2>1, NoneFacts DEF Users
    <3> QED
      BY <2>1, <3>1
  <2> QED
    BY <2>1, <2>3, <2>4 DEF FitsOn, siteVars
<1> QED
  BY <1>3, <1>5, <1>6, <1>7, <1>8 DEF IInv

\* The upstream answers, or fails.
LEMMA InvAnswer ==
  ASSUME IInv, NEW c \in Clients, Answer(c) \/ SendFails(c)
  PROVE  IInv'
<1>1. pc[c] \in {"sending", "sent"} /\ Release(c)
  BY DEF Answer, SendFails
<1>2. PICK place \in {"encode", "answered"} : Goto(c, place)
  BY ReturnFacts DEF Answer, SendFails
<1>3. conn[on[c]].addr = ep[c].addr /\ conn[on[c]].addr \in Addresses
  BY <1>1, SentFacts DEF FitsOn, Conn
<1>4. /\ resp' \in [Clients -> [status: {200, 400, 404, 500, 502},
                                from: Addresses \cup {None}] \cup {None}]
      /\ \A d \in Clients \ {c} : resp'[d] = resp[d]
      /\ resp'[c].status # 404 /\ resp'[c].from \in {None, ep[c].addr}
  <2>1. CASE Answer(c)
    BY <1>3, <2>1 DEF Answer, IInv, TypeOK
  <2>2. CASE SendFails(c)
    BY <2>2, RespondFacts DEF SendFails, IInv
  <2> QED
    BY <2>1, <2>2
<1> QED
  BY <1>1, <1>2, <1>4, InvRelease DEF Answer, SendFails

\* A connection that nobody is on is closed.
LEMMA InvIdleCloses ==
  ASSUME IInv, NEW k \in Conns, IdleCloses(k)
  PROVE  IInv'
<1>1. /\ Users(k) = {} /\ conn' = [conn EXCEPT ![k] = None]
      /\ UNCHANGED <<alive, siteVars, selectVars, svc, pc, requestVars, ver, ep, on, resp>>
  BY DEF IdleCloses
<1>2. TypeOK'
  BY <1>1 DEF siteVars, selectVars, requestVars, IInv, TypeOK
<1>3. \A j \in Conns : conn'[j] = IF j = k THEN None ELSE conn[j]
  BY <1>1 DEF IInv, TypeOK
<1>4. SitesInv'
  BY <1>1, <1>3 DEF IInv, SitesInv, siteVars
<1>5. TurnsInv'
  BY <1>1, TurnsKept DEF siteVars, selectVars, IInv
<1>6. ASSUME NEW d \in Clients PROVE RequestInv(d)'
  BY <1>1, OtherRequests DEF siteVars, requestVars, IInv
<1>7. ASSUME NEW d \in Clients, on'[d] # None PROVE FitsOn(d, on[d])'
  <2>1. on[d] \in Conns /\ FitsOn(d, on[d])
    BY <1>1, <1>7 DEF IInv, TypeOK
  <2>2. conn'[on[d]] = conn[on[d]]
    BY <1>1, <1>3, <2>1 DEF Users
  <2> QED
    BY <1>1, <2>1, <2>2 DEF FitsOn, Users, siteVars
<1> QED
  BY <1>1, <1>2, <1>4, <1>5, <1>6, <1>7 DEF IInv

-----------------------------------------------------------------------------
(* Updates of the site.                                                    *)

\* A new service starts its turns, and takes over only the pools of settings
\* that are its own.
LEMMA InvUpdate ==
  ASSUME IInv, Update
  PROVE  IInv'
<1>1. TypeOK /\ cur \in Generations /\ cur \in Nat /\ cur >= 1
  BY GenerationFacts DEF IInv
<1>2. PICK f \in Configs :
        /\ cfg' = [cfg EXCEPT ![cur + 1] = f]
        /\ pool' = [pool EXCEPT ![cur + 1] = [s \in Schemes |-> HandedOver(f, s)]]
  BY DEF Update
<1>3. /\ cur' = cur + 1 /\ cur + 1 \in Generations
      /\ UNCHANGED <<alive, selectVars, svc, pc, requestVars, ver, ep, on, resp, conn>>
  BY <1>1, ProxyAssumption DEF Update, Generations
<1>4. \A s \in Schemes : HandedOver(f, s) \in Generations
  BY <1>1, <1>3 DEF HandedOver, TypeOK
<1>5. TypeOK'
  BY <1>1, <1>2, <1>3, <1>4 DEF selectVars, requestVars, TypeOK
<1>6. /\ \A g \in 1..cur : g \in Generations /\ g # cur + 1
      /\ cfg'[cur + 1] = f
      /\ \A g \in 1..cur : cfg'[g] = cfg[g] /\ pool'[g] = pool[g]
      /\ \A s \in Schemes : pool'[cur + 1][s] = HandedOver(f, s)
  BY <1>1, <1>2, <1>3, GenerationFacts DEF TypeOK
<1>7. SitesInv'
  <2>1. \A c \in Clients : svc'[c] \in 1..cur'
    BY <1>1, <1>3 DEF IInv, SitesInv
  <2>2. \A k \in Conns : conn'[k] # None => conn'[k].pool \in 1..cur'
    BY <1>1, <1>3 DEF IInv, SitesInv
  <2>3. ASSUME NEW g \in 1..cur', NEW s \in Schemes
        PROVE  /\ pool'[g][s] \in 1..cur'
               /\ Settings(cfg'[pool'[g][s]]) = Settings(cfg'[g])
    <3>1. CASE g \in 1..cur
      <4>1. pool[g][s] \in 1..cur /\ Settings(cfg[pool[g][s]]) = Settings(cfg[g])
        BY <3>1 DEF IInv, SitesInv
      <4> QED
        BY <1>1, <1>3, <1>6, <3>1, <4>1
    <3>2. CASE g = cur + 1
      <4>1. CASE Settings(f) = Settings(cfg[cur]) /\ f.content_handler = cfg[cur].content_handler
        <5>1. /\ pool[cur][s] \in 1..cur
              /\ Settings(cfg[pool[cur][s]]) = Settings(cfg[cur])
          BY <1>1 DEF IInv, SitesInv
        <5>2. pool'[g][s] = pool[cur][s]
          BY <1>6, <3>2, <4>1 DEF HandedOver
        <5> QED
          BY <1>1, <1>3, <1>6, <3>2, <4>1, <5>1, <5>2
      <4>2. CASE ~(Settings(f) = Settings(cfg[cur]) /\ f.content_handler = cfg[cur].content_handler)
        BY <1>1, <1>3, <1>6, <3>2, <4>2 DEF HandedOver
      <4> QED
        BY <4>1, <4>2
    <3> QED
      BY <1>1, <1>3, <3>1, <3>2
  <2> QED
    BY <2>1, <2>2, <2>3 DEF SitesInv
<1>8. TurnsInv'
  <2>1. ASSUME NEW g \in Generations, g <= cur', NEW p \in DOMAIN cfg'[g].routes
        PROVE  InTurn(cfg'[g].routes[p], next'[g][p], count'[g][p])
    <3>1. CASE g <= cur
      BY <1>1, <1>3, <1>6, <2>1, <3>1, GenerationFacts DEF IInv, TurnsInv, selectVars
    <3>2. CASE g = cur + 1
      <4>1. p \in Paths /\ Len(f.routes[p].upstreams) \in 1..MaxUpstreams
        BY <1>6, <2>1, <3>2, RouteFacts
      <4>2. next'[g][p] = 0 /\ \A i \in Index : count'[g][p][i] = 0
        BY <1>1, <1>3, <3>2, <4>1 DEF IInv, TurnsInv, selectVars
      <4>3. \A i \in 0..(Len(f.routes[p].upstreams) - 1) : i \in Index /\ ~(i < 0)
        BY <4>1, ProxyAssumption DEF Index
      <4>4. 0 \in 0..(Len(f.routes[p].upstreams) - 1)
        BY <4>1, ProxyAssumption
      <4>5. Len(f.routes[p].upstreams) - 1 \in 0..(Len(f.routes[p].upstreams) - 1)
        BY <4>1, ProxyAssumption
      <4> QED
        BY <1>6, <3>2, <4>2, <4>3, <4>4, <4>5 DEF InTurn
    <3>3. g \in Nat /\ g <= cur + 1
      BY <1>1, <1>3, <2>1, GenerationFacts
    <3> QED
      BY <1>1, <3>1, <3>2, <3>3
  <2>2. ASSUME NEW g \in Generations, ~(g <= cur'), NEW p \in Paths
        PROVE  next'[g][p] = 0 /\ \A i \in Index : count'[g][p][i] = 0
    BY <1>1, <1>3, <2>2, GenerationFacts DEF IInv, TurnsInv, selectVars
  <2> QED
    BY <2>1, <2>2 DEF TurnsInv
<1>9. ASSUME NEW d \in Clients PROVE RequestInv(d)'
  <2>1. svc[d] \in 1..cur
    BY DEF IInv, SitesInv
  <2> QED
    BY <1>3, <1>6, <2>1, OtherRequests DEF requestVars, IInv
<1>10. ASSUME NEW d \in Clients, on'[d] # None PROVE FitsOn(d, on[d])'
  <2>1. FitsOn(d, on[d]) /\ pool'[svc[d]] = pool[svc[d]]
    BY <1>3, <1>6, <1>10 DEF IInv, SitesInv
  <2> QED
    BY <1>3, <2>1 DEF FitsOn, Users
<1> QED
  BY <1>3, <1>5, <1>7, <1>8, <1>9, <1>10 DEF IInv

-----------------------------------------------------------------------------
(* The theorems.                                                           *)

\* The initial states satisfy the invariant.
LEMMA InvInit == Init => IInv
<1> SUFFICES ASSUME Init PROVE IInv
  OBVIOUS
<1>1. 1 \in Generations /\ cur = 1
  BY ProxyAssumption DEF Init, Generations
<1>2. TypeOK
  BY <1>1, ProxyAssumption DEF Init, TypeOK, Places, Versions
<1>3. SitesInv
  BY <1>1 DEF Init, SitesInv
<1>4. TurnsInv
  <2>1. ASSUME NEW g \in Generations, NEW p \in Paths
        PROVE  next[g][p] = 0 /\ \A i \in Index : count[g][p][i] = 0
    BY DEF Init
  <2>2. ASSUME NEW g \in Generations, NEW p \in DOMAIN cfg[g].routes
        PROVE  InTurn(cfg[g].routes[p], next[g][p], count[g][p])
    <3> DEFINE m == Len(cfg[g].routes[p].upstreams)
    <3>1. p \in Paths /\ m \in 1..MaxUpstreams
      BY <1>2, RouteFacts DEF TypeOK
    <3>2. 0 \in 0..(m - 1) /\ m - 1 \in 0..(m - 1)
          /\ \A i \in 0..(m - 1) : i \in Index /\ ~(i < 0)
      BY <3>1, ProxyAssumption DEF Index
    <3> QED
      BY <2>1, <3>1, <3>2 DEF InTurn
  <2> QED
    BY <2>1, <2>2 DEF TurnsInv
<1>5. \A c \in Clients : RequestInv(c) /\ on[c] = None
  BY DEF Init, RequestInv
<1> QED
  BY <1>2, <1>3, <1>4, <1>5 DEF IInv

\* Every step preserves it.
LEMMA InvNext == IInv /\ [Next]_vars => IInv'
<1> SUFFICES ASSUME IInv, [Next]_vars PROVE IInv'
  OBVIOUS
<1>1. ASSUME NEW c \in Clients, Client(c) \/ Serve(c) \/ Body(c) \/ Upstream(c)
      PROVE  IInv'
  <2>1. CASE Accept(c) \/ Close(c)
    BY <2>1, InvAccept
  <2>2. CASE Receive(c) \/ Deliver(c)
    BY <2>2, InvReceive
  <2>3. CASE NotFound(c) \/ Unresolved(c) \/ ConnectFails(c)
    BY <2>3, InvFails
  <2>4. CASE Decode(c) \/ Encode(c) \/ NotPooled(c)
    BY <2>4, InvPasses
  <2>5. CASE Rewrite(c) \/ RewritePanics(c)
    BY <2>5, InvRewrite
  <2>6. CASE FromPool(c) \/ Connected(c)
    BY <2>6, InvConnect
  <2>7. CASE Answer(c) \/ SendFails(c)
    BY <2>7, InvAnswer
  <2>8. CASE Written(c)
    BY <2>8, InvWritten
  <2> QED
    BY <1>1, <2>1, <2>2, <2>3, <2>4, <2>5, <2>6, <2>7, <2>8 DEF Client, Serve, Body, Upstream
<1>2. ASSUME NEW k \in Conns, IdleCloses(k) PROVE IInv'
  BY <1>2, InvIdleCloses
<1>3. CASE Update
  BY <1>3, InvUpdate
<1>4. CASE UNCHANGED vars
  <2>1. UNCHANGED <<alive, siteVars, selectVars, svc, pc, requestVars, ver, ep, on, resp, conn>>
    BY <1>4 DEF vars
  <2>2. TypeOK' /\ SitesInv'
    BY <2>1 DEF siteVars, selectVars, requestVars, IInv, TypeOK, SitesInv
  <2>3. TurnsInv'
    BY <2>1, TurnsKept DEF siteVars, selectVars, IInv
  <2>4. ASSUME NEW d \in Clients PROVE RequestInv(d)'
    BY <2>1, OtherRequests DEF siteVars, requestVars, IInv
  <2>5. ASSUME NEW d \in Clients, on'[d] # None PROVE FitsOn(d, on[d])'
    BY <2>1, <2>5 DEF IInv, FitsOn, Users, siteVars
  <2> QED
    BY <2>1, <2>2, <2>3, <2>4, <2>5 DEF IInv
<1> QED
  BY <1>1, <1>2, <1>3, <1>4 DEF Next, Dead

\* The inductive invariant: turns are in order, every service uses pools made
\* with its settings, and a connection fits the requests that are on it.
THEOREM InvariantCorrect == Spec => []IInv
<1> QED
  BY InvInit, InvNext, PTL DEF Spec

\* The variables have their types.
THEOREM TypeCorrect == Spec => []TypeOK
<1>1. IInv => TypeOK
  BY DEF IInv
<1> QED
  BY <1>1, InvariantCorrect, PTL

\* No upstream of a route with round robin is ahead of another by two turns.
THEOREM TurnsAreFair == Spec => []FairShare
<1>1. ASSUME IInv, NEW g \in 1..cur, NEW p \in DOMAIN cfg[g].routes,
             cfg[g].routes[p].load_balancer = "round_robin",
             NEW i \in 0..(Len(cfg[g].routes[p].upstreams) - 1),
             NEW j \in 0..(Len(cfg[g].routes[p].upstreams) - 1)
      PROVE  count[g][p][i] <= count[g][p][j] + 1
  <2> DEFINE m == Len(cfg[g].routes[p].upstreams)
             turns == count[g][p]
  <2>1. TypeOK /\ g \in Generations /\ g <= cur
    BY <1>1, GenerationFacts DEF IInv
  <2>2. p \in Paths /\ m \in 1..MaxUpstreams
    BY <2>1, RouteFacts DEF TypeOK
  <2>3. turns \in [Index -> Nat] /\ m - 1 \in Index /\ next[g][p] \in Nat
    BY <2>1, <2>2, ProxyAssumption DEF TypeOK, Index
  <2>4. \A k \in 0..(m - 1) :
          turns[k] = IF k < next[g][p] THEN turns[m - 1] + 1 ELSE turns[m - 1]
    BY <1>1, <2>1 DEF IInv, TurnsInv, InTurn
  <2>5. \A k \in {i, j} : turns[k] = turns[m - 1] \/ turns[k] = turns[m - 1] + 1
    BY <2>4
  <2>6. turns[m - 1] \in Nat
    BY <2>3
  <2>7. PICK t \in Nat : turns[m - 1] = t
    BY <2>6
  <2>8. turns[i] \in {t, t + 1} /\ turns[j] \in {t, t + 1}
    BY <2>5, <2>7
  <2> QED
    BY <2>8
<1>2. IInv => FairShare
  BY <1>1 DEF FairShare
<1> QED
  BY <1>2, InvariantCorrect, PTL

\* A response comes from an upstream of the route that the client's own service
\* has for the path.
THEOREM RoutesAreFollowed == Spec => []AnsweredByRoute
<1>1. IInv => AnsweredByRoute
  BY DEF IInv, RequestInv, AnsweredByRoute
<1> QED
  BY <1>1, InvariantCorrect, PTL

\* A request is on a connection to its endpoint, made with the settings of its
\* service, and shares it only if that is HTTP/2.
THEOREM ConnectionsAreFit == Spec => []ConnectionsFit
<1>1. ASSUME IInv, NEW c \in Clients, on[c] # None
      PROVE  Settings(cfg[conn[on[c]].pool]) = Settings(cfg[svc[c]])
  <2>1. FitsOn(c, on[c]) /\ Chosen(c)
    BY <1>1 DEF IInv, RequestInv
  <2>2. ep[c].scheme \in Schemes /\ svc[c] \in 1..cur
    BY <1>1, <2>1, EndpointFacts DEF Chosen, IInv, SitesInv
  <2> QED
    BY <1>1, <2>1, <2>2 DEF FitsOn, IInv, SitesInv
<1>2. IInv => ConnectionsFit
  <2> SUFFICES ASSUME IInv, NEW c \in Clients, on[c] # None
               PROVE  LET k == conn[on[c]] IN
                      /\ k # None
                      /\ k.scheme = ep[c].scheme /\ k.addr = ep[c].addr
                      /\ Settings(cfg[k.pool]) = Settings(cfg[svc[c]])
                      /\ k.scheme = "http" => ver[c] = k.version
                      /\ k.version = "1.1" => Users(on[c]) = {c}
    BY DEF ConnectionsFit
  <2> QED
    BY <1>1 DEF IInv, FitsOn
<1> QED
  BY <1>2, InvariantCorrect, PTL
=============================================================================
