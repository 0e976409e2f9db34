----------------------------- MODULE HttpProxy -----------------------------
(***************************************************************************)
(* What a worker does with the HTTP requests of one site: the choice of a  *)
(* route and of one of its endpoints (http/handlers/route.rs and           *)
(* common/selector.rs), the decoding and encoding of bodies                *)
(* (content_handler.rs), and the exchange with the endpoint on a pooled    *)
(* connection (upstream.rs).  Updates of the site replace its service,     *)
(* which takes over the pools of the one before, while clients that have   *)
(* connected before go on with the old one.                                *)
(*                                                                         *)
(* A client stands for whatever hands over one request at a time: an       *)
(* HTTP/1 connection or a stream of HTTP/2.  matchit, the connectors with  *)
(* their pools (monoio_transports), the codecs and the upstreams are       *)
(* external.  Endpoints that are URIs have an authority.                   *)
(***************************************************************************)
EXTENDS Naturals, Sequences

CONSTANTS
  Clients,
  Paths,
  Addresses,     \* of the endpoints
  Configs,       \* the configurations that the site can have
  Requests,
  Conns,         \* names for connections to upstreams
  None,
  MaxUpstreams,  \* bound on the upstreams of a route
  MaxUpdates,    \* bound on the updates of the site
  MaxRequests    \* bound on the requests, of all clients

Schemes == {"http", "https"}
Versions == {"1.1", "2"}
Encodings == {"identity", "gzip"}

Endpoint == [kind: {"uri", "socket", "unix"}, scheme: Schemes, addr: Addresses, weight: Nat]
Route == [load_balancer: {"round_robin", "random", "weighted_random", "first"},
          upstreams: Seq(Endpoint)]

\* What the making of a LoadBalancer asks for (without it the making panics, see
\* SiteFactory).
IsRoute(r) ==
  /\ r \in Route
  /\ Len(r.upstreams) \in 1..MaxUpstreams
  /\ r.load_balancer = "weighted_random" =>
       \E i \in DOMAIN r.upstreams : r.upstreams[i].weight > 0

\* connect_timeout and read_timeout: are they set?  content_handler: is it in the
\* chain?
IsConfig(f) ==
  /\ DOMAIN f.routes \subseteq Paths
  /\ \A p \in DOMAIN f.routes : IsRoute(f.routes[p])
  /\ f.version \in {"auto", "http11", "http2"}
  /\ {f.connect_timeout, f.read_timeout, f.content_handler} \subseteq BOOLEAN

\* sized: does it have a Content-Length other than 0?
Request == [path: Paths, version: Versions, sized: BOOLEAN,
            content_encoding: Encodings, accept_encoding: Encodings]

\* The services that the site has had, in their order, and their upstreams.
Generations == 1..(MaxUpdates + 1)
Index == 0..(MaxUpstreams - 1)

Conn == [pool: Generations, scheme: Schemes, addr: Addresses, version: Versions]

ASSUME ProxyAssumption ==
  /\ \A f \in Configs : IsConfig(f)
  /\ Requests \subseteq Request
  /\ None \notin Clients \cup Addresses \cup Conns \cup Endpoint \cup Request \cup Conn
  /\ MaxUpstreams \in Nat /\ MaxUpdates \in Nat /\ MaxRequests \in Nat

VARIABLES
  alive,  \* has the worker not panicked?
  cur,    \* the service of the site
  cfg,    \* the configuration of each service
  pool,   \* the pool of each service and scheme, named by who made it
  next,   \* next_idx of each service and path
  count,  \* how often each upstream had its turn in round robin, a history
  svc,    \* the service of each client
  pc,     \* where each client's request is
  asked,  \* number of requests
  req,    \* the request
  ver,    \* the version that it is written in
  ep,     \* the endpoint selected for it
  on,     \* the connection that it is sent on
  resp,   \* status of the response, and the address that it comes from
  conn    \* the connections to upstreams

siteVars == <<cur, cfg, pool>>
selectVars == <<next, count>>
requestVars == <<asked, req>>
vars == <<alive, siteVars, selectVars, svc, pc, requestVars, ver, ep, on, resp, conn>>

Places == {"closed", "ready", "handle", "decode", "connect", "connecting", "sending", "sent",
           "encode", "answered"}

Settings(f) == <<f.version, f.read_timeout>>
Goto(c, place) == pc' = [pc EXCEPT ![c] = place]

Users(k) == {c \in Clients : on[c] = k}

\* Faulty variant: a request goes by the routes that the site has now.
RoutesOfSite(c) == cfg[cur].routes

Routes(c) == cfg[svc[c]].routes
Upstreams(c) == Routes(c)[req[c].path].upstreams

-----------------------------------------------------------------------------
(* The clients, and what the core does for them.                           *)

Accept(c) ==
  /\ alive /\ pc[c] = "closed"
  /\ svc' = [svc EXCEPT ![c] = cur]
  /\ Goto(c, "ready")
  /\ UNCHANGED <<alive, siteVars, selectVars, requestVars, ver, ep, on, resp, conn>>

Close(c) ==
  /\ alive /\ pc[c] = "ready"
  /\ Goto(c, "closed")
  /\ svc' = [svc EXCEPT ![c] = 1]
  /\ UNCHANGED <<alive, siteVars, selectVars, requestVars, ver, ep, on, resp, conn>>

Receive(c) ==
  /\ alive /\ pc[c] = "ready" /\ asked < MaxRequests
  /\ \E r \in Requests :
       /\ req' = [req EXCEPT ![c] = r]
       /\ ver' = [ver EXCEPT ![c] = r.version]
  /\ asked' = asked + 1
  /\ Goto(c, "handle")
  /\ UNCHANGED <<alive, siteVars, selectVars, svc, ep, on, resp, conn>>

\* The response is written, and what it was made from dropped.
Deliver(c) ==
  /\ alive /\ pc[c] = "answered"
  /\ Goto(c, "ready")
  /\ req' = [req EXCEPT ![c] = None]
  /\ ep' = [ep EXCEPT ![c] = None]
  /\ resp' = [resp EXCEPT ![c] = None]
  /\ ver' = [ver EXCEPT ![c] = "1.1"]
  /\ UNCHANGED <<alive, siteVars, selectVars, svc, asked, on, conn>>

\* generate_response: a response of our own.
Respond(c, status) == resp' = [resp EXCEPT ![c] = [status |-> status, from |-> None]]

-----------------------------------------------------------------------------
(* RewriteAndRouteHandler and ContentHandler.                              *)

\* LoadBalancer::select, by its index
Selectable(c) ==
  LET strategy == Routes(c)[req[c].path].load_balancer IN
  CASE strategy = "round_robin" -> {next[svc[c]][req[c].path]}
    [] strategy = "first"       -> {0}
    [] strategy = "random"      -> 0..(Len(Upstreams(c)) - 1)
    [] OTHER                    -> {i \in 0..(Len(Upstreams(c)) - 1) :
                                      Upstreams(c)[i + 1].weight > 0}

\* Faulty variant: the index wraps one upstream too early.
SelectedShort(c, i) ==
  LET p == req[c].path IN
  IF Routes(c)[p].load_balancer = "round_robin" /\ Len(Upstreams(c)) > 1
  THEN /\ next' = [next EXCEPT ![svc[c]][p] = (@ + 1) % (Len(Upstreams(c)) - 1)]
       /\ count' = [count EXCEPT ![svc[c]][p][i] = @ + 1]
  ELSE UNCHANGED selectVars

\* RoundRobinSelector::select goes on to the next, the others keep nothing.
Selected(c, i) ==
  LET p == req[c].path IN
  IF Routes(c)[p].load_balancer = "round_robin"
  THEN /\ next' = [next EXCEPT ![svc[c]][p] = (@ + 1) % Len(Upstreams(c))]
       /\ count' = [count EXCEPT ![svc[c]][p][i] = @ + 1]
  ELSE UNCHANGED selectVars

\* Is the body decoded?  If so, whatever comes back may be encoded.
Recoded(c) ==
  cfg[svc[c]].content_handler /\ req[c].sized /\ req[c].content_encoding # "identity"
Return(c) ==
  Goto(c, IF Recoded(c) /\ req[c].accept_encoding # "identity"
          THEN "encode" ELSE "answered")

NotFound(c) ==
  /\ alive /\ pc[c] = "handle"
  /\ req[c].path \notin DOMAIN Routes(c)
  /\ Respond(c, 404) /\ Goto(c, "answered")
  /\ UNCHANGED <<alive, siteVars, selectVars, svc, requestVars, ver, ep, on, conn>>

\* ServiceRouter::call, then rewrite_request: Host, scheme and URI become those
\* of the endpoint.
Rewrite(c) ==
  /\ alive /\ pc[c] = "handle"
  /\ req[c].path \in DOMAIN Routes(c)
  /\ \E i \in Selectable(c) :
       /\ Upstreams(c)[i + 1].kind = "uri"
       /\ ep' = [ep EXCEPT ![c] = Upstreams(c)[i + 1]]
       /\ Selected(c, i)
  /\ Goto(c, IF Recoded(c) THEN "decode" ELSE "connect")
  /\ UNCHANGED <<alive, siteVars, svc, requestVars, ver, on, resp, conn>>

\* unimplemented!: the thread unwinds.
RewritePanics(c) ==
  /\ alive /\ pc[c] = "handle"
  /\ req[c].path \in DOMAIN Routes(c)
  /\ \E i \in Selectable(c) : Upstreams(c)[i + 1].kind # "uri" /\ Selected(c, i)
  /\ alive' = FALSE
  /\ UNCHANGED <<siteVars, svc, pc, requestVars, ver, ep, on, resp, conn>>

\* decode_content: the whole body of the request has come, or has broken off.
Decode(c) ==
  /\ alive /\ pc[c] = "decode"
  /\ \/ Goto(c, "connect") /\ UNCHANGED resp
     \/ Respond(c, 400) /\ Goto(c, "answered")
  /\ UNCHANGED <<alive, siteVars, selectVars, svc, requestVars, ver, ep, on, conn>>

\* encode_content: the same for the body of the response.
Encode(c) ==
  /\ alive /\ pc[c] = "encode"
  /\ \/ Goto(c, "answered") /\ UNCHANGED resp
     \/ Respond(c, 500) /\ Goto(c, "answered")
  /\ UNCHANGED <<alive, siteVars, selectVars, svc, requestVars, ver, ep, on, conn>>

-----------------------------------------------------------------------------
(* UpstreamHandler.                                                        *)

Fits(c, k) ==
  /\ conn[k] # None
  /\ conn[k].pool = pool[svc[c]][ep[c].scheme]
  /\ conn[k].scheme = ep[c].scheme /\ conn[k].addr = ep[c].addr
  /\ conn[k].version = "1.1" => Users(k) = {}

\* send_http_request writes the request in the version of the connection, and
\* send_https_request in the one that it came in.
Send(c, k, version) ==
  /\ on' = [on EXCEPT ![c] = k]
  /\ ver' = IF ep[c].scheme = "http" THEN [ver EXCEPT ![c] = version] ELSE ver
  /\ Goto(c, "sending")

\* The name of the endpoint does not resolve.
Unresolved(c) ==
  /\ alive /\ pc[c] = "connect"
  /\ Respond(c, 400) /\ Return(c)
  /\ UNCHANGED <<alive, siteVars, selectVars, svc, requestVars, ver, ep, on, conn>>

FromPool(c) ==
  /\ alive /\ pc[c] = "connect"
  /\ \E k \in Conns : Fits(c, k) /\ Send(c, k, conn[k].version)
  /\ UNCHANGED <<alive, siteVars, selectVars, svc, requestVars, ep, resp, conn>>

NotPooled(c) ==
  /\ alive /\ pc[c] = "connect"
  /\ ~\E k \in Conns : Fits(c, k)
  /\ Goto(c, "connecting")
  /\ UNCHANGED <<alive, siteVars, selectVars, svc, requestVars, ver, ep, on, resp, conn>>

\* What the connectors of create_connectors speak: with "auto", TLS negotiates.
Speaks(f, scheme) ==
  CASE f.version = "http11" -> {"1.1"}
    [] f.version = "http2"  -> {"2"}
    [] OTHER                -> IF scheme = "https" THEN Versions ELSE {"1.1"}

\* An idle connection gives its name away, and is closed.
Connected(c) ==
  /\ alive /\ pc[c] = "connecting"
  /\ \E k \in Conns, v \in Speaks(cfg[svc[c]], ep[c].scheme) :
       /\ Users(k) = {}
       /\ conn' = [conn EXCEPT ![k] = [pool |-> pool[svc[c]][ep[c].scheme],
                                       scheme |-> ep[c].scheme, addr |-> ep[c].addr,
                                       version |-> v]]
       /\ Send(c, k, v)
  /\ UNCHANGED <<alive, siteVars, selectVars, svc, requestVars, ep, resp>>

ConnectFails(c) ==
  /\ alive /\ pc[c] = "connecting"
  /\ Respond(c, 502) /\ Return(c)
  /\ UNCHANGED <<alive, siteVars, selectVars, svc, requestVars, ver, ep, on, conn>>

\* Only send_https_request looks at connect_timeout.
ConnectTimesOut(c) ==
  /\ ep[c] # None
  /\ ep[c].scheme = "https" /\ cfg[svc[c]].connect_timeout
  /\ ConnectFails(c)

\* The handle of the connection is dropped: it stays in its pool, or is closed
\* if nobody else is on it.
Release(c) ==
  /\ on' = [on EXCEPT ![c] = None]
  /\ \/ UNCHANGED conn
     \/ Users(on[c]) = {c} /\ conn' = [conn EXCEPT ![on[c]] = None]

\* The request is written, with its body as that comes.
Written(c) ==
  /\ alive /\ pc[c] = "sending"
  /\ Goto(c, "sent")
  /\ UNCHANGED <<alive, siteVars, selectVars, svc, requestVars, ver, ep, on, resp, conn>>

Answer(c) ==
  /\ alive /\ pc[c] = "sent"
  /\ resp' = [resp EXCEPT ![c] = [status |-> 200, from |-> conn[on[c]].addr]]
  /\ Release(c)
  /\ Return(c)
  /\ UNCHANGED <<alive, siteVars, selectVars, svc, requestVars, ver, ep>>

SendFails(c) ==
  /\ alive /\ pc[c] \in {"sending", "sent"}
  /\ Respond(c, 502) /\ Return(c)
  /\ Release(c)
  /\ UNCHANGED <<alive, siteVars, selectVars, svc, requestVars, ver, ep>>

\* Faulty variant: the timeout is only set on the connector for TLS.
ReadTimesOutHttps(c) ==
  /\ ep[c] # None /\ ep[c].scheme = "https"
  /\ pc[c] = "sent" /\ cfg[svc[c]].read_timeout
  /\ SendFails(c)

\* set_read_timeout, on both connectors
ReadTimesOut(c) == pc[c] = "sent" /\ cfg[svc[c]].read_timeout /\ SendFails(c)

\* A connection that nobody uses is closed.
IdleCloses(k) ==
  /\ alive /\ conn[k] # None /\ Users(k) = {}
  /\ conn' = [conn EXCEPT ![k] = None]
  /\ UNCHANGED <<alive, siteVars, selectVars, svc, pc, requestVars, ver, ep, on, resp>>

-----------------------------------------------------------------------------
\* Faulty variant: whatever their settings.
HandedOverAlways(f, s) == pool[cur][s]

\* make_via_ref: transfer_pool hands over the pools of the old service if their
\* settings are the same; a chain of other handlers is given no old service.
HandedOver(f, s) ==
  IF Settings(f) = Settings(cfg[cur]) /\ f.content_handler = cfg[cur].content_handler
  THEN pool[cur][s] ELSE cur + 1

Update ==
  /\ alive /\ cur <= MaxUpdates
  /\ cur' = cur + 1
  /\ \E f \in Configs :
       /\ cfg' = [cfg EXCEPT ![cur + 1] = f]
       /\ pool' = [pool EXCEPT ![cur + 1] = [s \in Schemes |-> HandedOver(f, s)]]
  /\ UNCHANGED <<alive, selectVars, svc, pc, requestVars, ver, ep, on, resp, conn>>

\* The worker's thread is gone.
Dead == ~alive /\ UNCHANGED vars

Init ==
  /\ alive = TRUE
  /\ cur = 1
  /\ cfg \in [Generations -> Configs] /\ \A g \in Generations : cfg[g] = cfg[1]
  /\ pool = [g \in Generations |-> [s \in Schemes |-> 1]]
  /\ next = [g \in Generations |-> [p \in Paths |-> 0]]
  /\ count = [g \in Generations |-> [p \in Paths |-> [i \in Index |-> 0]]]
  /\ svc = [c \in Clients |-> 1]
  /\ pc = [c \in Clients |-> "closed"]
  /\ asked = 0
  /\ req = [c \in Clients |-> None]
  /\ ver = [c \in Clients |-> "1.1"]
  /\ ep = [c \in Clients |-> None]
  /\ on = [c \in Clients |-> None]
  /\ resp = [c \in Clients |-> None]
  /\ conn = [k \in Conns |-> None]

Client(c) == Accept(c) \/ Close(c) \/ Receive(c)
Serve(c) == \/ NotFound(c) \/ Rewrite(c) \/ RewritePanics(c)
            \/ Unresolved(c) \/ FromPool(c) \/ NotPooled(c) \/ Deliver(c)
Body(c) == Decode(c) \/ Written(c) \/ Encode(c)
Upstream(c) == Connected(c) \/ ConnectFails(c) \/ Answer(c) \/ SendFails(c)

Next ==
  \/ \E c \in Clients : Client(c) \/ Serve(c) \/ Body(c) \/ Upstream(c)
  \/ \E k \in Conns : IdleCloses(k)
  \/ Update
  \/ Dead

\* A connect that no timeout limits is answered in the end, and so is a request.
Unlimited(c) ==
  \/ pc[c] = "connecting" /\ (ep[c].scheme = "http" \/ ~cfg[svc[c]].connect_timeout)
  \/ pc[c] = "sent" /\ ~cfg[svc[c]].read_timeout

\* Handlers are polled when they can go on; timers fire.  Bodies need not come:
\* nothing limits the wait of Body for them.
Fairness ==
  \A c \in Clients :
    /\ WF_vars(Serve(c))
    /\ WF_vars(ConnectTimesOut(c))
    /\ WF_vars(ReadTimesOut(c))
    /\ WF_vars(Unlimited(c) /\ Upstream(c))

Spec == Init /\ [][Next]_vars /\ Fairness

-----------------------------------------------------------------------------
TypeOK ==
  /\ alive \in BOOLEAN
  /\ cur \in Generations
  /\ cfg \in [Generations -> Configs]
  /\ pool \in [Generations -> [Schemes -> Generations]]
  /\ next \in [Generations -> [Paths -> Nat]]
  /\ count \in [Generations -> [Paths -> [Index -> Nat]]]
  /\ svc \in [Clients -> Generations]
  /\ pc \in [Clients -> Places]
  /\ asked \in 0..MaxRequests
  /\ req \in [Clients -> Requests \cup {None}]
  /\ ver \in [Clients -> Versions]
  /\ ep \in [Clients -> Endpoint \cup {None}]
  /\ on \in [Clients -> Conns \cup {None}]
  /\ resp \in [Clients -> [status: {200, 400, 404, 500, 502},
                          from: Addresses \cup {None}] \cup {None}]
  /\ conn \in [Conns -> Conn \cup {None}]

\* Round robin is fair whoever's requests they are: of the upstreams of a route
\* none has been selected two times more than another.
FairShare ==
  \A g \in 1..cur : \A p \in DOMAIN cfg[g].routes :
    LET r == cfg[g].routes[p] IN
    r.load_balancer = "round_robin" =>
      \A i, j \in 0..(Len(r.upstreams) - 1) : count[g][p][i] <= count[g][p][j] + 1

\* A response is the one of an upstream of the route that the path has in the
\* service which the client connected to, whatever the site was updated to, and
\* not of one whose weight is 0 where weights count; a path without a route
\* there, and no other, is not found.
Offers(r, a) ==
  \E i \in DOMAIN r.upstreams :
    /\ r.upstreams[i].addr = a
    /\ r.load_balancer = "weighted_random" => r.upstreams[i].weight > 0

AsRouted(c) ==
  LET routes == cfg[svc[c]].routes IN
  IF req[c].path \in DOMAIN routes
  THEN /\ resp[c].status # 404
       /\ resp[c].from # None => Offers(routes[req[c].path], resp[c].from)
  ELSE resp[c].status = 404

AnsweredByRoute == \A c \in Clients : pc[c] = "answered" => AsRouted(c)

\* A request goes out on a connection to the endpoint selected for it, made with
\* the settings of the service that it came to, though the pools go from service
\* to service; without TLS it is written in the version of the connection, which
\* it shares only if that is HTTP/2.
ConnectionsFit ==
  \A c \in Clients : on[c] # None =>
    LET k == conn[on[c]] IN
    /\ k # None
    /\ k.scheme = ep[c].scheme /\ k.addr = ep[c].addr
    /\ Settings(cfg[k.pool]) = Settings(cfg[svc[c]])
    /\ k.scheme = "http" => ver[c] = k.version
    /\ k.version = "1.1" => Users(on[c]) = {c}

\* The timeouts limit what they apply to: every request gets its response,
\* although an upstream need not answer within them, if the bodies that the
\* handlers wait for come to an end, and unless some service has an
\* endpoint whose rewriting is not implemented.
Implemented(f) ==
  \A p \in DOMAIN f.routes : \A i \in DOMAIN f.routes[p].upstreams :
    f.routes[p].upstreams[i].kind = "uri"
Busy(c) == pc[c] \notin {"closed", "ready"}
BodiesEnd(c) == []<>(pc[c] \notin {"decode", "sending", "encode"})
RequestsAnswered ==
  [](\A g \in 1..cur : Implemented(cfg[g])) =>
    \A c \in Clients : BodiesEnd(c) => (Busy(c) ~> ~Busy(c))

-----------------------------------------------------------------------------
(* The inductive invariant.                                                *)

SitesInv ==
  /\ \A c \in Clients : svc[c] \in 1..cur
  /\ \A g \in 1..cur : \A s \in Schemes :
       /\ pool[g][s] \in 1..cur
       /\ Settings(cfg[pool[g][s]]) = Settings(cfg[g])
  /\ \A k \in Conns : conn[k] # None => conn[k].pool \in 1..cur

\* Those before n have had their turn in this round, the last never has.
InTurn(r, n, turns) ==
  LET last == Len(r.upstreams) - 1 IN
  r.load_balancer = "round_robin" =>
    /\ n \in 0..last
    /\ \A i \in 0..last : turns[i] = IF i < n THEN turns[last] + 1 ELSE turns[last]

TurnsInv ==
  \A g \in Generations :
    IF g <= cur
    THEN \A p \in DOMAIN cfg[g].routes : InTurn(cfg[g].routes[p], next[g][p], count[g][p])
    ELSE \A p \in Paths : next[g][p] = 0 /\ \A i \in Index : count[g][p][i] = 0

Chosen(c) ==
  /\ req[c].path \in DOMAIN cfg[svc[c]].routes
  /\ ep[c] \in Endpoint
  /\ Offers(cfg[svc[c]].routes[req[c].path], ep[c].addr)

RequestInv(c) ==
  /\ pc[c] \notin {"closed", "ready"} => req[c] \in Requests
  /\ pc[c] \in {"decode", "connect", "connecting", "sending", "sent"} => Chosen(c)
  /\ pc[c] = "encode" => req[c].path \in DOMAIN cfg[svc[c]].routes
  /\ pc[c] \in {"encode", "answered"} => AsRouted(c)
  /\ pc[c] \in {"sending", "sent"} <=> on[c] # None

FitsOn(c, k) ==
  /\ conn[k] # None
  /\ conn[k].pool = pool[svc[c]][ep[c].scheme]
  /\ conn[k].scheme = ep[c].scheme /\ conn[k].addr = ep[c].addr
  /\ conn[k].scheme = "http" => ver[c] = conn[k].version
  /\ conn[k].version = "1.1" => Users(k) = {c}

IInv ==
  /\ TypeOK /\ SitesInv /\ TurnsInv
  /\ \A c \in Clients : RequestInv(c)
  /\ \A c \in Clients : on[c] # None => FitsOn(c, on[c])
=============================================================================
