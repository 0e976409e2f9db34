----------------------------- MODULE SiteFactory -----------------------------
(***************************************************************************)
(* What can come of making a site: its service, by the stack of factories  *)
(* that l7_factory puts together (monolake/src/factory.rs), and its        *)
(* listener.  An error ends the command that wanted the site, a panic the  *)
(* thread that runs it.  ConfigReload is given these outcomes.             *)
(*                                                                         *)
(* Endpoints and paths are abstract.  matchit, rand and native_tls are     *)
(* external: of the first we keep which paths it refuses.                  *)
(***************************************************************************)
EXTENDS Naturals, Sequences, Functions

CONSTANTS
  Paths,          \* the paths of routes
  Malformed,      \* those that matchit does not take
  Clashes,        \* the pairs that it does not take together
  WeightMax,      \* weights and their sums are below this, u16::MAX + 1
  OverflowChecks  \* does the build check arithmetic?

ASSUME FactoryAssumption ==
  /\ Malformed \subseteq Paths
  /\ Clashes \subseteq Paths \X Paths
  /\ \A p \in Paths : <<p, p>> \in Clashes
  /\ WeightMax \in Nat \ {0}
  /\ OverflowChecks \in BOOLEAN

LoadBalanceStrategy == {"random", "weighted_random", "round_robin", "first"}

\* A route, with the weights of its upstreams; a site of Thrift has just one.
RouteConfig == [path: Paths, load_balancer: LoadBalanceStrategy,
                upstreams: Seq(0..(WeightMax - 1))]

ServerConfig == [protocol: {"http", "thrift"}, tls: {"none", "rustls", "native"},
                 routes: Seq(RouteConfig)]

ListenerConfig == [kind: {"socket", "unix"}, contended: BOOLEAN]

\* WeightedIndex::new over u16: there has to be a weight, and one that is not
\* zero.  A sum that overflows panics or wraps, maybe to zero.
WeightedIndex(weights) ==
  LET sum == FoldFunction(+, 0, weights) IN
  IF sum >= WeightMax /\ OverflowChecks THEN "panic"
  ELSE IF sum % WeightMax = 0 THEN "err"
  ELSE "ok"

\* LoadBalancer::try_from_upstreams
TryFromUpstreams(r) ==
  IF r.load_balancer = "weighted_random" THEN WeightedIndex(r.upstreams)
  ELSE IF r.upstreams = <<>> THEN "err"
  ELSE "ok"

\* Route i goes into the router of those before it: first the balancer is
\* made, and unwrapped, then the path inserted.
Insert(routes, i) ==
  IF TryFromUpstreams(routes[i]) # "ok" THEN "panic"
  ELSE IF routes[i].path \in Malformed THEN "err"
  ELSE IF \E j \in 1..(i - 1) : <<routes[j].path, routes[i].path>> \in Clashes THEN "err"
  ELSE "ok"

\* Router::new_from_iter ends at the first route that does not succeed.
Failing(routes) == {i \in DOMAIN routes : Insert(routes, i) # "ok"}
First(S) == CHOOSE i \in S : \A j \in S : i <= j
NewFromIter(routes) ==
  IF Failing(routes) = {} THEN "ok" ELSE Insert(routes, First(Failing(routes)))

\* The other layers of the stack make what is inside them and never fail.
Stack(server) ==
  IF server.protocol = "http"
  THEN NewFromIter(server.routes)
  ELSE TryFromUpstreams(server.routes[1])

\* UnifiedTlsFactory: the acceptor of native_tls is built first, and may fail;
\* the certificates were read when the file was parsed.
MakeService(server) ==
  {Stack(server)} \cup (IF server.tls = "native" THEN {"err"} ELSE {})

\* ListenerBuilder: a TCP listener is bound by the worker that commits; a Unix
\* one by the manager, which unwraps the result, and cloned by the worker.
\* Where somebody else may hold the address or the last descriptor, it fails.
MakeListener(listener) ==
  {"ok"} \cup (IF ~listener.contended THEN {}
               ELSE IF listener.kind = "unix" THEN {"panic", "err"}
               ELSE {"err"})

\* What it takes for the making of a site to end in a service or an error: of an
\* HTTP site every route in front of the first that the router refuses has to
\* have a balancer, that one too; of a Thrift site the sum of the weights must
\* not be checked and too large.
Balanced(r) == TryFromUpstreams(r) = "ok"
SafeToMake(server) ==
  IF server.protocol = "http"
  THEN \A i \in DOMAIN server.routes :
         (\A j \in 1..(i - 1) : Insert(server.routes, j) = "ok") => Balanced(server.routes[i])
  ELSE TryFromUpstreams(server.routes[1]) # "panic"
==============================================================================
