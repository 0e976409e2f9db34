--------------------------- MODULE MCConfigReload ---------------------------
(* Two workers, two names, and a server configuration of every kind that a  *)
(* factory can make something different of.                                 *)
EXTENDS ConfigReload, SiteFactory

CONSTANTS a, b, p, q, s1, s2, bad, vacant, crash, flaky, heavy

R(path, lb, weights) == [path |-> path, load_balancer |-> lb, upstreams |-> weights]
S(protocol, tls, routes) == [protocol |-> protocol, tls |-> tls, routes |-> routes]

MCServer ==
  [s \in Services |->
     CASE s = s1     -> S("http", "none", <<R(p, "round_robin", <<1, 1>>), R(q, "first", <<1>>)>>)
       [] s = s2     -> S("thrift", "rustls", <<R(p, "weighted_random", <<0, 2>>)>>)
       \* a path that is there twice
       [] s = bad    -> S("http", "none", <<R(q, "random", <<1>>), R(q, "random", <<1>>)>>)
       \* no upstreams: an error for Thrift, a panic for HTTP
       [] s = vacant -> S("thrift", "none", <<R(p, "random", <<>>)>>)
       [] s = crash  -> S("http", "none", <<R(p, "first", <<1>>), R(q, "round_robin", <<>>)>>)
       [] s = flaky  -> S("http", "native", <<R(p, "weighted_random", <<3>>)>>)
       \* the sum of the weights wraps to zero
       [] s = heavy  -> S("http", "none", <<R(p, "weighted_random", <<1, 3>>)>>)]

MCClashes == {<<p, p>>, <<q, q>>}
MCBuildOutcomes == [s \in Services |-> MakeService(MCServer[s])]

\* the listener of a always binds, the one of b may fail in each way
MCListener == [k \in Names |-> [kind |-> "unix", contended |-> k = b]]
MCListenerOutcomes == [k \in Names |-> MakeListener(MCListener[k])]

L(k, s) == [key |-> k, cfg |-> s]

MCFiles == {<<>>,
            <<Header>>,
            <<Header, L(a, s1)>>,
            <<L(a, s2), L(b, s1)>>,
            <<L(b, s2), L(a, flaky)>>,
            <<L(b, s1), L(b, s2)>>,
            <<L(a, vacant), L(b, bad)>>,
            <<L(b, s1), L(a, crash)>>,
            <<L(b, heavy)>>}

\* they are configurations that a file can contain
ASSUME MCConfigAssumption ==
  /\ MCServer \in [Services -> ServerConfig]
  /\ MCListener \in [Names -> ListenerConfig]
============================================================================
