---------------------------- MODULE MCHttpProxy ----------------------------
(* Two clients, two paths and two addresses; configurations that differ in  *)
(* what they route, or in the settings by which pools are handed over.      *)
EXTENDS HttpProxy

CONSTANTS c1, c2, path1, path2, a1, a2

E(kind, scheme, addr, weight) ==
  [kind |-> kind, scheme |-> scheme, addr |-> addr, weight |-> weight]
R(lb, upstreams) == [load_balancer |-> lb, upstreams |-> upstreams]

F(routes, version, connect, read, content) ==
  [routes |-> routes, version |-> version, connect_timeout |-> connect, read_timeout |-> read,
   content_handler |-> content]

Both == R("round_robin", <<E("uri", "http", a1, 1), E("uri", "https", a2, 1)>>)
Weighted == R("weighted_random", <<E("uri", "http", a2, 0), E("uri", "https", a1, 1)>>)
Unix == R("random", <<E("unix", "http", a1, 1)>>)
First == R("first", <<E("uri", "http", a1, 1)>>)

MCConfigs ==
  {F([x \in {path1} |-> Both], "auto", TRUE, FALSE, TRUE),
   F([x \in {path1, path2} |-> IF x = path1 THEN Weighted ELSE Unix], "auto", FALSE, FALSE, TRUE),
   F([x \in {path2} |-> First], "http2", TRUE, TRUE, TRUE),
   F([x \in {path2} |-> First], "auto", TRUE, FALSE, FALSE)}

Q(path, version, sized, content, accept) ==
  [path |-> path, version |-> version, sized |-> sized,
   content_encoding |-> content, accept_encoding |-> accept]

MCRequests == {Q(path1, "1.1", FALSE, "identity", "gzip"), Q(path2, "2", TRUE, "gzip", "gzip")}
============================================================================
