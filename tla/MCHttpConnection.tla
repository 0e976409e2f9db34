-------------------------- MODULE MCHttpConnection --------------------------
(* Every pair of version and Connection header that is_conn_keepalive tells *)
(* apart, with and without a body.                                          *)
EXTENDS HttpConnection

MCRequests ==
  {[ver |-> "1.1", conn |-> "none", body |-> TRUE],
   [ver |-> "1.1", conn |-> "close", body |-> TRUE],
   [ver |-> "1.1", conn |-> "other", body |-> FALSE],
   [ver |-> "1.0", conn |-> "keep-alive", body |-> TRUE],
   [ver |-> "1.0", conn |-> "none", body |-> FALSE]}
============================================================================
