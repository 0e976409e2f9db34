------------------------- MODULE MCConnectionPrefix -------------------------
(* The magics "PRO" and one of four bytes, the preface "PRI", headers of at  *)
(* most eight bytes.                                                         *)
EXTENDS ConnectionPrefix

S(want, magic, size, kind, front, inner, total) ==
  [want |-> want, magic |-> magic, size |-> size, kind |-> kind,
   front |-> front, inner |-> inner, total |-> total]

MCStreams ==
  {S(0, 0, 0, "bad", 0, 0, 0),        \* nothing
   S(0, 0, 0, "bad", 0, 0, 3),        \* GET
   S(3, 1, 4, "bad", 1, 0, 9),        \* POST, with more than the buffer holds
   S(3, 2, 4, "bad", 3, 0, 5),        \* HTTP/2
   S(3, 3, 5, "bad", 2, 0, 9),        \* PROPFIND
   S(3, 3, 5, "source", 2, 3, 9),     \* version 1, then HTTP/2
   S(3, 3, 5, "local", 2, 0, 9),      \* version 1 of an unknown protocol
   S(4, 2, 8, "bad", 0, 0, 5),        \* half of the other magic
   S(4, 4, 7, "source", 0, 1, 10),    \* version 2, then POST
   S(4, 4, 8, "local", 0, 3, 12),     \* version 2 of the largest size
   S(4, 4, 10, "source", 0, 0, 13)}   \* version 2, too large
=============================================================================
