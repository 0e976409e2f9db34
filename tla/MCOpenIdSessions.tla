-------------------------- MODULE MCOpenIdSessions --------------------------
(* Two codes for one nonce, one for the other.                               *)
EXTENDS OpenIdSessions

MCCodes == {[nonce |-> 1, no |-> 1], [nonce |-> 1, no |-> 2], [nonce |-> 2, no |-> 1]}
=============================================================================
