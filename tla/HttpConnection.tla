--------------------------- MODULE HttpConnection ---------------------------
(***************************************************************************)
(* One HTTP/1 connection of a client: the loop h1_svc of HttpCoreService   *)
(* (monolake-services/src/http/core.rs) with the handlers of l7_factory    *)
(* around the request.  A request is decoded, and then two futures run as  *)
(* a pair (AccompanyPair): the main one, first the handler and then the    *)
(* writing of the response, and the accompanying one, fill_payload, which  *)
(* takes the body of the request off the connection.  What is left of the  *)
(* body is drained before the next request is decoded.                     *)
(*                                                                         *)
(* The codecs, the sockets and the servers upstream are external.  The     *)
(* client pipelines as it likes, stalls where it likes, may hang up or     *)
(* send what does not parse.  Timers are nondeterministic.                 *)
(***************************************************************************)
EXTENDS Naturals, Sequences

CONSTANTS
  Requests,       \* the requests the client may make
  HeaderTimeout,  \* is read_header_timeout set?
  KeepTimeout,    \* is keepalive_timeout set?
  BodyTimeout,    \* is read_body_timeout set?
  MaxRequests,    \* bound on the requests of the connection
  MaxWire         \* bound on what is sent and not yet read

\* The decoder yields requests of HTTP/1.0 and HTTP/1.1 only.
Request == [ver: {"1.0", "1.1"},
            conn: {"none", "close", "keep-alive", "other"},
            body: BOOLEAN]

ASSUME HttpAssumption ==
  /\ Requests \subseteq Request
  /\ {HeaderTimeout, KeepTimeout, BodyTimeout} \subseteq BOOLEAN
  /\ MaxRequests \in Nat
  /\ MaxWire \in Nat

VARIABLES
  client,  \* the client is between requests, in a body, or done sending
  sent,    \* number of requests sent
  wire,    \* what is sent and not yet read
  pc,      \* where h1_svc is
  req,     \* the request being served
  resp,    \* the response to it, and whether the loop shall go on
  fut,     \* fill_payload: pending, or what it has returned
  slot     \* accompany_slot

clientVars == <<client, sent>>
vars == <<clientVars, wire, pc, req, resp, fut, slot>>

Item == [kind: {"head"}, req: Requests] \cup [kind: {"chunk", "end", "junk"}]
Chunk == [kind |-> "chunk"]
End == [kind |-> "end"]
Junk == [kind |-> "junk"]
AtFront(kinds) == wire # <<>> /\ Head(wire).kind \in kinds

-----------------------------------------------------------------------------
(* The handlers.  A result below ConnectionReuseHandler is the version of  *)
(* the response, its Connection header and the flag that says whether the  *)
(* connection can go on.                                                   *)

\* is_conn_keepalive
IsKeepalive(r) ==
  \/ r.ver = "1.0" /\ r.conn = "keep-alive"
  \/ r.ver = "1.1" /\ r.conn # "close"

\* generate_response, and other responses made here
Own(conn, cont) == [ver |-> "1.1", conn |-> conn, cont |-> cont]

\* UpstreamHandler: a response relayed, in the version that the upstream gave
\* it, or 400 and 502 of its own, some of them with "close"; the flag is always
\* true.
UpstreamResults ==
  [ver: {"1.0", "1.1", "2"}, conn: {"none", "close", "keep-alive"}, cont: {TRUE}]
    \cup {Own(conn, TRUE) : conn \in {"none", "close"}}

\* ContentHandler replaces the flag of what is below it.
ContentResults ==
  {[r EXCEPT !.cont = TRUE] : r \in UpstreamResults}
    \cup {Own("none", TRUE)}

\* HttpErrorResponder: a route that is not found is a response like others.
RouteResults == ContentResults \cup {Own("none", TRUE)}

\* OpenIdHandler redirects without going on, if it has a configuration: that
\* is for other programs of the library, monolake gives it none.
HandlerResults == RouteResults \cup {Own("none", FALSE)}

\* Faulty variant: the header of the response is not removed first.
ReuseRelayingHeader(r, in) ==
  LET cont == in.cont /\ IsKeepalive(r)
  IN [ver |-> IF r.ver = "1.0" THEN "1.0" ELSE in.ver,
      conn |-> CASE r.ver = "1.0" /\ cont  -> "keep-alive"
                 [] r.ver = "1.1" /\ ~cont -> "close"
                 [] OTHER                  -> in.conn,
      cont |-> cont]

\* ConnectionReuseHandler: the response gets a Connection header that says what
\* will be done with a connection of the request's version.  HTTP/1.0 gets that
\* version back; to HTTP/1.1 the version from below is relayed.
Reuse(r, in) ==
  LET cont == in.cont /\ IsKeepalive(r)
  IN [ver |-> IF r.ver = "1.0" THEN "1.0" ELSE in.ver,
      conn |-> CASE r.ver = "1.0" /\ cont  -> "keep-alive"
                 [] r.ver = "1.1" /\ ~cont -> "close"
                 [] OTHER                  -> "none",
      cont |-> cont]

\* generate_response(INTERNAL_SERVER_ERROR, true)
InternalError == Own("close", FALSE)

-----------------------------------------------------------------------------
(* The client.                                                             *)

Put(item) ==
  /\ Len(wire) < MaxWire
  /\ wire' = Append(wire, item)
  /\ UNCHANGED <<pc, req, resp, fut, slot>>

SendHead(r) ==
  /\ client = "between"
  /\ sent < MaxRequests
  /\ Put([kind |-> "head", req |-> r])
  /\ client' = IF r.body THEN "body" ELSE "between"
  /\ sent' = sent + 1

SendChunk ==
  /\ client = "body"
  /\ Put(Chunk)
  /\ UNCHANGED clientVars

SendEnd ==
  /\ client = "body"
  /\ Put(End)
  /\ client' = "between"
  /\ UNCHANGED sent

\* Something that is no head, or no chunk; the client waits for the end.
SendJunk ==
  /\ client \in {"between", "body"}
  /\ Put(Junk)
  /\ client' = "spent"
  /\ UNCHANGED sent

Hangup ==
  /\ client # "gone"
  /\ client' = "gone"
  /\ UNCHANGED <<sent, wire, pc, req, resp, fut, slot>>

-----------------------------------------------------------------------------
(* The server: decoding a request.                                         *)

Break == pc' = "closed"

DecodeHead ==
  /\ pc = "decode"
  /\ AtFront({"head"})
  /\ pc' = "handle"
  /\ req' = Head(wire).req
  /\ wire' = Tail(wire)
  /\ fut' = "pending"
  /\ slot' = "none"
  /\ UNCHANGED <<clientVars, resp>>

\* Faulty variant: the end of the stream does not leave the loop.
DecodeFailsIgnoringEof ==
  /\ pc = "decode"
  /\ AtFront({"chunk", "end", "junk"})
  /\ Break
  /\ UNCHANGED <<clientVars, wire, req, resp, fut, slot>>

\* "decode request header failed", or the end of the stream
DecodeFails ==
  /\ pc = "decode"
  /\ \/ AtFront({"chunk", "end", "junk"})
     \/ wire = <<>> /\ client = "gone"
  /\ Break
  /\ UNCHANGED <<clientVars, wire, req, resp, fut, slot>>

\* "decode http header timed out": a head that is late or, for keepalive, a
\* request whose first byte is.
DecodeTimesOut ==
  /\ pc = "decode"
  /\ wire = <<>>
  /\ HeaderTimeout \/ KeepTimeout
  /\ Break
  /\ UNCHANGED <<clientVars, wire, req, resp, fut, slot>>

-----------------------------------------------------------------------------
(* The server: taking the body off the connection.                         *)

\* fill_payload returns res.
Fill(res) ==
  /\ fut = "pending"
  /\ \/ res = "ok" /\ ~req.body /\ UNCHANGED wire
     \/ res = "ok" /\ req.body /\ AtFront({"end"}) /\ wire' = Tail(wire)
     \/ res = "err" /\ req.body /\ AtFront({"junk"}) /\ wire' = Tail(wire)
     \/ res = "err" /\ req.body /\ wire = <<>> /\ client = "gone" /\ UNCHANGED wire
  /\ fut' = res

\* Faulty variant: the body is only read once the handler has returned.
PollsAccompanyLate == pc \in {"respond", "drain"} /\ slot = "none"

\* Whoever is polled polls fill_payload: AccompanyPair, unless the slot has
\* its result, or Accompany, once the response is written.
PollsAccompany == pc \in {"handle", "respond", "drain"} /\ slot = "none"

FillChunk ==
  /\ PollsAccompany
  /\ fut = "pending"
  /\ req.body
  /\ AtFront({"chunk"})
  /\ wire' = Tail(wire)
  /\ UNCHANGED <<clientVars, pc, req, resp, fut, slot>>

\* The pair keeps the result for later.
AccompanyReady ==
  /\ PollsAccompany
  /\ pc # "drain"
  /\ \E res \in {"ok", "err"} : Fill(res) /\ slot' = res
  /\ UNCHANGED <<clientVars, pc, req, resp>>

\* into_accompany().await: what has been kept, or the rest of the body.
AfterDrain(res) == IF res = "ok" THEN pc' = "decode" ELSE Break

DrainReady ==
  /\ PollsAccompany
  /\ pc = "drain"
  /\ \E res \in {"ok", "err"} : Fill(res) /\ AfterDrain(res)
  /\ UNCHANGED <<clientVars, req, resp, slot>>

DrainTaken ==
  /\ pc = "drain"
  /\ slot # "none"
  /\ AfterDrain(slot)
  /\ slot' = "none"
  /\ UNCHANGED <<clientVars, wire, req, resp, fut>>

-----------------------------------------------------------------------------
(* The server: answering.                                                  *)

\* Faulty variant: replace starts with an empty slot.
HandleReturnsForgetting ==
  /\ pc = "handle"
  /\ \E in \in HandlerResults : resp' = Reuse(req, in)
  /\ pc' = "respond"
  /\ slot' = "none"
  /\ UNCHANGED <<clientVars, wire, req, fut>>

\* replace(encoder.send_and_flush(resp)) keeps the slot.  The handler may
\* return at any time, whether it has seen the body or not.
HandleReturns ==
  /\ pc = "handle"
  /\ \E in \in HandlerResults : resp' = Reuse(req, in)
  /\ pc' = "respond"
  /\ UNCHANGED <<clientVars, wire, req, fut, slot>>

\* "error when processing request": the body is not taken any further.
HandleFails ==
  /\ pc = "handle"
  /\ resp' = InternalError
  /\ pc' = "refuse"
  /\ UNCHANGED <<clientVars, wire, req, fut, slot>>

\* Faulty variant: the loop goes on without draining the body.
ResponseWrittenUndrained ==
  /\ pc \in {"respond", "refuse"}
  /\ pc' = IF resp.cont THEN "decode" ELSE "closed"
  /\ UNCHANGED <<clientVars, wire, req, resp, fut, slot>>

ResponseWritten ==
  /\ pc \in {"respond", "refuse"}
  /\ pc' = IF resp.cont THEN "drain" ELSE "closed"
  /\ UNCHANGED <<clientVars, wire, req, resp, fut, slot>>

\* "error when encode and write response", "error when reply client"
ResponseFails ==
  /\ pc \in {"respond", "refuse"}
  /\ Break
  /\ UNCHANGED <<clientVars, wire, req, resp, fut, slot>>

\* "write timed out"
BodyTimesOut ==
  /\ pc = "respond"
  /\ BodyTimeout
  /\ pc' = "timedOut"
  /\ UNCHANGED <<clientVars, wire, req, resp, fut, slot>>

-----------------------------------------------------------------------------
Init ==
  /\ client = "between"
  /\ sent = 0
  /\ wire = <<>>
  /\ pc = "decode"
  /\ req \in Requests
  /\ resp = InternalError
  /\ fut = "ok"
  /\ slot = "none"

Client ==
  \/ \E r \in Requests : SendHead(r)
  \/ SendChunk \/ SendEnd \/ SendJunk \/ Hangup

Read == DecodeHead \/ DecodeFails \/ FillChunk \/ AccompanyReady
        \/ DrainReady \/ DrainTaken

Handle == HandleReturns \/ HandleFails

Write == ResponseWritten \/ ResponseFails

\* The stream is dropped.
Closed == pc \in {"closed", "timedOut"}

Over == Closed /\ UNCHANGED vars

Next == Client \/ Read \/ DecodeTimesOut \/ Handle \/ Write \/ BodyTimesOut \/ Over

\* What has arrived is read; the handler returns once it has the whole body;
\* the client takes the response it is sent.
Fairness ==
  /\ WF_vars(Read)
  /\ WF_vars(fut # "pending" /\ Handle)
  /\ WF_vars(Write)

Spec == Init /\ [][Next]_vars /\ Fairness

-----------------------------------------------------------------------------
(* Correctness.                                                            *)

Response == [ver: {"1.0", "1.1", "2"},
             conn: {"none", "close", "keep-alive"},
             cont: BOOLEAN]

\* The types of the variables.
TypeOK ==
  /\ client \in {"between", "body", "spent", "gone"}
  /\ sent \in 0..MaxRequests
  /\ wire \in Seq(Item)
  /\ pc \in {"decode", "handle", "respond", "refuse", "drain", "closed", "timedOut"}
  /\ req \in Requests
  /\ resp \in Response
  /\ fut \in {"pending", "ok", "err"}
  /\ slot \in {"none", "ok", "err"}

\* Whenever a request is decoded the connection stands where one begins: what
\* belongs to the body of a request is never taken for the next request.
RequestsFramed ==
  pc = "decode" => IF wire = <<>> THEN client # "body"
                                  ELSE AtFront({"head", "junk"})

\* A future that has returned is never polled again (it would panic), and its
\* result is not lost while the connection may still need it.
AccompanyPolledOnce == PollsAccompany => fut = "pending"

\* What a client of HTTP/1 understands by a response.
Persistent(r) ==
  \/ r.ver = "1.1" /\ r.conn # "close"
  \/ r.ver = "1.0" /\ r.conn = "keep-alive"

\* The server never closes on a client that its response tells to go on, and
\* goes on only with one that asked for it, whatever headers came from upstream
\* or from a handler.  It announces that it goes on, unless the response to an
\* HTTP/1.1 request is relayed in another version, in which a response without
\* a Connection header does not say so.
PersistenceAgreed ==
  [][ResponseWritten =>
       /\ Persistent(resp) => pc' = "drain"
       /\ pc' = "drain" => IsKeepalive(req)
       /\ pc' = "drain" /\ ~Persistent(resp) => req.ver = "1.1" /\ resp.ver # "1.1"]_vars

\* Nothing more has to come for the body of the request being served.
BodyComplete ==
  \/ fut # "pending" \/ ~req.body
  \/ client = "gone" \/ \E i \in DOMAIN wire : wire[i].kind \in {"end", "junk"}

\* A request that has been sent completely is answered, or the connection
\* ends: the handler never waits for a body nobody is reading, whether the
\* client then stalls in the body of a pipelined request or not.
RequestsAnswered ==
  pc = "handle" /\ BodyComplete ~> pc = "drain" \/ Closed

\* The connection of a client that has hung up ends.
HangupEnds == client = "gone" ~> Closed

\* "The timeout for receiving the full request body": it strikes only while
\* the body is being received.
BodyTimeoutSparesResponse ==
  [][pc = "respond" /\ pc' = "timedOut" => fut = "pending"]_vars

\* How far the body being taken off the connection has got.
Open == pc \in {"handle", "respond", "refuse", "drain"} /\ fut = "pending" /\ req.body

\* An item after which the body of a request goes on.
InBody(i) == i.kind = "chunk" \/ (i.kind = "head" /\ i.req.body)

\* An item may come where a body is open, or where none is.
Follows(i, open) ==
  /\ wire[i].kind = "head" => ~open
  /\ wire[i].kind \in {"chunk", "end"} => open
  /\ wire[i].kind = "junk" => i = Len(wire) /\ client \in {"spent", "gone"}

\* The wire parses: its items follow each other, and the last one is where
\* the client is.
WireInv == ~Closed =>
  /\ \A i \in DOMAIN wire : Follows(i, IF i = 1 THEN Open ELSE InBody(wire[i - 1]))
  /\ client \in {"between", "body"} =>
       (client = "body" <=> IF wire = <<>> THEN Open ELSE InBody(wire[Len(wire)]))

\* The result of fill_payload is in the slot, unless it has been taken; a
\* body that failed is not followed by another request.
SlotInv ==
  /\ pc \in {"handle", "respond", "refuse", "drain"} =>
       slot = (IF fut = "pending" THEN "none" ELSE fut)
  /\ pc = "decode" => fut = "ok"

\* The response has been through ConnectionReuseHandler, or it is the 500.
RespInv ==
  /\ pc = "respond" => \E in \in HandlerResults : resp = Reuse(req, in)
  /\ pc = "refuse" => resp = InternalError

\* The inductive invariant.
IInv == TypeOK /\ WireInv /\ SlotInv /\ RespInv
==============================================================================
