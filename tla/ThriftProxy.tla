---------------------------- MODULE ThriftProxy ----------------------------
(***************************************************************************)
(* Thrift connections of a worker: the loop of TtheaderCoreService         *)
(* (monolake-services/src/thrift/ttheader.rs) for every client, and below  *)
(* it ProxyHandler (thrift/handlers/proxy.rs), which sends each request on *)
(* to an upstream, on a connection from the pool that all clients share.   *)
(* Messages on such a connection carry no mark of the client: whose        *)
(* response comes is decided by who holds the connection.                  *)
(*                                                                         *)
(* The codec, the pool and the upstream are external; one upstream is      *)
(* modelled, as the pool keeps the connections of each apart.              *)
(***************************************************************************)
EXTENDS Naturals

CONSTANTS
  Clients,
  Links,           \* connections to the upstream; a closed one is a new one
  None,
  KeepTimeout,     \* is keepalive_timeout set?
  MessageTimeout,  \* is message_timeout set?
  MaxRequests      \* bound on the requests of a client

ASSUME ThriftAssumption ==
  /\ None \notin Links
  /\ None \notin Clients \X (1..MaxRequests)
  /\ KeepTimeout \in BOOLEAN /\ MessageTimeout \in BOOLEAN
  /\ MaxRequests \in Nat

VARIABLES
  sent,  \* number of requests that have come from each client
  tail,  \* what has come behind them: none, a part of a message, or junk
  gone,  \* the clients that have hung up
  pc,    \* where the connection of each client is
  got,   \* number of requests decoded
  resp,  \* the request that the response in hand answers
  io,    \* the link that send_request holds
  pool,  \* idle links
  link   \* the links, as the upstream keeps them

clientVars == <<sent, tail, gone>>
vars == <<clientVars, pc, got, resp, io, pool, link>>

Request == Clients \X (1..MaxRequests)

\* asked is a request that the upstream has not answered; garbled and answer
\* are what it has sent and nobody has read, in this order.
Link == [asked: Request \cup {None}, garbled: BOOLEAN,
         answer: Request \cup {None}, dead: BOOLEAN]

Fresh == [asked |-> None, garbled |-> FALSE, answer |-> None, dead |-> FALSE]

InUse == {io[c] : c \in Clients} \ {None}

\* Where an iteration of the loop begins.
Start == IF KeepTimeout THEN "peek" ELSE "decode"

Goto(c, place) == pc' = [pc EXCEPT ![c] = place]

-----------------------------------------------------------------------------
(* The clients and the upstream.                                           *)

serverVars == <<pc, got, resp, io, pool>>

Ask(c) ==
  /\ c \notin gone /\ tail[c] # "junk" /\ sent[c] < MaxRequests
  /\ sent' = [sent EXCEPT ![c] = @ + 1]
  /\ tail' = [tail EXCEPT ![c] = "none"]
  /\ UNCHANGED <<gone, serverVars, link>>

AskHalf(c) ==
  /\ c \notin gone /\ tail[c] = "none"
  /\ \E t \in {"part", "junk"} : tail' = [tail EXCEPT ![c] = t]
  /\ UNCHANGED <<sent, gone, serverVars, link>>

Hangup(c) ==
  /\ c \notin gone
  /\ gone' = gone \cup {c}
  /\ UNCHANGED <<sent, tail, serverVars, link>>

Answer(i) ==
  /\ link[i].asked # None /\ link[i].answer = None /\ ~link[i].dead
  /\ link' = [link EXCEPT ![i].answer = link[i].asked, ![i].asked = None]
  /\ UNCHANGED <<clientVars, serverVars>>

\* Something that is no message; the answer may follow.
Garble(i) ==
  /\ link[i].asked # None /\ link[i].answer = None /\ ~link[i].dead
  /\ link' = [link EXCEPT ![i].garbled = TRUE]
  /\ UNCHANGED <<clientVars, serverVars>>

\* The upstream closes a link, idle or not.
Die(i) ==
  /\ i \in pool \cup InUse
  /\ link' = [link EXCEPT ![i].dead = TRUE]
  /\ UNCHANGED <<clientVars, serverVars>>

-----------------------------------------------------------------------------
(* TtheaderCoreService: reading a request.                                 *)

reading == <<clientVars, resp, io, pool, link>>

Whole(c) == sent[c] > got[c]

Peek(c) ==
  /\ pc[c] = "peek"
  /\ Whole(c) \/ tail[c] # "none"
  /\ Goto(c, "decode")
  /\ UNCHANGED <<got, reading>>

Decode(c) ==
  /\ pc[c] = "decode"
  /\ Whole(c)
  /\ got' = [got EXCEPT ![c] = @ + 1]
  /\ Goto(c, "connect")
  /\ UNCHANGED reading

\* Faulty variant: a message that is cut off is waited for.
ReadEndsWholly(c) ==
  /\ ~Whole(c)
  /\ \/ pc[c] \in {"peek", "decode"} /\ c \in gone /\ tail[c] = "none"
     \/ pc[c] = "decode" /\ tail[c] = "junk"
  /\ Goto(c, "closed")
  /\ UNCHANGED <<got, reading>>

\* The stream ends, an error occurs, or "decode thrift message failed".
ReadEnds(c) ==
  /\ ~Whole(c)
  /\ \/ pc[c] = "peek" /\ c \in gone /\ tail[c] = "none"
     \/ pc[c] = "decode" /\ (c \in gone \/ tail[c] = "junk")
  /\ Goto(c, "closed")
  /\ UNCHANGED <<got, reading>>

\* "keepalive timed out", "message timed out"
ReadTimesOut(c) ==
  /\ ~Whole(c)
  /\ \/ pc[c] = "peek" /\ tail[c] = "none"
     \/ pc[c] = "decode" /\ MessageTimeout
  /\ Goto(c, "closed")
  /\ UNCHANGED <<got, reading>>

-----------------------------------------------------------------------------
(* ProxyHandler: send_request.                                             *)

Hold(c, i) == io' = [io EXCEPT ![c] = i]

\* Faulty variant: a link is used without being taken from the pool.
ConnectLeavingPooled(c) ==
  /\ pc[c] = "connect"
  /\ \E i \in IF pool # {} THEN pool ELSE Links \ InUse : Hold(c, i)
  /\ Goto(c, "send")
  /\ UNCHANGED <<clientVars, got, resp, pool, link>>

\* A link of the pool, if there is one, or a new one.
Connect(c) ==
  /\ pc[c] = "connect"
  /\ \E i \in IF pool # {} THEN pool ELSE Links \ InUse :
       /\ Hold(c, i)
       /\ pool' = pool \ {i}
  /\ Goto(c, "send")
  /\ UNCHANGED <<clientVars, got, resp, link>>

\* "connect upstream error": the error of the handler ends the connection.
ConnectFails(c) ==
  /\ pc[c] = "connect"
  /\ pool = {}
  /\ Goto(c, "closed")
  /\ UNCHANGED <<clientVars, got, resp, io, pool, link>>

\* A link that has died takes the request all the same.
SendRequest(c) ==
  /\ pc[c] = "send"
  /\ link' = [link EXCEPT ![io[c]].asked = <<c, got[c]>>]
  /\ Goto(c, "receive")
  /\ UNCHANGED <<clientVars, got, resp, io, pool>>

\* set_reuse(false): the link is closed, and so is the client's connection.
GiveUp(c) ==
  /\ Hold(c, None)
  /\ link' = [link EXCEPT ![io[c]] = Fresh]
  /\ Goto(c, "closed")
  /\ UNCHANGED <<clientVars, got, resp, pool>>

SendFails(c) ==
  /\ pc[c] = "send"
  /\ link[io[c]].dead
  /\ GiveUp(c)

\* The response is the next message of the link, which goes back to the pool.
Receive(c) ==
  /\ pc[c] = "receive"
  /\ ~link[io[c]].garbled /\ link[io[c]].answer # None
  /\ resp' = [resp EXCEPT ![c] = link[io[c]].answer]
  /\ link' = [link EXCEPT ![io[c]].answer = None]
  /\ pool' = pool \cup {io[c]}
  /\ Hold(c, None)
  /\ Goto(c, "reply")
  /\ UNCHANGED <<clientVars, got>>

\* Faulty variant: set_reuse(false) is missing where the codec fails.
ReceiveFailsReusing(c) ==
  /\ pc[c] = "receive"
  /\ \/ link[io[c]].garbled
     \/ link[io[c]].dead /\ link[io[c]].answer = None
  /\ pool' = pool \cup {io[c]}
  /\ link' = [link EXCEPT ![io[c]].garbled = FALSE]
  /\ Hold(c, None)
  /\ Goto(c, "closed")
  /\ UNCHANGED <<clientVars, got, resp>>

\* Faulty variant: the end of the stream is no error.
ReceiveFailsIgnoringEof(c) ==
  /\ pc[c] = "receive"
  /\ link[io[c]].garbled
  /\ GiveUp(c)

\* A message that does not parse, or UnexpectedEof.
ReceiveFails(c) ==
  /\ pc[c] = "receive"
  /\ \/ link[io[c]].garbled
     \/ link[io[c]].dead /\ link[io[c]].answer = None
  /\ GiveUp(c)

-----------------------------------------------------------------------------
(* TtheaderCoreService: the response.                                      *)

Reply(c) ==
  /\ pc[c] = "reply"
  /\ Goto(c, Start)
  /\ resp' = [resp EXCEPT ![c] = None]
  /\ UNCHANGED <<clientVars, got, io, pool, link>>

\* "error when reply client"
ReplyFails(c) ==
  /\ pc[c] = "reply"
  /\ c \in gone
  /\ Goto(c, "closed")
  /\ resp' = [resp EXCEPT ![c] = None]
  /\ UNCHANGED <<clientVars, got, io, pool, link>>

-----------------------------------------------------------------------------
Init ==
  /\ sent = [c \in Clients |-> 0]
  /\ tail = [c \in Clients |-> "none"]
  /\ gone = {}
  /\ pc = [c \in Clients |-> Start]
  /\ got = [c \in Clients |-> 0]
  /\ resp = [c \in Clients |-> None]
  /\ io = [c \in Clients |-> None]
  /\ pool = {}
  /\ link = [i \in Links |-> Fresh]

Client(c) == Ask(c) \/ AskHalf(c) \/ Hangup(c)

Upstream(i) == Answer(i) \/ Garble(i) \/ Die(i)

Read(c) == Peek(c) \/ Decode(c) \/ ReadEnds(c)

Proxy(c) ==
  \/ Connect(c) \/ ConnectFails(c) \/ SendRequest(c) \/ SendFails(c)
  \/ Receive(c) \/ ReceiveFails(c)

Respond(c) == Reply(c) \/ ReplyFails(c)

Serve(c) == Read(c) \/ Proxy(c) \/ Respond(c)

Over == (\A c \in Clients : pc[c] = "closed") /\ UNCHANGED vars

Next ==
  \/ \E c \in Clients : Client(c) \/ Serve(c) \/ ReadTimesOut(c)
  \/ \E i \in Links : Upstream(i)
  \/ Over

\* The task of a connection is polled when it can go on.  The upstream answers
\* or closes: nothing limits the time that the proxy waits for it.
Fairness ==
  /\ \A c \in Clients : WF_vars(Serve(c))
  /\ \A i \in Links : WF_vars(link[i].asked # None /\ (Answer(i) \/ Die(i)))

Spec == Init /\ [][Next]_vars /\ Fairness

-----------------------------------------------------------------------------
(* Correctness.                                                            *)

\* The types of the variables; a link is held while a request is under way.
TypeOK ==
  /\ sent \in [Clients -> 0..MaxRequests]
  /\ tail \in [Clients -> {"none", "part", "junk"}]
  /\ gone \subseteq Clients
  /\ pc \in [Clients -> {"peek", "decode", "connect", "send", "receive", "reply", "closed"}]
  /\ got \in [Clients -> 0..MaxRequests]
  /\ resp \in [Clients -> Request \cup {None}]
  /\ io \in [Clients -> Links \cup {None}]
  /\ pool \subseteq Links
  /\ link \in [Links -> Link]
  /\ \A c \in Clients : io[c] # None <=> pc[c] \in {"send", "receive"}

\* A client gets the response to its own request, and to the one it is waiting
\* for, though links go from one client to another and fail on the way.
ResponsesMatch ==
  \A c \in Clients : pc[c] = "reply" => resp[c] = <<c, got[c]>>

\* Nothing is owed on a link.
Clean(i) == link[i].asked = None /\ ~link[i].garbled /\ link[i].answer = None

\* A link is held by one client at a time, and nothing that belongs to an
\* earlier request can come from one that is in the pool.
PooledLinksIdle ==
  /\ \A i \in pool : Clean(i) /\ i \notin InUse
  /\ \A c, d \in Clients : io[c] = io[d] /\ io[c] # None => c = d

\* A request that has been decoded is answered, or its connection is closed.
RequestsAnswered ==
  \A c \in Clients : pc[c] = "connect" ~> pc[c] \in {Start, "closed"}

\* The connection of a client that has hung up ends.
HangupEnds == \A c \in Clients : c \in gone ~> pc[c] = "closed"

\* Nothing is owed on a link that nobody holds; what is owed on another one
\* belongs to the request of the client that holds it.
LinkInv ==
  /\ \A i \in Links \ InUse : Clean(i)
  /\ \A c \in Clients :
       /\ got[c] <= sent[c]
       /\ pc[c] \in {"connect", "send", "receive", "reply"} => got[c] > 0
       /\ pc[c] = "send" => Clean(io[c])
       /\ pc[c] = "receive" =>
            \/ link[io[c]].asked = <<c, got[c]>> /\ link[io[c]].answer = None
            \/ link[io[c]].asked = None /\ link[io[c]].answer = <<c, got[c]>>

IInv == TypeOK /\ ResponsesMatch /\ PooledLinksIdle /\ LinkInv
=============================================================================
