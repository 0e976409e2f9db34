--------------------------- MODULE HttpCoreProofs ---------------------------
(***************************************************************************)
(* Proofs about the connection loops of HttpCoreService (http/core.rs):    *)
(* HttpConnection, for every set of requests, every setting of the         *)
(* timeouts and connections of any length; and H2Connection, for any set   *)
(* of streams.                                                             *)
(***************************************************************************)
EXTENDS HttpConnection, H2Connection, TLAPS

-----------------------------------------------------------------------------
(* HTTP/1: facts about the handlers and the wire.                          *)

\* What the handlers return is a response with a flag.
LEMMA ResultType == HandlerResults \subseteq Response
<1>1. \A conn \in {"none", "close", "keep-alive"}, cont \in BOOLEAN : Own(conn, cont) \in Response
  BY DEF Own, Response
<1>2. UpstreamResults \subseteq Response
  BY <1>1 DEF UpstreamResults, Response
<1>3. \A r \in Response : [r EXCEPT !.cont = TRUE] \in Response
  BY DEF Response
<1>4. ContentResults \subseteq Response
  BY <1>1, <1>2, <1>3 DEF ContentResults
<1> QED
  BY <1>1, <1>4 DEF HandlerResults, RouteResults

\* Whatever the handlers return, ConnectionReuseHandler makes a response of it.
LEMMA ReuseType ==
  ASSUME NEW r \in Request, NEW in \in HandlerResults
  PROVE  Reuse(r, in) \in Response
<1>1. in \in Response
  BY ResultType
<1> QED
  BY <1>1 DEF Request, Reuse, IsKeepalive, Response

\* The response never announces more than its flag says, and less only where a
\* version is relayed; the flag is what the client wants.
LEMMA ReuseAgrees ==
  ASSUME NEW r \in Request, NEW in \in HandlerResults
  PROVE  LET s == Reuse(r, in)
         IN /\ Persistent(s) => s.cont
            /\ s.cont => IsKeepalive(r)
            /\ s.cont /\ ~Persistent(s) => r.ver = "1.1" /\ s.ver # "1.1"
<1>1. in \in Response
  BY ResultType
<1> QED
  BY <1>1 DEF Request, Reuse, IsKeepalive, Response, Persistent

\* The head at the front of a well-typed wire is a request.
LEMMA FrontHead ==
  ASSUME wire \in Seq(Item), AtFront({"head"})
  PROVE  Head(wire).req \in Requests
BY DEF Item, AtFront

-----------------------------------------------------------------------------
(* HTTP/1: types.                                                          *)

LEMMA TypeInit == Init => TypeOK
BY HttpAssumption DEF Init, TypeOK, InternalError, Own, Response

LEMMA TypeClient == TypeOK /\ Client => TypeOK'
<1> SUFFICES ASSUME TypeOK, Client PROVE TypeOK'
  OBVIOUS
<1> USE HttpAssumption DEF TypeOK, Put
<1>1. ASSUME NEW r \in Requests, SendHead(r) PROVE TypeOK'
  <2>1. [kind |-> "head", req |-> r] \in Item
    BY DEF Item
  <2> QED
    BY <1>1, <2>1 DEF SendHead
<1>2. CASE SendChunk
  BY <1>2 DEF SendChunk, clientVars, Item, Chunk
<1>3. CASE SendEnd
  BY <1>3 DEF SendEnd, Item, End
<1>4. CASE SendJunk
  BY <1>4 DEF SendJunk, Item, Junk
<1>5. CASE Hangup
  BY <1>5 DEF Hangup
<1> QED
  BY <1>1, <1>2, <1>3, <1>4, <1>5 DEF Client

LEMMA TypeServer ==
  TypeOK /\ (Read \/ DecodeTimesOut \/ Handle \/ Write \/ BodyTimesOut) => TypeOK'
<1> SUFFICES ASSUME TypeOK,
                    Read \/ DecodeTimesOut \/ Handle \/ Write \/ BodyTimesOut
             PROVE  TypeOK'
  OBVIOUS
<1> USE DEF TypeOK, clientVars, Break, AtFront
<1>1. CASE DecodeHead
  <2>1. Head(wire).req \in Requests
    BY <1>1, FrontHead DEF DecodeHead
  <2> QED
    BY <1>1, <2>1 DEF DecodeHead
<1>2. CASE DecodeFails
  BY <1>2 DEF DecodeFails
<1>3. CASE FillChunk
  BY <1>3 DEF FillChunk
<1>4. CASE AccompanyReady
  BY <1>4 DEF AccompanyReady, Fill
<1>5. CASE DrainReady
  BY <1>5 DEF DrainReady, Fill, AfterDrain
<1>6. CASE DrainTaken
  BY <1>6 DEF DrainTaken, AfterDrain
<1>7. CASE DecodeTimesOut
  BY <1>7 DEF DecodeTimesOut
<1>8. CASE HandleReturns
  <2>1. req \in Request
    BY HttpAssumption
  <2> QED
    BY <1>8, <2>1, ReuseType DEF HandleReturns
<1>9. CASE HandleFails
  BY <1>9 DEF HandleFails, InternalError, Own, Response
<1>10. CASE ResponseWritten
  BY <1>10 DEF ResponseWritten
<1>11. CASE ResponseFails
  BY <1>11 DEF ResponseFails
<1>12. CASE BodyTimesOut
  BY <1>12 DEF BodyTimesOut
<1> QED
  BY <1>1, <1>2, <1>3, <1>4, <1>5, <1>6, <1>7, <1>8, <1>9, <1>10, <1>11, <1>12
  DEF Read, Handle, Write

LEMMA TypeStep == TypeOK /\ [Next]_vars => TypeOK'
<1>1. TypeOK /\ UNCHANGED vars => TypeOK'
  BY DEF TypeOK, vars, clientVars
<1> QED
  BY <1>1, TypeClient, TypeServer DEF Next, Over

\* The variables keep their types.
THEOREM TypeCorrect == Spec => []TypeOK
BY TypeInit, TypeStep, PTL DEF Spec

-----------------------------------------------------------------------------
(* HTTP/1: the inductive invariant.                                        *)

LEMMA InvInit == Init => IInv
<1> SUFFICES ASSUME Init PROVE IInv
  OBVIOUS
<1>1. TypeOK
  BY TypeInit
<1>2. WireInv /\ SlotInv /\ RespInv
  BY DEF Init, WireInv, SlotInv, RespInv, Open, Closed
<1> QED
  BY <1>1, <1>2 DEF IInv

\* What is in the slot and what the response is.
LEMMA RestStep == IInv /\ [Next]_vars => SlotInv' /\ RespInv'
<1> SUFFICES ASSUME IInv, [Next]_vars PROVE SlotInv' /\ RespInv'
  OBVIOUS
<1> USE DEF IInv, TypeOK, SlotInv, RespInv, clientVars, Break
<1>1. CASE Client
  BY <1>1 DEF Client, SendHead, SendChunk, SendEnd, SendJunk, Hangup, Put
<1>2. CASE DecodeHead
  BY <1>2 DEF DecodeHead
<1>3. CASE DecodeFails \/ DecodeTimesOut \/ BodyTimesOut \/ ResponseFails
  BY <1>3 DEF DecodeFails, DecodeTimesOut, BodyTimesOut, ResponseFails
<1>4. CASE FillChunk
  BY <1>4 DEF FillChunk
<1>5. CASE AccompanyReady
  BY <1>5 DEF AccompanyReady, Fill, PollsAccompany
<1>6. CASE DrainReady
  BY <1>6 DEF DrainReady, Fill, PollsAccompany, AfterDrain
<1>7. CASE DrainTaken
  BY <1>7 DEF DrainTaken, AfterDrain
<1>8. CASE HandleReturns
  BY <1>8 DEF HandleReturns
<1>9. CASE HandleFails
  BY <1>9 DEF HandleFails
<1>10. CASE ResponseWritten
  BY <1>10 DEF ResponseWritten
<1>11. CASE Over \/ UNCHANGED vars
  BY <1>11 DEF Over, vars
<1> QED
  BY <1>1, <1>2, <1>3, <1>4, <1>5, <1>6, <1>7, <1>8, <1>9, <1>10, <1>11
  DEF Next, Read, Handle, Write

\* The client appends an item that may follow the ones on the wire.
LEMMA WireClient == IInv /\ Client => WireInv'
<1> SUFFICES ASSUME IInv, Client, ~Closed PROVE WireInv'
  <2>1. Client => (Closed' <=> Closed)
    BY DEF Client, SendHead, SendChunk, SendEnd, SendJunk, Hangup, Put, Closed
  <2> QED
    BY <2>1 DEF WireInv
<1> USE DEF IInv, TypeOK, WireInv, Follows, clientVars
<1>0. Open' <=> Open
  BY DEF Client, SendHead, SendChunk, SendEnd, SendJunk, Hangup, Put, Open
<1>1. ASSUME NEW r \in Requests, SendHead(r) PROVE WireInv'
  BY <1>0, <1>1 DEF SendHead, Put, InBody
<1>2. CASE SendChunk
  BY <1>0, <1>2 DEF SendChunk, Put, InBody, Chunk
<1>3. CASE SendEnd
  BY <1>0, <1>3 DEF SendEnd, Put, InBody, End
<1>4. CASE SendJunk
  BY <1>0, <1>4 DEF SendJunk, Put, InBody, Junk
<1>5. CASE Hangup
  BY <1>0, <1>5 DEF Hangup
<1> QED
  BY <1>1, <1>2, <1>3, <1>4, <1>5 DEF Client

\* An item leaves the wire: what was second is first.
LEMMA WireTail ==
  ASSUME IInv, ~Closed, wire # <<>>, wire' = Tail(wire), client' = client,
         Head(wire).kind # "junk", Open' <=> InBody(Head(wire))
  PROVE  WireInv'
<1> USE DEF IInv, TypeOK, WireInv, Follows
<1>1. /\ Len(wire') = Len(wire) - 1
      /\ \A i \in DOMAIN wire' : i + 1 \in DOMAIN wire /\ wire'[i] = wire[i + 1]
  OBVIOUS
<1>2. ASSUME NEW i \in DOMAIN wire'
      PROVE  Follows(i, IF i = 1 THEN Open ELSE InBody(wire[i - 1]))'
  <2>1. i \in Nat /\ i >= 1 /\ i + 1 \in DOMAIN wire /\ wire'[i] = wire[i + 1]
    BY <1>1
  <2>2. Follows(i + 1, InBody(wire[i]))
    <3>1. i + 1 # 1 /\ i + 1 - 1 = i
      BY <2>1
    <3>2. Follows(i + 1, IF i + 1 = 1 THEN Open ELSE InBody(wire[i + 1 - 1]))
      BY <2>1
    <3> QED
      BY <3>1, <3>2 DEF InBody
  <2>3. /\ wire'[i].kind = "head" => ~InBody(wire[i])
        /\ wire'[i].kind \in {"chunk", "end"} => InBody(wire[i])
        /\ wire'[i].kind = "junk" => i = Len(wire') /\ client' \in {"spent", "gone"}
    BY <1>1, <2>1, <2>2 DEF InBody
  <2>4. InBody(wire[i]) <=> IF i = 1 THEN Open' ELSE InBody(wire'[i - 1])
    <3>1. CASE i = 1
      <4>1. wire[i] = Head(wire)
        BY <3>1
      <4> QED
        BY <3>1, <4>1 DEF InBody
    <3>2. CASE i # 1
      <4>1. i - 1 \in DOMAIN wire' /\ wire'[i - 1] = wire[i]
        BY <1>1, <2>1, <3>2
      <4> QED
        BY <3>2, <4>1 DEF InBody
    <3> QED
      BY <3>1, <3>2
  <2> QED
    BY <2>3, <2>4
<1>3. client' \in {"between", "body"} =>
        (client' = "body" <=> IF wire' = <<>> THEN Open' ELSE InBody(wire'[Len(wire')]))
  BY <1>1
<1> QED
  BY <1>1, <1>2, <1>3 DEF InBody

LEMMA WireServer ==
  IInv /\ (Read \/ DecodeTimesOut \/ Handle \/ Write \/ BodyTimesOut) => WireInv'
<1> SUFFICES ASSUME IInv,
                    Read \/ DecodeTimesOut \/ Handle \/ Write \/ BodyTimesOut
             PROVE  WireInv'
  OBVIOUS
<1>k. \A i \in DOMAIN wire : wire[i].kind \in {"head", "chunk", "end", "junk"}
  BY DEF IInv, TypeOK, Item
\* What does not parse is alone.
<1>j. AtFront({"junk"}) /\ ~Closed => Len(wire) = 1 /\ client \in {"spent", "gone"}
  <2> SUFFICES ASSUME AtFront({"junk"}), ~Closed
               PROVE  Len(wire) = 1 /\ client \in {"spent", "gone"}
    OBVIOUS
  <2>1. 1 \in DOMAIN wire /\ wire[1].kind = "junk"
    BY DEF AtFront, IInv, TypeOK
  <2>2. Follows(1, IF 1 = 1 THEN Open ELSE InBody(wire[1 - 1]))
    BY <2>1 DEF IInv, WireInv
  <2> QED
    BY <2>1, <2>2 DEF Follows
<1> USE DEF clientVars, Break, AtFront
\* Nothing changes on the wire, nor whether a body is open.
<1>s. ASSUME UNCHANGED <<client, wire>>, Open' <=> Open, ~Closed PROVE WireInv'
  BY <1>s DEF IInv, WireInv, Follows, InBody
<1>1. CASE DecodeHead
  BY <1>1, WireTail DEF DecodeHead, InBody, Open, Closed
<1>2. CASE DecodeFails \/ DecodeTimesOut \/ BodyTimesOut \/ ResponseFails
  BY <1>2 DEF DecodeFails, DecodeTimesOut, BodyTimesOut, ResponseFails, WireInv, Closed
<1>3. CASE FillChunk
  BY <1>3, WireTail DEF FillChunk, PollsAccompany, InBody, Open, Closed
\* fill_payload returns, in the pair or in the drain.
<1>f. ASSUME NEW res \in {"ok", "err"}, Fill(res), client' = client, ~Closed, Open' = FALSE,
             pc \in {"handle", "respond", "drain"}
      PROVE  WireInv'
  <2>1. CASE ~req.body
    BY <1>f, <1>s, <2>1 DEF Fill, Open
  <2>2. CASE AtFront({"end"}) /\ wire' = Tail(wire)
    BY <1>f, <2>2, WireTail DEF InBody
  <2>3. CASE AtFront({"junk"}) /\ wire' = Tail(wire)
    <3>1. Len(wire) = 1 /\ client \in {"spent", "gone"}
      BY <1>f, <2>3, <1>j DEF IInv, TypeOK, WireInv, Follows
    <3>2. wire' = <<>>
      BY <2>3, <3>1 DEF IInv, TypeOK
    <3> QED
      BY <1>f, <3>1, <3>2 DEF WireInv
  <2>4. CASE wire = <<>> /\ client = "gone" /\ UNCHANGED wire
    BY <1>f, <2>4 DEF WireInv
  <2> QED
    BY <1>f, <2>1, <2>2, <2>3, <2>4 DEF Fill
<1>4. CASE AccompanyReady
  BY <1>4, <1>f DEF AccompanyReady, PollsAccompany, Fill, Open, Closed
<1>5. CASE DrainReady
  BY <1>5, <1>f DEF DrainReady, PollsAccompany, Fill, Open, Closed, AfterDrain
<1>6. CASE DrainTaken
  <2>1. fut # "pending" /\ fut' = fut
    BY <1>6 DEF DrainTaken, IInv, SlotInv
  <2> QED
    BY <1>6, <2>1, <1>s DEF DrainTaken, Open, Closed
<1>7. CASE Handle
  BY <1>7, <1>s DEF Handle, HandleReturns, HandleFails, Open, Closed
<1>8. CASE ResponseWritten
  <2>1. CASE resp.cont
    BY <1>8, <2>1, <1>s DEF ResponseWritten, Open, Closed
  <2>2. CASE ~resp.cont
    BY <1>8, <2>2 DEF ResponseWritten, WireInv, Closed
  <2> QED
    BY <2>1, <2>2
<1> QED
  BY <1>1, <1>2, <1>3, <1>4, <1>5, <1>6, <1>7, <1>8 DEF Read, Write

LEMMA InvStep == IInv /\ [Next]_vars => IInv'
<1> SUFFICES ASSUME IInv, [Next]_vars PROVE IInv'
  OBVIOUS
<1>1. TypeOK'
  BY TypeStep DEF IInv
<1>2. SlotInv' /\ RespInv'
  BY RestStep
<1>3. WireInv'
  <2>1. CASE Over \/ UNCHANGED vars
    BY <2>1 DEF Over, vars, clientVars, IInv, WireInv, Follows, Open, Closed, InBody
  <2> QED
    BY <2>1, WireClient, WireServer DEF Next
<1> QED
  BY <1>1, <1>2, <1>3 DEF IInv

\* The wire, the slot and the response always agree with where the loop is.
THEOREM InvariantCorrect == Spec => []IInv
BY InvInit, InvStep, PTL DEF Spec

-----------------------------------------------------------------------------
(* HTTP/1: what follows from it.                                           *)

\* A request is only ever decoded where one begins.
THEOREM Framing == Spec => []RequestsFramed
<1>1. IInv => RequestsFramed
  <2> SUFFICES ASSUME IInv, pc = "decode"
               PROVE  IF wire = <<>> THEN client # "body" ELSE AtFront({"head", "junk"})
    BY DEF RequestsFramed
  <2>1. ~Open /\ ~Closed
    BY DEF Open, Closed
  <2>2. CASE wire = <<>>
    BY <2>1, <2>2 DEF IInv, WireInv
  <2>3. CASE wire # <<>>
    <3>1. /\ 1 \in DOMAIN wire /\ Head(wire) = wire[1]
          /\ wire[1].kind \in {"head", "chunk", "end", "junk"}
      BY <2>3 DEF IInv, TypeOK, Item
    <3>2. Follows(1, IF 1 = 1 THEN Open ELSE InBody(wire[1 - 1]))
      BY <2>1, <3>1 DEF IInv, WireInv
    <3> QED
      BY <2>1, <2>3, <3>1, <3>2 DEF Follows, AtFront
  <2> QED
    BY <2>2, <2>3
<1> QED
  BY <1>1, InvariantCorrect, PTL

\* fill_payload is never polled after it has returned.
THEOREM PolledOnce == Spec => []AccompanyPolledOnce
<1>1. IInv => AccompanyPolledOnce
  BY DEF IInv, TypeOK, SlotInv, AccompanyPolledOnce, PollsAccompany
<1> QED
  BY <1>1, InvariantCorrect, PTL

\* The server goes on wherever a response says so, and with nobody who does not
\* want it; it goes on unannounced only after a response in another version.
THEOREM AnnouncementsHold == Spec => PersistenceAgreed
<1>1. IInv /\ [Next]_vars =>
        [ResponseWritten =>
           /\ Persistent(resp) => pc' = "drain"
           /\ pc' = "drain" => IsKeepalive(req)
           /\ pc' = "drain" /\ ~Persistent(resp) =>
                req.ver = "1.1" /\ resp.ver # "1.1"]_vars
  <2> SUFFICES ASSUME IInv, ResponseWritten
               PROVE  /\ Persistent(resp) => pc' = "drain"
                      /\ pc' = "drain" => IsKeepalive(req)
                      /\ pc' = "drain" /\ ~Persistent(resp) =>
                           req.ver = "1.1" /\ resp.ver # "1.1"
    OBVIOUS
  <2>1. req \in Request /\ (resp.cont <=> pc' = "drain")
    BY HttpAssumption DEF ResponseWritten, IInv, TypeOK
  <2>2. CASE pc = "respond"
    <3>1. PICK in \in HandlerResults : resp = Reuse(req, in)
      BY <2>2 DEF IInv, RespInv
    <3> QED
      BY <2>1, <3>1, ReuseAgrees
  <2>3. CASE pc = "refuse"
    BY <2>1, <2>3 DEF IInv, RespInv, InternalError, Own, Persistent
  <2> QED
    BY <2>2, <2>3 DEF ResponseWritten
<1> QED
  BY <1>1, InvariantCorrect, PTL DEF Spec, PersistenceAgreed

-----------------------------------------------------------------------------
(* HTTP/2: the channel.                                                    *)

\* What is taken off the channel is its head; the rest moves up by one.
LEMMA Taking ==
  ASSUME NEW S, NEW q \in Seq(S), q # <<>>
  PROVE  /\ Head(q) \in S /\ Head(q) = q[1] /\ 1 \in DOMAIN q
         /\ Tail(q) \in Seq(S)
         /\ \A i \in DOMAIN Tail(q) : i + 1 \in DOMAIN q /\ Tail(q)[i] = q[i + 1]
         /\ \A i \in DOMAIN q : i # 1 => i - 1 \in DOMAIN Tail(q) /\ Tail(q)[i - 1] = q[i]
OBVIOUS

\* What is added to the channel comes last.
LEMMA Adding ==
  ASSUME NEW S, NEW q \in Seq(S), NEW e \in S
  PROVE  /\ Append(q, e) \in Seq(S)
         /\ Len(q) + 1 \in DOMAIN Append(q, e) /\ Append(q, e)[Len(q) + 1] = e
         /\ \A i \in DOMAIN q : i \in DOMAIN Append(q, e) /\ Append(q, e)[i] = q[i]
         /\ \A i \in DOMAIN Append(q, e) :
              \/ i \in DOMAIN q /\ Append(q, e)[i] = q[i]
              \/ i = Len(q) + 1 /\ Append(q, e)[i] = e
OBVIOUS

-----------------------------------------------------------------------------
(* HTTP/2: the accept task.                                                *)

\* The initial states satisfy the invariant.
LEMMA H2InvInit == H2Init => H2Inv
<1> SUFFICES ASSUME H2Init PROVE H2Inv
  OBVIOUS
<1>1. queue \in Seq(Streams \cup {Error}) /\ DOMAIN queue = {}
  BY DEF H2Init
<1> QED
  BY <1>1 DEF H2Init, H2Inv, H2TypeOK, QueueInv, NobodyStarved, Places, Branches, At

\* A request comes last in the channel, in front of no error: the accept task is
\* running, so the channel is no branch that is off.
LEMMA InvAcceptStream ==
  ASSUME H2Inv, NEW s \in Streams, AcceptStream(s)
  PROVE  H2Inv'
<1>1. /\ loop = "select" /\ loop' = loop /\ accept' = accept /\ accept = "running"
      /\ queue' = Append(queue, s)
      /\ st' = [st EXCEPT ![s] = "queued"]
      /\ off' = off /\ peer' = peer /\ st[s] = "idle"
  BY DEF AcceptStream, Send, H2Inv, H2TypeOK, NobodyStarved, Branches
<1>2. s \in Streams \cup {Error} /\ s # Error
  BY H2Assumption
<1> DEFINE q == queue
           n == Len(queue) + 1
<1>3. q \in Seq(Streams \cup {Error})
  BY DEF H2Inv, H2TypeOK
<1>4. /\ queue' \in Seq(Streams \cup {Error})
      /\ n \in DOMAIN queue' /\ queue'[n] = s
      /\ \A i \in DOMAIN q : i \in DOMAIN queue' /\ queue'[i] = q[i]
      /\ \A i \in DOMAIN queue' : \/ i \in DOMAIN q /\ queue'[i] = q[i]
                                  \/ i = n /\ queue'[i] = s
  BY <1>1, <1>2, <1>3, Adding
<1>5. \A i \in DOMAIN q : q[i] # s /\ q[i] # Error /\ i < n
  BY <1>1, <1>2, <1>3 DEF H2Inv, H2TypeOK, QueueInv
<1> HIDE DEF q, n
<1>6. H2TypeOK'
  <2>1. \A t \in Streams : st'[t] = "queued" <=> \E i \in DOMAIN queue' : queue'[i] = t
    <3> TAKE t \in Streams
    <3>1. st[t] = "queued" <=> \E i \in DOMAIN q : q[i] = t
      BY DEF H2Inv, H2TypeOK, q
    <3> QED
      BY <1>1, <1>4, <3>1 DEF H2Inv, H2TypeOK
  <2> QED
    BY <1>1, <1>4, <2>1 DEF H2Inv, H2TypeOK, Places
<1>7. QueueInv'
  <2>1. \A i \in DOMAIN queue' : queue'[i] # Error
    BY <1>2, <1>4, <1>5
  <2>2. \A i, j \in DOMAIN q : q[i] = q[j] /\ q[i] # Error => i = j
    BY DEF H2Inv, QueueInv, q
  <2>3. \A i, j \in DOMAIN queue' : queue'[i] = queue'[j] => i = j
    BY <1>4, <1>5, <2>2
  <2> QED
    BY <2>1, <2>3 DEF QueueInv
<1>8. NobodyStarved'
  BY <1>1 DEF H2Inv, H2TypeOK, NobodyStarved, At
<1> QED
  BY <1>1, <1>6, <1>7, <1>8 DEF H2Inv

\* An error comes last in the channel.
LEMMA InvAcceptFails == H2Inv /\ AcceptFails => H2Inv'
<1> SUFFICES ASSUME H2Inv, AcceptFails PROVE H2Inv'
  OBVIOUS
<1>1. /\ accept' \in {"failed", "done"}
      /\ UNCHANGED <<peer, st, off, loop>>
      /\ \/ queue' = queue
         \/ queue' = Append(queue, Error)
  BY DEF AcceptFails, Send
<1>2. CASE queue' = queue
  BY <1>1, <1>2 DEF H2Inv, H2TypeOK, QueueInv, NobodyStarved, At
<1>3. CASE queue' = Append(queue, Error)
  <2> DEFINE q == queue
             n == Len(queue) + 1
  <2>1. q \in Seq(Streams \cup {Error})
    BY DEF H2Inv, H2TypeOK
  <2>2. /\ queue' \in Seq(Streams \cup {Error})
        /\ \A i \in DOMAIN q : i \in DOMAIN queue' /\ queue'[i] = q[i]
        /\ \A i \in DOMAIN queue' : \/ i \in DOMAIN q /\ queue'[i] = q[i]
                                    \/ i = n /\ queue'[i] = Error
    BY <1>3, <2>1, Adding
  <2>3. \A i \in DOMAIN q : i < n /\ i \in Nat
    BY <2>1
  <2>4. n \in Nat
    BY <2>1
  <2> HIDE DEF q, n
  <2>5. H2TypeOK'
    <3>1. \A t \in Streams : st'[t] = "queued" <=> \E i \in DOMAIN queue' : queue'[i] = t
      <4> TAKE t \in Streams
      <4>1. st[t] = "queued" <=> \E i \in DOMAIN q : q[i] = t
        BY DEF H2Inv, H2TypeOK, q
      <4> QED
        BY <1>1, <2>2, <4>1, H2Assumption
    <3> QED
      BY <1>1, <2>2, <3>1 DEF H2Inv, H2TypeOK
  <2>6. QueueInv'
    <3>1. \A i, j \in DOMAIN q : /\ q[i] = q[j] /\ q[i] # Error => i = j
                                 /\ q[i] = Error /\ i <= j => q[j] = Error
      BY DEF H2Inv, QueueInv, q
    <3>2. ASSUME NEW i \in DOMAIN queue', NEW j \in DOMAIN queue'
          PROVE  /\ queue'[i] = queue'[j] /\ queue'[i] # Error => i = j
                 /\ queue'[i] = Error /\ i <= j => queue'[j] = Error
      BY <2>2, <2>3, <2>4, <3>1
    <3> QED
      BY <1>1, <3>2 DEF QueueInv
  <2>7. NobodyStarved'
    BY <1>1 DEF H2Inv, NobodyStarved, At
  <2> QED
    BY <1>1, <2>5, <2>6, <2>7 DEF H2Inv
<1> QED
  BY <1>1, <1>2, <1>3

\* The accept task ends.
LEMMA InvAcceptEnds == H2Inv /\ AcceptEnds => H2Inv'
BY DEF AcceptEnds, H2Inv, H2TypeOK, QueueInv, NobodyStarved, At

-----------------------------------------------------------------------------
(* HTTP/2: the loop.                                                       *)

\* A request leaves the channel for a handler; an error leaves nothing but errors.
LEMMA InvRecv == H2Inv /\ Recv => H2Inv'
<1> SUFFICES ASSUME H2Inv, Recv PROVE H2Inv'
  OBVIOUS
<1> DEFINE q == queue
<1>1. /\ q \in Seq(Streams \cup {Error}) /\ q # <<>>
      /\ loop = "select" /\ loop' = loop /\ accept' = accept /\ peer' = peer
      /\ queue' = Tail(q)
  BY DEF Recv, H2Inv, H2TypeOK
<1>2. /\ Head(q) \in Streams \cup {Error} /\ Head(q) = q[1] /\ 1 \in DOMAIN q
      /\ queue' \in Seq(Streams \cup {Error})
      /\ \A i \in DOMAIN queue' : i + 1 \in DOMAIN q /\ queue'[i] = q[i + 1]
      /\ \A i \in DOMAIN q : i # 1 => i - 1 \in DOMAIN queue' /\ queue'[i - 1] = q[i]
  BY <1>1, Taking
<1>3. /\ \A i \in DOMAIN q : i \in Nat /\ i >= 1
      /\ \A i \in DOMAIN queue' : i \in Nat /\ i >= 1
  BY <1>1, <1>2
<1>4. \A i \in DOMAIN q :
        /\ q[i] = Error => accept # "running"
        /\ \A j \in DOMAIN q : /\ q[i] = q[j] /\ q[i] # Error => i = j
                               /\ q[i] = Error /\ i <= j => q[j] = Error
  BY DEF H2Inv, QueueInv
<1>5. \A t \in Streams : st[t] = "queued" <=> \E i \in DOMAIN q : q[i] = t
  BY DEF H2Inv, H2TypeOK
<1> HIDE DEF q
<1>6. QueueInv'
  <2>1. ASSUME NEW i \in DOMAIN queue'
        PROVE  queue'[i] = Error => accept' # "running"
    BY <1>1, <1>2, <1>4
  <2>2. ASSUME NEW i \in DOMAIN queue', NEW j \in DOMAIN queue'
        PROVE  /\ queue'[i] = queue'[j] /\ queue'[i] # Error => i = j
               /\ queue'[i] = Error /\ i <= j => queue'[j] = Error
    <3>1. /\ i + 1 \in DOMAIN q /\ queue'[i] = q[i + 1]
          /\ j + 1 \in DOMAIN q /\ queue'[j] = q[j + 1]
      BY <1>2
    <3>2. (i + 1 = j + 1 => i = j) /\ (i <= j => i + 1 <= j + 1)
      BY <1>3
    <3> QED
      BY <1>4, <3>1, <3>2
  <2> QED
    BY <2>1, <2>2 DEF QueueInv
<1>7. CASE Head(q) = Error
  <2>1. off' = off \cup {"rx"} /\ st' = st
    BY <1>7 DEF Recv, TurnsOff, q
  <2>2. \A i \in DOMAIN q : q[i] = Error
    BY <1>2, <1>3, <1>4, <1>7
  <2>3. \A t \in Streams : st[t] # "queued"
    BY <1>5, <2>2, H2Assumption
  <2>4. \A i \in DOMAIN queue' : queue'[i] = Error
    BY <1>2, <2>2
  <2>5. H2TypeOK'
    BY <1>1, <1>2, <2>1, <2>3, <2>4, H2Assumption DEF H2Inv, H2TypeOK, Branches
  <2>6. NobodyStarved'
    BY <1>1, <1>2, <1>4, <1>7, <2>1, <2>3 DEF H2Inv, NobodyStarved, At
  <2> QED
    BY <1>1, <1>6, <2>5, <2>6 DEF H2Inv
<1>8. CASE Head(q) # Error
  <2>1. Head(q) \in Streams /\ off' = {} /\ st' = [st EXCEPT ![Head(q)] = "handling"]
    BY <1>2, <1>8 DEF Recv, Fires, q
  <2>2. \A i \in DOMAIN q : q[i] = Head(q) <=> i = 1
    BY <1>2, <1>4, <1>8
  <2>3. \A i \in DOMAIN queue' : queue'[i] # Head(q)
    BY <1>2, <1>3, <2>2
  <2>4. ASSUME NEW t \in Streams
        PROVE  st'[t] = "queued" <=> \E i \in DOMAIN queue' : queue'[i] = t
    <3>1. CASE t = Head(q)
      BY <2>1, <2>3, <3>1 DEF H2Inv, H2TypeOK
    <3>2. CASE t # Head(q)
      BY <1>2, <1>5, <2>1, <2>2, <3>2 DEF H2Inv, H2TypeOK
    <3> QED
      BY <3>1, <3>2
  <2>5. H2TypeOK'
    BY <1>1, <1>2, <2>1, <2>4 DEF H2Inv, H2TypeOK, Places
  <2>6. NobodyStarved'
    BY <2>1 DEF NobodyStarved
  <2> QED
    BY <1>1, <1>6, <2>5, <2>6 DEF H2Inv
<1> QED
  BY <1>7, <1>8

\* A stream that is not in the channel moves on, and a new round begins.
LEMMA InvFires ==
  ASSUME H2Inv, NEW s \in Streams, NEW place \in Places \ {"queued"},
         st[s] # "queued", Fires(s, place), loop = "select",
         UNCHANGED <<peer, accept, queue, loop>>
  PROVE  H2Inv'
<1>1. H2TypeOK'
  BY DEF H2Inv, H2TypeOK, Fires, Branches
<1>2. QueueInv' /\ NobodyStarved'
  BY DEF H2Inv, QueueInv, Fires, NobodyStarved
<1> QED
  BY <1>1, <1>2 DEF H2Inv

\* A branch is turned off that nobody waits in.
LEMMA InvTurnsOff ==
  H2Inv /\ (RecvClosed \/ BackendEmpty \/ FrontendEmpty) => H2Inv'
<1> SUFFICES ASSUME H2Inv, RecvClosed \/ BackendEmpty \/ FrontendEmpty PROVE H2Inv'
  OBVIOUS
<1>1. CASE RecvClosed
  <2>1. queue = <<>> => DOMAIN queue = {}
    OBVIOUS
  <2>2. At("queued") = {} /\ accept # "running"
    BY <1>1, <2>1 DEF RecvClosed, H2Inv, H2TypeOK, At
  <2> QED
    BY <1>1, <2>2 DEF RecvClosed, TurnsOff, H2Inv, H2TypeOK, QueueInv, NobodyStarved, Branches, At
<1>2. CASE BackendEmpty
  BY <1>2 DEF BackendEmpty, TurnsOff, H2Inv, H2TypeOK, QueueInv, NobodyStarved, Branches, At
<1>3. CASE FrontendEmpty
  BY <1>3 DEF FrontendEmpty, TurnsOff, H2Inv, H2TypeOK, QueueInv, NobodyStarved, Branches, At
<1> QED
  BY <1>1, <1>2, <1>3

\* Every step preserves the invariant.
LEMMA H2InvNext == H2Inv /\ [H2Next]_h2Vars => H2Inv'
<1> SUFFICES ASSUME H2Inv, [H2Next]_h2Vars PROVE H2Inv'
  OBVIOUS
<1>1. CASE Leave
  BY <1>1 DEF Leave, H2Inv, H2TypeOK, QueueInv, NobodyStarved, At
<1>2. CASE Vanish
  BY <1>2 DEF Vanish, H2Inv, H2TypeOK, QueueInv, NobodyStarved, At
<1>3. ASSUME NEW s \in Streams, AcceptStream(s) PROVE H2Inv'
  BY <1>3, InvAcceptStream
<1>4. ASSUME NEW s \in Streams, HandlerReturns(s) PROVE H2Inv'
  <2>1. PICK place \in {"relaying"} \cup Outcomes : Fires(s, place)
    BY <1>4 DEF HandlerReturns
  <2>2. place \in Places \ {"queued"}
    BY DEF Places, Outcomes
  <2> QED
    BY <1>4, <2>1, <2>2, InvFires DEF HandlerReturns
<1>5. ASSUME NEW s \in Streams, Relayed(s) PROVE H2Inv'
  <2>1. PICK place \in Outcomes : Fires(s, place)
    BY <1>5 DEF Relayed
  <2>2. place \in Places \ {"queued"}
    BY DEF Places, Outcomes
  <2> QED
    BY <1>5, <2>1, <2>2, InvFires DEF Relayed
<1>6. CASE Accept
  BY <1>6, InvAcceptFails, InvAcceptEnds DEF Accept
<1>7. CASE Recv
  BY <1>7, InvRecv
<1>8. CASE RecvClosed \/ BackendEmpty \/ FrontendEmpty
  BY <1>8, InvTurnsOff
<1>9. CASE LoopEnds
  BY <1>9 DEF LoopEnds, H2Inv, H2TypeOK, QueueInv, NobodyStarved, At
<1>10. CASE UNCHANGED h2Vars
  BY <1>10 DEF h2Vars, H2Inv, H2TypeOK, QueueInv, NobodyStarved, At
<1> QED
  BY <1>1, <1>2, <1>3, <1>4, <1>5, <1>6, <1>7, <1>8, <1>9, <1>10 DEF H2Next, Poll

-----------------------------------------------------------------------------
(* HTTP/2: the theorems.                                                   *)

\* The inductive invariant: the channel holds every queued request once, in
\* front of any error, and the branches that are off have nothing to wait for.
THEOREM H2InvariantCorrect == H2Spec => []H2Inv
<1> QED
  BY H2InvInit, H2InvNext, PTL DEF H2Spec

\* The variables have their types.
THEOREM H2TypeCorrect == H2Spec => []H2TypeOK
<1>1. H2Inv => H2TypeOK
  BY DEF H2Inv
<1> QED
  BY <1>1, H2InvariantCorrect, PTL

\* No handler, response or request is left unpolled by a round of select!.
THEOREM RoundsPollEverybody == H2Spec => []NobodyStarved
<1>1. H2Inv => NobodyStarved
  BY DEF H2Inv
<1> QED
  BY <1>1, H2InvariantCorrect, PTL

\* The loop ends only when every request is over and none can come.
THEOREM LoopOutlivesRequests == H2Spec => []NoRequestAbandoned
<1>1. H2Inv => NoRequestAbandoned
  <2> SUFFICES ASSUME H2Inv, loop = "done"
               PROVE  accept # "running" /\ \A s \in Streams : StreamOver(s)
    BY DEF NoRequestAbandoned
  <2>1. /\ At("handling") = {} /\ At("relaying") = {} /\ At("queued") = {}
        /\ accept # "running"
    BY DEF H2Inv, NobodyStarved, Branches
  <2> QED
    BY <2>1 DEF H2Inv, H2TypeOK, At, StreamOver, Places
<1> QED
  BY <1>1, H2InvariantCorrect, PTL
=============================================================================
