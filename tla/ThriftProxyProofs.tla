------------------------- MODULE ThriftProxyProofs -------------------------
(***************************************************************************)
(* Proofs about ThriftProxy, for any number of clients, links and requests *)
(* and every setting of the timeouts.                                      *)
(***************************************************************************)
EXTENDS ThriftProxy, TLAPS

-----------------------------------------------------------------------------
(* Facts about the state.                                                  *)

\* A link is a record of what is owed on it.
LEMMA LinkFacts ==
  ASSUME TypeOK, NEW i \in Links
  PROVE  /\ link[i] \in Link
         /\ link[i].asked \in Request \cup {None}
         /\ link[i].answer \in Request \cup {None}
         /\ link[i].garbled \in BOOLEAN /\ link[i].dead \in BOOLEAN
BY DEF TypeOK, Link

\* No request is None.
LEMMA RequestFacts ==
  ASSUME NEW c \in Clients, NEW n \in 1..MaxRequests
  PROVE  <<c, n>> \in Request /\ <<c, n>> # None
BY ThriftAssumption DEF Request

\* The link of a client that has one.
LEMMA HeldFacts ==
  ASSUME TypeOK, NEW c \in Clients, pc[c] \in {"send", "receive"}
  PROVE  io[c] \in Links /\ io[c] # None /\ io[c] \in InUse
BY DEF TypeOK, InUse

\* The request that is under way is one.
LEMMA UnderWay ==
  ASSUME IInv, NEW c \in Clients,
         pc[c] \in {"connect", "send", "receive", "reply"}
  PROVE  got[c] \in 1..MaxRequests /\ <<c, got[c]>> \in Request /\ <<c, got[c]>> # None
<1>1. got[c] \in 0..MaxRequests /\ got[c] > 0 /\ MaxRequests \in Nat
  BY ThriftAssumption DEF IInv, TypeOK, LinkInv
<1>2. got[c] \in 1..MaxRequests
  BY <1>1
<1> QED
  BY <1>2, RequestFacts

\* Who holds a link is the only one to hold it.
LEMMA Exclusive ==
  ASSUME IInv, NEW c \in Clients, NEW d \in Clients, c # d,
         pc[c] \in {"send", "receive"}, pc[d] \in {"send", "receive"}
  PROVE  io[c] # io[d]
BY HeldFacts DEF IInv, PooledLinksIdle

\* A new link is a link on which nothing is owed.
LEMMA FreshFacts == Fresh \in Link /\ Fresh.asked = None /\ ~Fresh.garbled /\ Fresh.answer = None
BY DEF Fresh, Link

-----------------------------------------------------------------------------
(* Steps that leave the links alone.                                       *)

\* The initial states satisfy the invariant.
LEMMA InvInit == Init => IInv
<1> SUFFICES ASSUME Init PROVE IInv
  OBVIOUS
<1>1. 0 \in 0..MaxRequests
  BY ThriftAssumption
<1>2. Start \in {"peek", "decode"}
  BY DEF Start
<1>3. TypeOK
  BY <1>1, <1>2, FreshFacts DEF Init, TypeOK
<1>4. PooledLinksIdle
  BY DEF Init, PooledLinksIdle
<1>5. ResponsesMatch /\ LinkInv
  BY <1>1, <1>2, FreshFacts DEF Init, ResponsesMatch, LinkInv, Clean
<1> QED
  BY <1>3, <1>4, <1>5 DEF IInv

\* A client sends or hangs up.
LEMMA InvClient ==
  ASSUME IInv, NEW c \in Clients, Client(c)
  PROVE  IInv'
<1>1. /\ UNCHANGED <<serverVars, link>>
      /\ gone' \subseteq Clients
      /\ tail' \in [Clients -> {"none", "part", "junk"}]
  BY DEF Client, Ask, AskHalf, Hangup, IInv, TypeOK
<1>2. /\ sent' \in [Clients -> 0..MaxRequests]
      /\ \A d \in Clients : sent[d] <= sent'[d] /\ sent[d] \in Nat /\ sent'[d] \in Nat
  <2>1. CASE Ask(c)
    BY <2>1, ThriftAssumption DEF Ask, IInv, TypeOK
  <2>2. CASE UNCHANGED sent
    BY <2>2, ThriftAssumption DEF IInv, TypeOK
  <2> QED
    BY <2>1, <2>2 DEF Client, AskHalf, Hangup
<1>3. TypeOK'
  BY <1>1, <1>2 DEF serverVars, IInv, TypeOK
<1>4. ResponsesMatch' /\ PooledLinksIdle'
  BY <1>1 DEF serverVars, IInv, ResponsesMatch, PooledLinksIdle, Clean, InUse
<1>5. LinkInv'
  <2>1. \A d \in Clients : got[d] <= sent'[d]
    BY <1>2 DEF IInv, TypeOK, LinkInv
  <2> QED
    BY <1>1, <2>1 DEF serverVars, IInv, LinkInv, Clean, InUse
<1> QED
  BY <1>3, <1>4, <1>5 DEF IInv

\* A client's connection moves between places where it holds no link and no
\* response.
LEMMA InvMoves ==
  ASSUME IInv, NEW c \in Clients,
         NEW place \in {"peek", "decode", "connect", "closed"}, Goto(c, place),
         pc[c] \notin {"send", "receive"},
         place = "connect" => got'[c] > 0,
         \/ got' = got
         \/ Whole(c) /\ got' = [got EXCEPT ![c] = @ + 1],
         \/ resp' = resp
         \/ resp' = [resp EXCEPT ![c] = None],
         UNCHANGED <<clientVars, io, pool, link>>
  PROVE  IInv'
<1>1. \A d \in Clients : got[d] \in Nat /\ sent[d] \in 0..MaxRequests /\ got[d] <= sent[d]
  BY ThriftAssumption DEF IInv, TypeOK, LinkInv
<1>2. /\ got' \in [Clients -> 0..MaxRequests]
      /\ \A d \in Clients : /\ got'[d] \in Nat /\ got'[d] <= sent[d]
                            /\ d # c => got'[d] = got[d]
  BY <1>1, ThriftAssumption DEF Whole, IInv, TypeOK
<1>3. /\ pc' = [pc EXCEPT ![c] = place] /\ io[c] = None
      /\ sent' = sent /\ tail' = tail /\ gone' = gone
      /\ io' = io /\ pool' = pool /\ link' = link
      /\ resp' \in [Clients -> Request \cup {None}]
      /\ \A d \in Clients : d # c => resp'[d] = resp[d]
  BY DEF Goto, clientVars, IInv, TypeOK
<1>4. TypeOK'
  BY <1>2, <1>3 DEF IInv, TypeOK
<1>5. PooledLinksIdle'
  BY <1>3 DEF IInv, PooledLinksIdle, Clean, InUse
<1>6. ResponsesMatch'
  BY <1>2, <1>3 DEF IInv, TypeOK, ResponsesMatch
<1>7. LinkInv'
  BY <1>2, <1>3 DEF IInv, TypeOK, LinkInv, Clean, InUse
<1> QED
  BY <1>4, <1>5, <1>6, <1>7 DEF IInv

\* A connection reads a request, ends, or times out.
LEMMA InvRead ==
  ASSUME IInv, NEW c \in Clients, Read(c) \/ ReadTimesOut(c)
  PROVE  IInv'
<1>1. CASE Peek(c)
  BY <1>1, InvMoves DEF Peek, reading
<1>2. CASE Decode(c)
  <2>1. got' = [got EXCEPT ![c] = @ + 1] /\ got[c] \in Nat /\ Whole(c)
    BY <1>2, ThriftAssumption DEF Decode, IInv, TypeOK
  <2>2. got'[c] > 0
    BY <2>1 DEF IInv, TypeOK
  <2> QED
    BY <1>2, <2>1, <2>2, InvMoves DEF Decode, reading
<1>3. CASE ReadEnds(c)
  BY <1>3, InvMoves DEF ReadEnds, reading
<1>4. CASE ReadTimesOut(c)
  BY <1>4, InvMoves DEF ReadTimesOut, reading
<1> QED
  BY <1>1, <1>2, <1>3, <1>4 DEF Read

\* A response is written, or cannot be; or there is no link to be had.
LEMMA InvRespond ==
  ASSUME IInv, NEW c \in Clients, Respond(c) \/ ConnectFails(c)
  PROVE  IInv'
<1>1. CASE Reply(c)
  BY <1>1, InvMoves DEF Reply, Start
<1>2. CASE ReplyFails(c)
  BY <1>2, InvMoves DEF ReplyFails
<1>3. CASE ConnectFails(c)
  BY <1>3, InvMoves DEF ConnectFails
<1> QED
  BY <1>1, <1>2, <1>3 DEF Respond

-----------------------------------------------------------------------------
(* The upstream.                                                           *)

\* What the upstream does keeps to what is owed on the link.
LEMMA InvUpstream ==
  ASSUME IInv, NEW i \in Links, Upstream(i)
  PROVE  IInv'
<1>1. /\ UNCHANGED <<clientVars, serverVars>>
      /\ link' \in [Links -> Link]
      /\ \A j \in Links \ {i} : link'[j] = link[j]
  <2>1. link \in [Links -> Link] /\ link[i] \in Link
    BY DEF IInv, TypeOK
  <2>2. CASE Answer(i)
    BY <2>1, <2>2 DEF Answer, Link
  <2>3. CASE Garble(i)
    BY <2>1, <2>3 DEF Garble, Link
  <2>4. CASE Die(i)
    BY <2>1, <2>4 DEF Die, Link
  <2> QED
    BY <2>2, <2>3, <2>4 DEF Upstream
<1>2. Clean(i) =>
        /\ link'[i].asked = None /\ ~link'[i].garbled /\ link'[i].answer = None
  <2>1. CASE Answer(i) \/ Garble(i)
    BY <2>1 DEF Answer, Garble, Clean
  <2>2. CASE Die(i)
    BY <2>2 DEF Die, IInv, TypeOK, Clean, Link
  <2> QED
    BY <2>1, <2>2 DEF Upstream
<1>3. \/ link'[i].asked = link[i].asked /\ link'[i].answer = link[i].answer
      \/ /\ link[i].asked # None /\ link[i].answer = None
         /\ link'[i].asked = None /\ link'[i].answer = link[i].asked
  BY LinkFacts DEF Upstream, Answer, Garble, Die, IInv, TypeOK, Link
<1>4. TypeOK'
  BY <1>1 DEF clientVars, serverVars, IInv, TypeOK
<1>5. ResponsesMatch'
  BY <1>1 DEF serverVars, IInv, ResponsesMatch
<1>6. PooledLinksIdle'
  BY <1>1, <1>2 DEF serverVars, IInv, TypeOK, PooledLinksIdle, Clean, InUse
<1>7. LinkInv'
  <2>0. ASSUME NEW j \in Links \ InUse PROVE Clean(j)'
    BY <1>1, <1>2 DEF IInv, LinkInv, Clean
  <2> SUFFICES ASSUME NEW c \in Clients
               PROVE  /\ pc[c] = "send" => Clean(io[c])'
                      /\ pc[c] = "receive" =>
                           \/ link'[io[c]].asked = <<c, got[c]>> /\ link'[io[c]].answer = None
                           \/ link'[io[c]].asked = None /\ link'[io[c]].answer = <<c, got[c]>>
    BY <1>1, <2>0 DEF clientVars, serverVars, IInv, LinkInv, InUse
  <2>1. CASE pc[c] = "send"
    BY <1>1, <1>2, <2>1, HeldFacts DEF serverVars, IInv, LinkInv, Clean
  <2>2. CASE pc[c] = "receive"
    <3>1. io[c] \in Links
      BY <2>2, HeldFacts DEF IInv
    <3>2. \/ link[io[c]].asked = <<c, got[c]>> /\ link[io[c]].answer = None
          \/ link[io[c]].asked = None /\ link[io[c]].answer = <<c, got[c]>>
      BY <2>2 DEF IInv, LinkInv
    <3>3. <<c, got[c]>> # None
      BY <2>2, UnderWay
    <3>4. CASE io[c] # i
      BY <1>1, <2>2, <3>1, <3>2, <3>4
    <3>5. CASE io[c] = i
      BY <1>3, <2>2, <3>2, <3>3, <3>5
    <3> QED
      BY <3>4, <3>5
  <2> QED
    BY <2>1, <2>2
<1> QED
  BY <1>4, <1>5, <1>6, <1>7 DEF IInv

-----------------------------------------------------------------------------
(* The proxy.                                                              *)

\* A link that nobody holds, in the pool or new, is taken.
LEMMA InvConnect ==
  ASSUME IInv, NEW c \in Clients, Connect(c)
  PROVE  IInv'
<1>1. PICK i \in Links :
        /\ i \notin InUse /\ io' = [io EXCEPT ![c] = i] /\ pool' = pool \ {i}
  BY DEF Connect, Hold, IInv, TypeOK, PooledLinksIdle
<1>2. /\ pc[c] = "connect" /\ pc' = [pc EXCEPT ![c] = "send"]
      /\ UNCHANGED <<clientVars, got, resp, link>>
  BY DEF Connect, Goto
<1>3. i # None /\ Clean(i)
  BY <1>1, ThriftAssumption DEF IInv, LinkInv
<1>4. /\ io'[c] = i
      /\ \A d \in Clients : d # c => io'[d] = io[d] /\ io[d] # i /\ pc'[d] = pc[d]
  BY <1>1, <1>2, <1>3 DEF IInv, TypeOK, InUse
<1>5. InUse' = InUse \cup {i}
  <2>1. io[c] = None
    BY <1>2 DEF IInv, TypeOK
  <2> QED
    BY <1>3, <1>4, <2>1 DEF InUse
<1>6. TypeOK'
  BY <1>1, <1>2, <1>3, <1>4 DEF clientVars, IInv, TypeOK
<1>7. ResponsesMatch'
  BY <1>2, <1>4 DEF IInv, TypeOK, ResponsesMatch
<1>8. PooledLinksIdle'
  <2>1. ASSUME NEW j \in pool' PROVE Clean(j)' /\ j \notin InUse'
    BY <1>1, <1>2, <1>5 DEF IInv, PooledLinksIdle, Clean
  <2>2. ASSUME NEW d \in Clients, NEW e \in Clients, io'[d] = io'[e], io'[d] # None
        PROVE  d = e
    BY <1>4, <2>2 DEF IInv, PooledLinksIdle
  <2> QED
    BY <2>1, <2>2 DEF PooledLinksIdle
<1>9. LinkInv'
  <2>1. \A j \in Links \ InUse' : Clean(j)'
    BY <1>2, <1>5 DEF IInv, LinkInv, Clean
  <2>2. ASSUME NEW d \in Clients
        PROVE  /\ got'[d] <= sent'[d]
               /\ pc'[d] \in {"connect", "send", "receive", "reply"} => got'[d] > 0
               /\ pc'[d] = "send" => Clean(io[d])'
               /\ pc'[d] = "receive" =>
                    \/ link'[io'[d]].asked = <<d, got'[d]>> /\ link'[io'[d]].answer = None
                    \/ link'[io'[d]].asked = None /\ link'[io'[d]].answer = <<d, got'[d]>>
    BY <1>2, <1>3, <1>4 DEF clientVars, IInv, TypeOK, LinkInv, Clean
  <2> QED
    BY <2>1, <2>2 DEF LinkInv
<1> QED
  BY <1>6, <1>7, <1>8, <1>9 DEF IInv

\* A link on which nothing is owed takes a request.
LEMMA InvSendRequest ==
  ASSUME IInv, NEW c \in Clients, SendRequest(c)
  PROVE  IInv'
<1> DEFINE i == io[c]
<1>1. /\ pc[c] = "send" /\ pc' = [pc EXCEPT ![c] = "receive"]
      /\ link' = [link EXCEPT ![i].asked = <<c, got[c]>>]
      /\ UNCHANGED <<clientVars, got, resp, io, pool>>
  BY DEF SendRequest, Goto
<1>2. i \in Links /\ i # None /\ i \in InUse /\ <<c, got[c]>> \in Request
  BY <1>1, HeldFacts, UnderWay DEF IInv
<1>3. /\ link' \in [Links -> Link]
      /\ link'[i].asked = <<c, got[c]>> /\ link'[i].answer = None
      /\ \A j \in Links \ {i} : link'[j] = link[j]
  BY <1>1, <1>2, LinkFacts DEF IInv, TypeOK, LinkInv, Clean, Link
<1>4. TypeOK'
  BY <1>1, <1>3 DEF clientVars, IInv, TypeOK
<1>5. ResponsesMatch'
  BY <1>1 DEF IInv, TypeOK, ResponsesMatch
<1>6. PooledLinksIdle'
  BY <1>1, <1>2, <1>3 DEF IInv, TypeOK, PooledLinksIdle, Clean, InUse
<1>7. LinkInv'
  <2>1. \A j \in Links \ InUse' : Clean(j)'
    BY <1>1, <1>2, <1>3 DEF IInv, LinkInv, Clean, InUse
  <2>2. ASSUME NEW d \in Clients
        PROVE  /\ got'[d] <= sent'[d]
               /\ pc'[d] \in {"connect", "send", "receive", "reply"} => got'[d] > 0
               /\ pc'[d] = "send" => Clean(io[d])'
               /\ pc'[d] = "receive" =>
                    \/ link'[io'[d]].asked = <<d, got'[d]>> /\ link'[io'[d]].answer = None
                    \/ link'[io'[d]].asked = None /\ link'[io'[d]].answer = <<d, got'[d]>>
    <3>1. CASE d = c
      BY <1>1, <1>3, <3>1 DEF clientVars, IInv, TypeOK, LinkInv
    <3>2. CASE d # c
      <4>1. pc[d] \in {"send", "receive"} => io[d] \in Links /\ io[d] # i
        BY <1>1, <3>2, HeldFacts, Exclusive DEF IInv
      <4>2. pc[d] \in {"send", "receive"} => link'[io[d]] = link[io[d]]
        BY <1>3, <4>1
      <4> QED
        BY <1>1, <3>2, <4>2 DEF clientVars, IInv, TypeOK, LinkInv, Clean
    <3> QED
      BY <3>1, <3>2
  <2> QED
    BY <2>1, <2>2 DEF LinkInv
<1> QED
  BY <1>4, <1>5, <1>6, <1>7 DEF IInv

\* A client lets go of its link, with nothing owed on it; the link may go back
\* to the pool.
LEMMA InvLetsGo ==
  ASSUME IInv, NEW c \in Clients, pc[c] \in {"send", "receive"},
         NEW place \in {"reply", "closed"}, Goto(c, place), Hold(c, None),
         resp' \in [Clients -> Request \cup {None}],
         place = "reply" => resp'[c] = <<c, got[c]>> /\ got[c] > 0,
         \A d \in Clients : d # c => resp'[d] = resp[d],
         link' \in [Links -> Link],
         NEW i, i = io[c],
         link'[i].asked = None /\ ~link'[i].garbled /\ link'[i].answer = None,
         \A j \in Links \ {i} : link'[j] = link[j],
         pool' \in {pool, pool \cup {i}},
         UNCHANGED <<clientVars, got>>
  PROVE  IInv'
<1>1. i \in Links /\ i # None /\ i \in InUse
  BY HeldFacts DEF IInv
<1>2. /\ pc'[c] = place /\ io'[c] = None
      /\ \A d \in Clients : d # c => pc'[d] = pc[d] /\ io'[d] = io[d] /\ io[d] # i
  BY <1>1 DEF Goto, Hold, IInv, TypeOK, PooledLinksIdle
<1>3. InUse' = InUse \ {i}
  BY <1>1, <1>2 DEF InUse
<1>4. TypeOK'
  <2>1. /\ pc' \in [Clients -> {"peek", "decode", "connect", "send", "receive", "reply", "closed"}]
        /\ io' \in [Clients -> Links \cup {None}]
        /\ pool' \subseteq Links
    BY <1>1 DEF Goto, Hold, IInv, TypeOK
  <2>2. \A d \in Clients : io'[d] # None <=> pc'[d] \in {"send", "receive"}
    BY <1>2 DEF IInv, TypeOK
  <2> QED
    BY <2>1, <2>2 DEF clientVars, IInv, TypeOK
<1>5. ResponsesMatch'
  BY <1>2 DEF IInv, ResponsesMatch
<1>6. PooledLinksIdle'
  <2>1. ASSUME NEW j \in pool' PROVE Clean(j)' /\ j \notin InUse'
    <3>1. CASE j = i
      BY <1>3, <3>1 DEF Clean
    <3>2. CASE j # i
      BY <1>3, <3>2 DEF Clean, IInv, TypeOK, PooledLinksIdle
    <3> QED
      BY <3>1, <3>2
  <2>2. ASSUME NEW d \in Clients, NEW e \in Clients, io'[d] = io'[e], io'[d] # None
        PROVE  d = e
    BY <1>2, <2>2 DEF IInv, PooledLinksIdle
  <2> QED
    BY <2>1, <2>2 DEF PooledLinksIdle
<1>7. LinkInv'
  <2>1. \A j \in Links \ InUse' : Clean(j)'
    BY <1>3 DEF IInv, LinkInv, Clean
  <2>2. ASSUME NEW d \in Clients
        PROVE  /\ got'[d] <= sent'[d]
               /\ pc'[d] \in {"connect", "send", "receive", "reply"} => got'[d] > 0
               /\ pc'[d] = "send" => Clean(io[d])'
               /\ pc'[d] = "receive" =>
                    \/ link'[io'[d]].asked = <<d, got'[d]>> /\ link'[io'[d]].answer = None
                    \/ link'[io'[d]].asked = None /\ link'[io'[d]].answer = <<d, got'[d]>>
    <3>1. CASE d = c
      BY <1>2, <3>1 DEF clientVars, IInv, LinkInv
    <3>2. CASE d # c
      <4>1. pc[d] \in {"send", "receive"} => link'[io[d]] = link[io[d]]
        BY <1>2, <3>2, HeldFacts DEF IInv
      <4>2. pc'[d] = pc[d] /\ io'[d] = io[d] /\ got'[d] = got[d] /\ sent'[d] = sent[d]
        BY <1>2, <3>2 DEF clientVars
      <4>3. /\ got[d] <= sent[d]
            /\ pc[d] \in {"connect", "send", "receive", "reply"} => got[d] > 0
            /\ pc[d] = "send" => Clean(io[d])
            /\ pc[d] = "receive" =>
                 \/ link[io[d]].asked = <<d, got[d]>> /\ link[io[d]].answer = None
                 \/ link[io[d]].asked = None /\ link[io[d]].answer = <<d, got[d]>>
        BY DEF IInv, LinkInv
      <4>4. CASE pc[d] = "send"
        BY <4>1, <4>2, <4>3, <4>4 DEF Clean
      <4>5. CASE pc[d] = "receive"
        BY <4>1, <4>2, <4>3, <4>5
      <4> QED
        BY <4>2, <4>3, <4>4, <4>5
    <3> QED
      BY <3>1, <3>2
  <2> QED
    BY <2>1, <2>2 DEF LinkInv
<1> QED
  BY <1>4, <1>5, <1>6, <1>7 DEF IInv

\* A link that fails is closed.
LEMMA InvGiveUp ==
  ASSUME IInv, NEW c \in Clients, SendFails(c) \/ ReceiveFails(c)
  PROVE  IInv'
<1>1. /\ pc[c] \in {"send", "receive"} /\ Goto(c, "closed") /\ Hold(c, None)
      /\ link' = [link EXCEPT ![io[c]] = Fresh]
      /\ UNCHANGED <<clientVars, got, resp, pool>>
  BY DEF SendFails, ReceiveFails, GiveUp
<1>2. io[c] \in Links
  BY <1>1, HeldFacts DEF IInv
<1>3. /\ link' \in [Links -> Link] /\ link'[io[c]] = Fresh
      /\ \A j \in Links \ {io[c]} : link'[j] = link[j]
  BY <1>1, <1>2, FreshFacts DEF IInv, TypeOK
<1>4. resp' \in [Clients -> Request \cup {None}]
  BY <1>1 DEF IInv, TypeOK
<1> QED
  BY <1>1, <1>3, <1>4, FreshFacts, InvLetsGo

\* The response is the one to the request that is owed on the link, and after
\* it nothing is.
LEMMA InvReceive ==
  ASSUME IInv, NEW c \in Clients, Receive(c)
  PROVE  IInv'
<1> DEFINE i == io[c]
<1>1. /\ pc[c] = "receive" /\ Goto(c, "reply") /\ Hold(c, None)
      /\ ~link[i].garbled /\ link[i].answer # None
      /\ resp' = [resp EXCEPT ![c] = link[i].answer]
      /\ link' = [link EXCEPT ![i].answer = None]
      /\ pool' = pool \cup {i}
      /\ UNCHANGED <<clientVars, got>>
  BY DEF Receive
<1>2. i \in Links
  BY <1>1, HeldFacts DEF IInv
<1>3. <<c, got[c]>> \in Request /\ got[c] > 0
  BY <1>1, UnderWay DEF IInv, LinkInv
<1>4. link[i].answer = <<c, got[c]>> /\ link[i].asked = None
  BY <1>1 DEF IInv, LinkInv
<1>5. /\ link' \in [Links -> Link]
      /\ link'[i].asked = None /\ ~link'[i].garbled /\ link'[i].answer = None
      /\ \A j \in Links \ {i} : link'[j] = link[j]
  BY <1>1, <1>2, <1>4, LinkFacts DEF IInv, TypeOK, Link
<1>6. /\ resp' \in [Clients -> Request \cup {None}]
      /\ resp'[c] = <<c, got[c]>>
      /\ \A d \in Clients : d # c => resp'[d] = resp[d]
  BY <1>1, <1>3, <1>4 DEF IInv, TypeOK
<1> HIDE DEF i
<1> QED
  BY <1>1, <1>3, <1>5, <1>6, InvLetsGo DEF i

\* Every step preserves the invariant.
LEMMA InvNext == IInv /\ [Next]_vars => IInv'
<1> SUFFICES ASSUME IInv, [Next]_vars PROVE IInv'
  OBVIOUS
<1>1. ASSUME NEW c \in Clients, Client(c) \/ Serve(c) \/ ReadTimesOut(c)
      PROVE  IInv'
  <2>1. CASE Client(c)
    BY <2>1, InvClient
  <2>2. CASE Read(c) \/ ReadTimesOut(c)
    BY <2>2, InvRead
  <2>3. CASE Respond(c) \/ ConnectFails(c)
    BY <2>3, InvRespond
  <2>4. CASE Connect(c)
    BY <2>4, InvConnect
  <2>5. CASE SendRequest(c)
    BY <2>5, InvSendRequest
  <2>6. CASE SendFails(c) \/ ReceiveFails(c)
    BY <2>6, InvGiveUp
  <2>7. CASE Receive(c)
    BY <2>7, InvReceive
  <2> QED
    BY <1>1, <2>1, <2>2, <2>3, <2>4, <2>5, <2>6, <2>7 DEF Serve, Proxy
<1>2. ASSUME NEW i \in Links, Upstream(i) PROVE IInv'
  BY <1>2, InvUpstream
<1>3. CASE UNCHANGED vars
  BY <1>3 DEF vars, clientVars, IInv, TypeOK, ResponsesMatch, PooledLinksIdle,
              LinkInv, Clean, InUse
<1> QED
  BY <1>1, <1>2, <1>3 DEF Next, Over

-----------------------------------------------------------------------------
(* The theorems.                                                           *)

\* The inductive invariant: a link is held by one client, and what is owed on
\* it belongs to that client's request.
THEOREM InvariantCorrect == Spec => []IInv
<1> QED
  BY InvInit, InvNext, PTL DEF Spec

\* The variables have their types.
THEOREM TypeCorrect == Spec => []TypeOK
<1>1. IInv => TypeOK
  BY DEF IInv
<1> QED
  BY <1>1, InvariantCorrect, PTL

\* A client never gets the response to the request of another one, nor to an
\* earlier one of its own.
THEOREM ResponsesAreMatched == Spec => []ResponsesMatch
<1>1. IInv => ResponsesMatch
  BY DEF IInv
<1> QED
  BY <1>1, InvariantCorrect, PTL

\* The pool holds links on which nothing is owed, and nobody holds those.
THEOREM PooledLinksAreIdle == Spec => []PooledLinksIdle
<1>1. IInv => PooledLinksIdle
  BY DEF IInv
<1> QED
  BY <1>1, InvariantCorrect, PTL
=============================================================================
