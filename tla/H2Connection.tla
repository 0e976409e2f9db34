---------------------------- MODULE H2Connection ----------------------------
(***************************************************************************)
(* One HTTP/2 connection of a client: h2_svc of HttpCoreService            *)
(* (monolake-services/src/http/core.rs).  A task of its own accepts        *)
(* streams, and drives the connection by doing so; it passes them through  *)
(* a channel to a loop that selects between the channel, the handlers at   *)
(* work and the responses being sent.                                      *)
(*                                                                         *)
(* In a round of select! a branch whose result does not match its pattern  *)
(* is off until the round is over, that is until another branch matches;   *)
(* with every branch off the loop ends.  h2 and the handlers are external. *)
(***************************************************************************)
EXTENDS Naturals, Sequences, FiniteSets

CONSTANTS
  Streams,   \* the streams the client may open
  Error,     \* an error of the connection, as accept yields it
  MaxErrors  \* bound on the errors in the channel

ASSUME H2Assumption == Error \notin Streams /\ MaxErrors \in Nat \ {0}

VARIABLES
  peer,    \* the client: open, leaving (it opens no more streams) or gone
  accept,  \* the accept task: running, failed (it has had the error) or done
  queue,   \* the channel
  st,      \* where the request of each stream is
  off,     \* the branches that are off in this round
  loop     \* the loop: select or done

h2Vars == <<peer, accept, queue, st, off, loop>>

Branches == {"rx", "backend", "frontend"}

At(place) == {s \in Streams : st[s] = place}

StreamOver(s) == st[s] \in {"idle", "ended", "lost"}

-----------------------------------------------------------------------------
(* The client and the accept task.                                         *)

\* GOAWAY, or a connection that is shut down in order
Leave ==
  /\ peer = "open"
  /\ peer' = "leaving"
  /\ UNCHANGED <<accept, queue, st, off, loop>>

Vanish ==
  /\ peer # "gone"
  /\ peer' = "gone"
  /\ UNCHANGED <<accept, queue, st, off, loop>>

\* The loop that has ended has dropped the receiver.
Send(item, then) ==
  IF loop = "done" THEN accept' = "done" /\ UNCHANGED queue
                 ELSE accept' = then /\ queue' = Append(queue, item)

AcceptStream(s) ==
  /\ accept = "running"
  /\ peer = "open"
  /\ st[s] = "idle"
  /\ Send(s, "running")
  /\ st' = [st EXCEPT ![s] = IF loop = "done" THEN "lost" ELSE "queued"]
  /\ UNCHANGED <<peer, off, loop>>

\* The connection is broken; accept may say so more than once.
AcceptFails ==
  /\ accept \in {"running", "failed"}
  /\ peer = "gone"
  /\ Cardinality({i \in DOMAIN queue : queue[i] = Error}) < MaxErrors
  /\ Send(Error, "failed")
  /\ UNCHANGED <<peer, st, off, loop>>

\* accept yields None: after its error, at the end of the stream, or when the
\* last stream of a client that leaves is over.
AcceptEnds ==
  /\ \/ accept = "failed"
     \/ accept = "running" /\ peer = "gone"
     \/ accept = "running" /\ peer = "leaving" /\ \A s \in Streams : StreamOver(s)
  /\ accept' = "done"
  /\ UNCHANGED <<peer, queue, st, off, loop>>

-----------------------------------------------------------------------------
(* The loop.                                                               *)

\* A branch matches, its body moves s on to place, and a new round begins.
Fires(s, place) ==
  /\ st' = [st EXCEPT ![s] = place]
  /\ off' = {}

TurnsOff(branch) == off' = off \cup {branch}

\* Faulty variant: the handler is added without a new round.
RecvSameRound ==
  /\ loop = "select" /\ "rx" \notin off
  /\ queue # <<>>
  /\ queue' = Tail(queue)
  /\ IF Head(queue) = Error
     THEN TurnsOff("rx") /\ UNCHANGED st
     ELSE st' = [st EXCEPT ![Head(queue)] = "handling"] /\ UNCHANGED off
  /\ UNCHANGED <<peer, accept, loop>>

\* A request is handed to a handler; an error does not match.
Recv ==
  /\ loop = "select" /\ "rx" \notin off
  /\ queue # <<>>
  /\ queue' = Tail(queue)
  /\ IF Head(queue) = Error THEN TurnsOff("rx") /\ UNCHANGED st
                            ELSE Fires(Head(queue), "handling")
  /\ UNCHANGED <<peer, accept, loop>>

\* Faulty variant: a channel that is closed is read again.
RecvClosedMatching ==
  /\ loop = "select" /\ "rx" \notin off
  /\ queue = <<>> /\ accept = "done"
  /\ off' = {}
  /\ UNCHANGED <<peer, accept, queue, st, loop>>

RecvClosed ==
  /\ loop = "select" /\ "rx" \notin off
  /\ queue = <<>> /\ accept = "done"
  /\ TurnsOff("rx")
  /\ UNCHANGED <<peer, accept, queue, st, loop>>

BackendEmpty ==
  /\ loop = "select" /\ "backend" \notin off
  /\ At("handling") = {}
  /\ TurnsOff("backend")
  /\ UNCHANGED <<peer, accept, queue, st, loop>>

\* What becomes of a response: the stream is ended, or it can take no more.
Outcomes == IF accept = "running" /\ peer # "gone" THEN {"ended", "lost"} ELSE {"lost"}

\* Faulty variant: the response is added without a new round.
HandlerReturnsSameRound(s) ==
  /\ loop = "select" /\ "backend" \notin off
  /\ st[s] = "handling"
  /\ st' = [st EXCEPT ![s] = "relaying"]
  /\ UNCHANGED <<peer, accept, queue, off, loop>>

\* The handler has a response, which is relayed, or fails, which is a
\* response of its own, sent at once.
HandlerReturns(s) ==
  /\ loop = "select" /\ "backend" \notin off
  /\ st[s] = "handling"
  /\ \E place \in {"relaying"} \cup Outcomes : Fires(s, place)
  /\ UNCHANGED <<peer, accept, queue, loop>>

FrontendEmpty ==
  /\ loop = "select" /\ "frontend" \notin off
  /\ At("relaying") = {}
  /\ TurnsOff("frontend")
  /\ UNCHANGED <<peer, accept, queue, st, loop>>

\* h2_process_response returns.
Relayed(s) ==
  /\ loop = "select" /\ "frontend" \notin off
  /\ st[s] = "relaying"
  /\ \E place \in Outcomes : Fires(s, place)
  /\ UNCHANGED <<peer, accept, queue, loop>>

\* Faulty variant: the loop ends with its channel.
LoopEndsWithChannel ==
  /\ loop = "select"
  /\ "rx" \in off
  /\ loop' = "done"
  /\ UNCHANGED <<peer, accept, queue, st, off>>

LoopEnds ==
  /\ loop = "select"
  /\ off = Branches
  /\ loop' = "done"
  /\ UNCHANGED <<peer, accept, queue, st, off>>

-----------------------------------------------------------------------------
H2Init ==
  /\ peer = "open"
  /\ accept = "running"
  /\ queue = <<>>
  /\ st = [s \in Streams |-> "idle"]
  /\ off = {}
  /\ loop = "select"

Accept == AcceptFails \/ AcceptEnds

Poll == Recv \/ RecvClosed \/ BackendEmpty \/ FrontendEmpty \/ LoopEnds

H2Next ==
  \/ Leave \/ Vanish
  \/ \E s \in Streams : AcceptStream(s) \/ HandlerReturns(s) \/ Relayed(s)
  \/ Accept \/ Poll
  \/ loop = "done" /\ accept = "done" /\ UNCHANGED h2Vars

\* Both tasks are polled when they can go on, and what they wait for of the
\* servers upstream comes, if only as an error: there are no timeouts here.
H2Fairness ==
  /\ WF_h2Vars(Accept)
  /\ WF_h2Vars(Poll)
  /\ \A s \in Streams : WF_h2Vars(HandlerReturns(s)) /\ WF_h2Vars(Relayed(s))

H2Spec == H2Init /\ [][H2Next]_h2Vars /\ H2Fairness

-----------------------------------------------------------------------------
(* Correctness.                                                            *)

Places == {"idle", "queued", "handling", "relaying", "ended", "lost"}

\* The types of the variables; each request of the channel waits there once.
H2TypeOK ==
  /\ peer \in {"open", "leaving", "gone"}
  /\ accept \in {"running", "failed", "done"}
  /\ queue \in Seq(Streams \cup {Error})
  /\ st \in [Streams -> Places]
  /\ off \subseteq Branches
  /\ loop \in {"select", "done"}
  /\ \A s \in Streams :
       st[s] = "queued" <=> \E i \in DOMAIN queue : queue[i] = s

\* No branch is off that has something to wait for: every handler, every
\* response and every request in the channel is polled in every round.
NobodyStarved ==
  /\ "backend" \in off => At("handling") = {}
  /\ "frontend" \in off => At("relaying") = {}
  /\ "rx" \in off => At("queued") = {} /\ accept # "running"

\* "No more futures to drive": the loop ends only when no request can come any
\* more and every one that came is over, even after an error of the connection
\* that was taken off the channel in between.
NoRequestAbandoned ==
  loop = "done" => accept # "running" /\ \A s \in Streams : StreamOver(s)

\* Every request that was accepted gets its response, or its stream is lost.
StreamsAnswered ==
  \A s \in Streams : st[s] = "queued" ~> st[s] \in {"ended", "lost"}

\* With its client the connection ends, the loop and the accept task.
ConnectionEnds == peer = "gone" ~> loop = "done" /\ accept = "done"

\* The channel holds each request once, and behind an error only errors.
QueueInv ==
  \A i \in DOMAIN queue :
    /\ queue[i] = Error => accept # "running"
    /\ \A j \in DOMAIN queue :
         /\ queue[i] = queue[j] /\ queue[i] # Error => i = j
         /\ queue[i] = Error /\ i <= j => queue[j] = Error

H2Inv == H2TypeOK /\ QueueInv /\ NobodyStarved /\ (loop = "done" => off = Branches)
=============================================================================
