-------------------------- MODULE ConnectionPrefix --------------------------
(***************************************************************************)
(* The first bytes of a connection, on their way to HttpCoreService:       *)
(* ProxyProtocolService takes a PROXY header off them, then H2Detect       *)
(* (PrefixDetector) compares what follows with the preface of HTTP/2.      *)
(* Both read into a buffer and hand what they read on, in front of the     *)
(* rest (PrefixedReadIo).  TLS, if there is any, lies between the two and  *)
(* passes the bytes on.                                                    *)
(*                                                                         *)
(* The bytes are positions: of a connection it matters how far it agrees   *)
(* with a magic and with the preface, and what the parser makes of its     *)
(* header.  A read returns any number of the bytes that have arrived.      *)
(***************************************************************************)
EXTENDS Naturals

CONSTANTS
  Streams,  \* what clients may send
  Max,      \* MAX_HEADER_SIZE
  Preface   \* length of the preface of HTTP/2

\* want is the length of the magic that the first byte belongs to, if any, and
\* magic the bytes that agree with it; after size bytes the parser can tell
\* what the header is; front and inner are the bytes that agree with the
\* preface, at the front and behind the header.
Stream == [want: 0..Max, magic: Nat, size: Nat,
           kind: {"source", "local", "bad"}, front: 0..Preface,
           inner: 0..Preface, total: Nat]

ASSUME PrefixAssumption ==
  /\ Max \in Nat \ {0}
  /\ Preface \in Nat \ {0}
  /\ Streams \subseteq Stream
  /\ \A s \in Streams : /\ s.magic <= s.want
                        /\ s.want > 0 => s.size > s.want
                        /\ s.magic <= s.total

VARIABLES
  stream,  \* what the client sends
  sent,    \* how much of it has been sent
  open,    \* has the client not closed yet?
  pc,      \* where the connection's task is
  pos,     \* the bytes in the buffer of ProxyProtocolService
  base,    \* where the stream of the inner service begins
  source,  \* is there a RemoteAddr?
  seen,    \* the bytes in the buffer of PrefixDetector
  h2       \* does HttpCoreService speak HTTP/2?

clientVars == <<stream, sent, open>>
vars == <<clientVars, pc, pos, base, source, seen, h2>>

Least(m, n) == IF m < n THEN m ELSE n

Init ==
  /\ stream \in Streams
  /\ sent = 0
  /\ open = TRUE
  /\ pc = "first"
  /\ pos = 0
  /\ base = 0
  /\ source = FALSE
  /\ seen = 0
  /\ h2 = FALSE

-----------------------------------------------------------------------------
(* The client.                                                             *)

Send ==
  /\ open
  /\ sent' \in (sent + 1)..stream.total
  /\ UNCHANGED <<stream, open, pc, pos, base, source, seen, h2>>

Close ==
  /\ open
  /\ open' = FALSE
  /\ UNCHANGED <<stream, sent, pc, pos, base, source, seen, h2>>

-----------------------------------------------------------------------------
(* ProxyProtocolService.                                                   *)

\* The inner service is called, with what follows the first n bytes.
Inner(n, s) ==
  /\ pc' = "detect"
  /\ base' = n
  /\ source' = s

\* The n bytes read first begin like a magic.
BeginsLike(n) == stream.want > 0 /\ stream.magic >= Least(n, stream.want)

FirstRead ==
  /\ pc = "first"
  /\ \E n \in 1..Least(sent, Max) :
       /\ pos' = n
       /\ IF BeginsLike(n)
          THEN pc' = "parse" /\ UNCHANGED <<base, source>>
          ELSE Inner(0, FALSE)
  /\ UNCHANGED <<clientVars, seen, h2>>

\* buffer[0] of an empty buffer
FirstByteMissing ==
  /\ pc = "first"
  /\ ~open /\ sent = 0
  /\ pc' = "panicked"
  /\ UNCHANGED <<clientVars, pos, base, source, seen, h2>>

\* The parser wants more: NotProxyHeader while the magic is not complete, and
\* then UnexpectedEof.
Short == stream.magic < stream.want \/ pos < stream.size

\* Faulty variant: the position of a parser that failed is kept.
ParseKeepingPosition ==
  /\ pc = "parse"
  /\ IF Short THEN pc' = "read" /\ UNCHANGED <<base, source>>
              ELSE Inner(stream.size, stream.kind = "source")
  /\ UNCHANGED <<clientVars, pos, seen, h2>>

Parse ==
  /\ pc = "parse"
  /\ IF Short THEN pc' = "read" /\ UNCHANGED <<base, source>>
     ELSE IF stream.kind = "bad" THEN Inner(0, FALSE)
     ELSE Inner(stream.size, stream.kind = "source")
  /\ UNCHANGED <<clientVars, pos, seen, h2>>

\* What a further read of the service may return; 0 if the client has closed,
\* or into a full buffer.
Reads ==
  {n \in 0..Least(sent - pos, Max - pos) :
     n = 0 => pos = Max \/ (~open /\ sent = pos)}

\* Faulty variant: the rest of the magic is not compared.
ReadMoreUnchecked ==
  /\ pc = "read"
  /\ \E n \in Reads :
       /\ pos' = pos + n
       /\ pc' = IF pos' = Max THEN "refused" ELSE "parse"
  /\ UNCHANGED <<clientVars, base, source, seen, h2>>

ReadMore ==
  /\ pc = "read"
  /\ \E n \in Reads :
       /\ pos' = pos + n
       /\ IF pos < stream.want /\ stream.magic < Least(stream.want, pos + n)
          THEN Inner(0, FALSE)
          ELSE /\ pc' = IF pos' = Max THEN "refused" ELSE "parse"
               /\ UNCHANGED <<base, source>>
  /\ UNCHANGED <<clientVars, seen, h2>>

-----------------------------------------------------------------------------
(* PrefixDetector.                                                         *)

\* How far the stream of the inner service agrees with the preface.
Agreed == IF base = 0 THEN stream.front ELSE stream.inner

Detected(n, v) ==
  /\ pc' = "serve"
  /\ seen' = n
  /\ h2' = v
  /\ UNCHANGED <<clientVars, pos, base, source>>

DetectSome ==
  /\ pc = "detect"
  /\ \E n \in (seen + 1)..Least(Preface, sent - base) :
       IF n > Agreed
       THEN Detected(n, FALSE)
       ELSE seen' = n /\ UNCHANGED <<clientVars, pc, pos, base, source, h2>>

\* Faulty variant: whatever has been read agrees, so it is the preface.
DetectEndsEarly ==
  /\ pc = "detect"
  /\ seen = Preface \/ (~open /\ sent = base + seen)
  /\ Detected(seen, TRUE)

\* A read returns 0: the client has closed, or the buffer is full.
DetectEnds ==
  /\ pc = "detect"
  /\ seen = Preface \/ (~open /\ sent = base + seen)
  /\ Detected(seen, seen = Preface)

\* A read fails, and with it the connection.
ReadFails ==
  /\ pc \in {"first", "read", "detect"}
  /\ pc' = "failed"
  /\ UNCHANGED <<clientVars, pos, base, source, seen, h2>>

-----------------------------------------------------------------------------
Decided == pc \in {"serve", "refused", "failed", "panicked"}

Over == Decided /\ ~open /\ UNCHANGED vars

Service ==
  \/ FirstRead \/ FirstByteMissing \/ Parse \/ ReadMore
  \/ DetectSome \/ DetectEnds

Next == Send \/ Close \/ Service \/ ReadFails \/ Over

\* The task of the connection is polled when it can go on.
Fairness == WF_vars(Service)

Spec == Init /\ [][Next]_vars /\ Fairness

-----------------------------------------------------------------------------
(* Correctness.                                                            *)

\* The types of the variables; the buffers hold what has been sent and fits.
TypeOK ==
  /\ stream \in Streams
  /\ sent \in 0..stream.total
  /\ open \in BOOLEAN
  /\ pc \in {"first", "parse", "read", "detect", "serve", "refused", "failed", "panicked"}
  /\ pos \in 0..Least(sent, Max)
  /\ base \in 0..pos
  /\ source \in BOOLEAN
  /\ seen \in 0..Preface
  /\ h2 \in BOOLEAN

\* The connection begins with a PROXY header that parses.
Proxied ==
  stream.want > 0 /\ stream.magic = stream.want /\ stream.kind # "bad"

\* In whatever pieces the bytes arrive, the inner service gets the connection
\* from behind a header that parses, with the address in it, and otherwise
\* from its first byte: nothing is lost and nothing is taken for a header.
HeaderTakenOff ==
  pc \in {"detect", "serve"} =>
    /\ base = IF Proxied THEN stream.size ELSE 0
    /\ source <=> Proxied /\ stream.kind = "source"

\* A connection is served as HTTP/2 if it has the whole preface, even one that
\* begins like a PROXY header; and only a client that closed within the
\* preface is taken for one that does not have it.
VersionDetected ==
  pc = "serve" => /\ h2 => Agreed = Preface
                  /\ ~h2 /\ Agreed = Preface => ~open /\ sent < base + Preface

\* Nobody is refused but a client whose bytes have a whole magic and fill the
\* buffer, wherever the reads divide them: a connection without the protocol is
\* passed on, however much of it has come before it is told from a magic.
RefusedOnlyWhenFull ==
  pc = "refused" => /\ stream.want > 0 /\ stream.magic = stream.want
                    /\ sent >= Max

\* Enough has been sent to tell what the connection is: a byte that belongs to
\* no magic, or all of a header; and then a byte that does not belong to the
\* preface, or all of it.
Telling ==
  LET start == IF Proxied THEN stream.size ELSE 0
      like == IF start = 0 THEN stream.front ELSE stream.inner
  IN /\ sent > stream.magic \/ (stream.magic = stream.want /\ stream.want > 0)
     /\ stream.magic = stream.want /\ stream.want > 0 => sent >= stream.size
     /\ sent >= start + Least(like + 1, Preface)

\* A connection that can be told is not kept waiting for bytes that the client
\* has no reason to send.
ConnectionsDecided == Telling ~> Decided

\* "If a connection does not use the PROXY protocol, it's passed through
\* unchanged": also one that ends early.
PassedThrough == ~open /\ ~Proxied ~> pc \in {"serve", "failed"}

\* What the service has read so far agrees with the magic; the parser has
\* asked for every further read.
ReadingInv ==
  /\ pc \in {"first", "parse", "read"} =>
       base = 0 /\ source = FALSE /\ seen = 0 /\ h2 = FALSE
  /\ pc = "first" => pos = 0
  /\ pc \in {"parse", "read"} => pos > 0 /\ BeginsLike(pos)
  /\ pc = "read" => Short

\* What the detector has read so far agrees with the preface.
DetectingInv == pc = "detect" => seen <= Agreed /\ base + seen <= sent

IInv == TypeOK /\ ReadingInv /\ DetectingInv /\ HeaderTakenOff /\ VersionDetected
=============================================================================
