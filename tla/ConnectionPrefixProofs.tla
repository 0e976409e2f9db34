----------------------- MODULE ConnectionPrefixProofs -----------------------
(***************************************************************************)
(* Proofs about ConnectionPrefix, for all streams, any size of the header  *)
(* buffer and any length of the preface.                                   *)
(***************************************************************************)
EXTENDS ConnectionPrefix, TLAPS

-----------------------------------------------------------------------------
(* Types of the constants and variables, as numbers.                       *)

\* The numbers of a stream, and their bounds.
LEMMA StreamFacts ==
  ASSUME stream \in Streams
  PROVE  /\ stream.want \in Nat /\ stream.want <= Max /\ stream.magic \in Nat
         /\ stream.size \in Nat /\ stream.total \in Nat
         /\ stream.front \in Nat /\ stream.front <= Preface
         /\ stream.inner \in Nat /\ stream.inner <= Preface
         /\ stream.magic <= stream.want
         /\ Max \in Nat /\ Preface \in Nat /\ Preface > 0
<1>1. stream \in Stream /\ stream.magic <= stream.want
  BY PrefixAssumption
<1>2. Max \in Nat /\ Preface \in Nat /\ Preface > 0
  BY PrefixAssumption
<1> QED
  BY <1>1, <1>2 DEF Stream

\* What the type invariant says of the numbers.
LEMMA TypeFacts ==
  ASSUME TypeOK
  PROVE  /\ sent \in Nat /\ pos \in Nat /\ base \in Nat /\ seen \in Nat
         /\ pos <= sent /\ pos <= Max /\ base <= pos /\ seen <= Preface
         /\ sent <= stream.total
         /\ Agreed \in Nat /\ Agreed <= Preface
<1>1. stream \in Streams
  BY DEF TypeOK
<1>2. sent \in Nat /\ sent <= stream.total
  BY <1>1, StreamFacts DEF TypeOK
<1>3. pos \in Nat /\ pos <= sent /\ pos <= Max
  BY <1>1, <1>2, StreamFacts DEF TypeOK, Least
<1> QED
  BY <1>1, <1>2, <1>3, StreamFacts DEF TypeOK, Agreed

\* A number that both bound is within the lesser one.
LEMMA WithinLeast ==
  ASSUME NEW k \in Nat, NEW m \in Nat, NEW n \in Nat, k <= m, k <= n
  PROVE  k \in 0..Least(m, n)
BY DEF Least

-----------------------------------------------------------------------------
(* The client.                                                             *)

\* The initial states satisfy the invariant.
LEMMA InvInit == Init => IInv
<1> SUFFICES ASSUME Init PROVE IInv
  OBVIOUS
<1>1. stream \in Streams
  BY DEF Init
<1>2. 0 \in 0..Least(sent, Max)
  BY <1>1, StreamFacts, WithinLeast DEF Init
<1>3. TypeOK
  <2>1. stream.total \in Nat /\ Preface \in Nat
    BY <1>1, StreamFacts
  <2>2. 0 \in 0..stream.total /\ 0 \in 0..Preface /\ 0 \in 0..0
    BY <2>1
  <2>3. pos \in 0..Least(sent, Max)
    BY <1>2 DEF Init
  <2> QED
    BY <1>1, <2>2, <2>3 DEF Init, TypeOK
<1>4. ReadingInv
  BY DEF Init, ReadingInv
<1>5. DetectingInv /\ HeaderTakenOff /\ VersionDetected
  BY DEF Init, DetectingInv, HeaderTakenOff, VersionDetected
<1> QED
  BY <1>3, <1>4, <1>5 DEF IInv

\* More bytes arrive: what has been read stays read.
LEMMA InvSend == IInv /\ Send => IInv'
<1> SUFFICES ASSUME IInv, Send PROVE IInv'
  OBVIOUS
<1>1. /\ stream \in Streams /\ stream' = stream /\ open = TRUE
      /\ UNCHANGED <<open, pc, pos, base, source, seen, h2>>
  BY DEF Send, IInv, TypeOK
<1>2. sent' \in 0..stream.total /\ sent' \in Nat /\ sent < sent'
  BY <1>1, TypeFacts, StreamFacts DEF Send, IInv
<1>3. pos \in 0..Least(sent', Max)
  BY <1>1, <1>2, TypeFacts, StreamFacts, WithinLeast DEF IInv
<1>4. TypeOK'
  BY <1>1, <1>2, <1>3 DEF IInv, TypeOK
<1>5. ReadingInv' /\ HeaderTakenOff'
  BY <1>1 DEF IInv, ReadingInv, BeginsLike, Short, HeaderTakenOff, Proxied
<1>6. DetectingInv'
  BY <1>1, <1>2, TypeFacts DEF IInv, DetectingInv, Agreed
<1>7. VersionDetected'
  BY <1>1 DEF IInv, VersionDetected, Agreed
<1> QED
  BY <1>4, <1>5, <1>6, <1>7 DEF IInv

\* The client closes.
LEMMA InvClose == IInv /\ Close => IInv'
<1> SUFFICES ASSUME IInv, Close PROVE IInv'
  OBVIOUS
<1>1. TypeOK'
  BY DEF Close, IInv, TypeOK
<1>2. ReadingInv' /\ HeaderTakenOff'
  BY DEF Close, IInv, ReadingInv, BeginsLike, Short, HeaderTakenOff, Proxied
<1>3. DetectingInv' /\ VersionDetected'
  BY DEF Close, IInv, DetectingInv, VersionDetected, Agreed
<1> QED
  BY <1>1, <1>2, <1>3 DEF IInv

-----------------------------------------------------------------------------
(* ProxyProtocolService.                                                   *)

\* The inner service is called with what begins at byte n.
LEMMA InvInner ==
  ASSUME IInv, NEW n \in Nat, NEW s \in BOOLEAN, Inner(n, s),
         pc \in {"first", "parse", "read"},
         UNCHANGED <<clientVars, seen, h2>>,
         pos' \in Nat, pos' <= sent, pos' <= Max, n <= pos',
         n = IF Proxied THEN stream.size ELSE 0,
         s <=> Proxied /\ stream.kind = "source"
  PROVE  IInv'
<1>1. /\ stream \in Streams /\ seen = 0 /\ h2 = FALSE
      /\ pc' = "detect" /\ base' = n /\ source' = s
      /\ stream' = stream /\ sent' = sent /\ open' = open /\ seen' = 0 /\ h2' = FALSE
  BY DEF IInv, TypeOK, ReadingInv, Inner, clientVars
<1>2. pos' \in 0..Least(sent', Max)
  BY <1>1, TypeFacts, StreamFacts, WithinLeast DEF IInv
<1>3. base' \in 0..pos'
  BY <1>1
<1>4. TypeOK'
  BY <1>1, <1>2, <1>3 DEF IInv, TypeOK
<1>5. HeaderTakenOff'
  BY <1>1 DEF HeaderTakenOff, Proxied
<1>6. Agreed' \in Nat
  BY <1>1, StreamFacts DEF Agreed
<1>7. DetectingInv'
  BY <1>1, <1>6, TypeFacts DEF DetectingInv, IInv
<1> QED
  BY <1>1, <1>4, <1>5, <1>7 DEF IInv, ReadingInv, VersionDetected

\* The service goes on reading a header that agrees so far.
LEMMA InvReading ==
  ASSUME IInv, pc \in {"first", "parse", "read"},
         UNCHANGED <<clientVars, base, source, seen, h2>>,
         pc' \in {"parse", "refused"},
         pos' \in Nat, pos' > 0, pos' <= sent, pos' <= Max, BeginsLike(pos')
  PROVE  IInv'
<1>1. /\ stream \in Streams /\ base = 0 /\ source = FALSE /\ seen = 0 /\ h2 = FALSE
      /\ stream' = stream /\ sent' = sent /\ open' = open
      /\ base' = 0 /\ source' = FALSE /\ seen' = 0 /\ h2' = FALSE
  BY DEF IInv, TypeOK, ReadingInv, clientVars
<1>2. pos' \in 0..Least(sent', Max)
  BY <1>1, TypeFacts, StreamFacts, WithinLeast DEF IInv
<1>3. base' \in 0..pos'
  BY <1>1
<1>4. TypeOK'
  BY <1>1, <1>2, <1>3 DEF IInv, TypeOK
<1>5. ReadingInv'
  BY <1>1 DEF ReadingInv, BeginsLike
<1> QED
  BY <1>4, <1>5 DEF IInv, DetectingInv, HeaderTakenOff, VersionDetected

\* The first bytes are compared with a magic, and read on or passed on.
LEMMA InvFirstRead == IInv /\ FirstRead => IInv'
<1> SUFFICES ASSUME IInv, FirstRead PROVE IInv'
  OBVIOUS
<1>1. PICK n \in 1..Least(sent, Max) :
        /\ pos' = n
        /\ IF BeginsLike(n)
           THEN pc' = "parse" /\ UNCHANGED <<base, source>>
           ELSE Inner(0, FALSE)
  BY DEF FirstRead
<1>2. stream \in Streams /\ pc = "first" /\ UNCHANGED <<clientVars, seen, h2>>
  BY DEF FirstRead, IInv, TypeOK
<1>3. n \in Nat /\ n > 0 /\ n <= sent /\ n <= Max
  BY <1>2, TypeFacts, StreamFacts DEF IInv, Least
<1>4. CASE BeginsLike(n)
  BY <1>1, <1>2, <1>3, <1>4, InvReading
<1>5. CASE ~BeginsLike(n)
  <2>1. ~Proxied
    BY <1>2, <1>3, <1>5, StreamFacts DEF BeginsLike, Proxied, Least
  <2> QED
    <3>1. Inner(0, FALSE)
      BY <1>1, <1>5
    <3>2. pos' \in Nat /\ pos' <= sent /\ pos' <= Max /\ 0 <= pos'
      BY <1>1, <1>3
    <3>3. /\ 0 = IF Proxied THEN stream.size ELSE 0
          /\ FALSE <=> Proxied /\ stream.kind = "source"
      BY <2>1
    <3> QED
      BY <1>2, <3>1, <3>2, <3>3, InvInner
<1> QED
  BY <1>4, <1>5

\* A header parses, or it does not, or more is read.
LEMMA InvParse == IInv /\ Parse => IInv'
<1> SUFFICES ASSUME IInv, Parse PROVE IInv'
  OBVIOUS
<1>1. stream \in Streams /\ pc = "parse" /\ UNCHANGED <<clientVars, pos, seen, h2>>
  BY DEF Parse, IInv, TypeOK
<1>2. pos \in Nat /\ pos <= sent /\ pos <= Max
  BY TypeFacts DEF IInv
<1>3. CASE Short
  BY <1>1, <1>3
  DEF Parse, IInv, TypeOK, ReadingInv, BeginsLike, Short, DetectingInv,
      HeaderTakenOff, VersionDetected, clientVars
<1>4. CASE ~Short
  <2>1. stream.want > 0
    BY <1>1 DEF IInv, ReadingInv, BeginsLike
  <2>2. stream.magic = stream.want /\ stream.size <= pos
    BY <1>1, <1>2, <1>4, StreamFacts DEF Short
  <2>3. CASE stream.kind = "bad"
    <3>1. Inner(0, FALSE)
      BY <1>4, <2>3 DEF Parse
    <3>2. pos' \in Nat /\ pos' <= sent /\ pos' <= Max /\ 0 <= pos'
      BY <1>1, <1>2
    <3>3. /\ 0 = IF Proxied THEN stream.size ELSE 0
          /\ FALSE <=> Proxied /\ stream.kind = "source"
      BY <2>3 DEF Proxied
    <3> QED
      BY <1>1, <3>1, <3>2, <3>3, InvInner
  <2>4. CASE stream.kind # "bad"
    <3>1. Proxied
      BY <2>1, <2>2, <2>4 DEF Proxied
    <3>2. Inner(stream.size, stream.kind = "source")
      BY <1>4, <2>4 DEF Parse
    <3>3. stream.size \in Nat /\ (stream.kind = "source") \in BOOLEAN
      BY <1>1, StreamFacts
    <3>4. pos' \in Nat /\ pos' <= sent /\ pos' <= Max /\ stream.size <= pos'
      BY <1>1, <1>2, <2>2
    <3> QED
      BY <1>1, <3>1, <3>2, <3>3, <3>4, InvInner
  <2> QED
    BY <2>3, <2>4
<1> QED
  BY <1>3, <1>4

\* More is read, and what belongs to the magic is compared.
LEMMA InvReadMore == IInv /\ ReadMore => IInv'
<1> SUFFICES ASSUME IInv, ReadMore PROVE IInv'
  OBVIOUS
<1>1. PICK n \in Reads :
        /\ pos' = pos + n
        /\ IF pos < stream.want /\ stream.magic < Least(stream.want, pos + n)
           THEN Inner(0, FALSE)
           ELSE /\ pc' = IF pos' = Max THEN "refused" ELSE "parse"
                /\ UNCHANGED <<base, source>>
  BY DEF ReadMore
<1>2. /\ stream \in Streams /\ pc = "read" /\ UNCHANGED <<clientVars, seen, h2>>
      /\ pos \in Nat /\ pos > 0 /\ pos <= sent /\ pos <= Max /\ sent \in Nat
  BY TypeFacts DEF ReadMore, IInv, TypeOK, ReadingInv
<1>3. n \in Nat /\ pos + n \in Nat /\ pos + n > 0 /\ pos + n <= sent /\ pos + n <= Max
  <2>1. sent - pos \in Nat /\ Max - pos \in Nat
    BY <1>2, StreamFacts
  <2>2. n \in 0..Least(sent - pos, Max - pos)
    BY DEF Reads
  <2> QED
    BY <1>2, <2>1, <2>2, StreamFacts DEF Least
<1>4. stream.want > 0 /\ stream.magic >= Least(pos, stream.want)
  BY <1>2 DEF IInv, ReadingInv, BeginsLike
<1>5. CASE pos < stream.want /\ stream.magic < Least(stream.want, pos + n)
  <2>1. ~Proxied
    BY <1>2, <1>3, <1>5, StreamFacts DEF Proxied, Least
  <2> QED
    <3>1. Inner(0, FALSE)
      BY <1>1, <1>5
    <3>2. pos' \in Nat /\ pos' <= sent /\ pos' <= Max /\ 0 <= pos'
      BY <1>1, <1>3
    <3>3. /\ 0 = IF Proxied THEN stream.size ELSE 0
          /\ FALSE <=> Proxied /\ stream.kind = "source"
      BY <2>1
    <3> QED
      BY <1>2, <3>1, <3>2, <3>3, InvInner
<1>6. CASE ~(pos < stream.want /\ stream.magic < Least(stream.want, pos + n))
  <2>1. BeginsLike(pos + n)
    BY <1>2, <1>3, <1>4, <1>6, StreamFacts DEF BeginsLike, Least
  <2> QED
    BY <1>1, <1>2, <1>3, <1>6, <2>1, InvReading
<1> QED
  BY <1>5, <1>6

-----------------------------------------------------------------------------
(* PrefixDetector.                                                         *)

\* More of the preface is read and compared.
LEMMA InvDetectSome == IInv /\ DetectSome => IInv'
<1> SUFFICES ASSUME IInv, DetectSome PROVE IInv'
  OBVIOUS
<1>1. PICK n \in (seen + 1)..Least(Preface, sent - base) :
        IF n > Agreed
        THEN Detected(n, FALSE)
        ELSE seen' = n /\ UNCHANGED <<clientVars, pc, pos, base, source, h2>>
  BY DEF DetectSome
<1>2. /\ pc = "detect" /\ stream \in Streams
      /\ stream' = stream /\ sent' = sent /\ open' = open /\ pos' = pos
      /\ base' = base /\ source' = source /\ seen' = n
  BY <1>1 DEF DetectSome, Detected, clientVars, IInv, TypeOK
<1>3. n \in Nat /\ n <= Preface /\ base + n <= sent
  <2>1. sent - base \in Nat
    BY TypeFacts DEF IInv
  <2> QED
    BY <1>2, <2>1, TypeFacts, StreamFacts DEF IInv, Least
<1>4. Agreed \in Nat /\ Agreed <= Preface /\ Agreed' = Agreed
  BY <1>2, TypeFacts DEF IInv, Agreed
<1>5. seen' \in 0..Preface
  BY <1>2, <1>3, StreamFacts
<1>6. HeaderTakenOff /\ TypeOK
  BY DEF IInv
<1>7. CASE n > Agreed
  <2>1. pc' = "serve" /\ h2' = FALSE
    BY <1>1, <1>7 DEF Detected
  <2>2. TypeOK'
    BY <1>2, <1>5, <1>6, <2>1 DEF TypeOK
  <2>3. HeaderTakenOff'
    BY <1>2, <1>6, <2>1 DEF HeaderTakenOff, Proxied
  <2>4. VersionDetected'
    BY <1>3, <1>4, <1>7, <2>1, StreamFacts, <1>2 DEF VersionDetected
  <2> QED
    BY <2>1, <2>2, <2>3, <2>4 DEF IInv, ReadingInv, DetectingInv
<1>8. CASE ~(n > Agreed)
  <2>1. pc' = pc /\ h2' = h2
    BY <1>1, <1>8
  <2>2. TypeOK'
    BY <1>2, <1>5, <1>6, <2>1 DEF TypeOK
  <2>3. HeaderTakenOff'
    BY <1>2, <1>6, <2>1 DEF HeaderTakenOff, Proxied
  <2>4. DetectingInv'
    BY <1>2, <1>3, <1>4, <1>8 DEF DetectingInv
  <2> QED
    BY <1>2, <2>1, <2>2, <2>3, <2>4 DEF IInv, ReadingInv, VersionDetected
<1> QED
  BY <1>7, <1>8

\* The preface is complete, or will never be.
LEMMA InvDetectEnds == IInv /\ DetectEnds => IInv'
<1> SUFFICES ASSUME IInv, DetectEnds PROVE IInv'
  OBVIOUS
<1>1. /\ pc = "detect" /\ pc' = "serve" /\ stream \in Streams
      /\ stream' = stream /\ sent' = sent /\ open' = open /\ pos' = pos
      /\ base' = base /\ source' = source /\ seen' = seen
      /\ h2' = (seen = Preface)
      /\ seen = Preface \/ (~open /\ sent = base + seen)
  BY DEF DetectEnds, Detected, clientVars, IInv, TypeOK
<1>2. Agreed \in Nat /\ Agreed <= Preface /\ Agreed' = Agreed /\ seen <= Agreed
  BY <1>1, TypeFacts DEF IInv, Agreed, DetectingInv
<1>3. TypeOK'
  BY <1>1 DEF IInv, TypeOK
<1>4. HeaderTakenOff'
  BY <1>1 DEF IInv, HeaderTakenOff, Proxied
<1>5. VersionDetected'
  <2>1. h2' <=> seen = Preface
    BY <1>1, Zenon
  <2>2. seen = Preface => Agreed' = Preface
    BY <1>1, <1>2, StreamFacts
  <2>3. seen # Preface => ~open' /\ sent' < base' + Preface
    BY <1>1, TypeFacts, StreamFacts DEF IInv
  <2> QED
    BY <2>1, <2>2, <2>3 DEF VersionDetected
<1> QED
  BY <1>1, <1>3, <1>4, <1>5 DEF IInv, ReadingInv, DetectingInv

\* A connection that fails or panics is not served.
LEMMA InvStops == IInv /\ (FirstByteMissing \/ ReadFails) => IInv'
BY DEF FirstByteMissing, ReadFails, IInv, TypeOK, ReadingInv, DetectingInv,
       HeaderTakenOff, VersionDetected, clientVars

\* Every step preserves the invariant.
LEMMA InvNext == IInv /\ [Next]_vars => IInv'
<1> SUFFICES ASSUME IInv, [Next]_vars PROVE IInv'
  OBVIOUS
<1>1. CASE Service
  BY <1>1, InvFirstRead, InvParse, InvReadMore, InvDetectSome, InvDetectEnds, InvStops
  DEF Service
<1>2. CASE UNCHANGED vars
  BY <1>2 DEF vars, clientVars, IInv, TypeOK, ReadingInv, BeginsLike, Short,
              DetectingInv, HeaderTakenOff, Proxied, VersionDetected, Agreed
<1> QED
  BY <1>1, <1>2, InvSend, InvClose, InvStops DEF Next, Over

-----------------------------------------------------------------------------
(* The theorems.                                                           *)

\* The inductive invariant: what has been read agrees with what it is taken
\* for so far.
THEOREM InvariantCorrect == Spec => []IInv
<1> QED
  BY InvInit, InvNext, PTL DEF Spec

\* The variables have their types, and the buffers hold what fits.
THEOREM TypeCorrect == Spec => []TypeOK
<1>1. IInv => TypeOK
  BY DEF IInv
<1> QED
  BY <1>1, InvariantCorrect, PTL

\* In whatever pieces it arrives, a connection is passed on from behind its
\* PROXY header, or from its first byte.
THEOREM HeaderIsTakenOff == Spec => []HeaderTakenOff
<1>1. IInv => HeaderTakenOff
  BY DEF IInv
<1> QED
  BY <1>1, InvariantCorrect, PTL

\* HTTP/2 is spoken to those who sent its preface, all of it.
THEOREM VersionIsDetected == Spec => []VersionDetected
<1>1. IInv => VersionDetected
  BY DEF IInv
<1> QED
  BY <1>1, InvariantCorrect, PTL

\* The one step that refuses a connection has read all that the buffer holds,
\* and what was read agrees with a magic that is not longer than it.
LEMMA RefusedStep ==
  ASSUME IInv, RefusedOnlyWhenFull, [Next]_vars
  PROVE  RefusedOnlyWhenFull'
<1>0. stream \in Streams /\ sent \in Nat /\ pos \in Nat
  BY TypeFacts DEF IInv, TypeOK
<1>1. CASE ReadMore
  <2>1. PICK n \in Reads :
          /\ pos' = pos + n
          /\ IF pos < stream.want /\ stream.magic < Least(stream.want, pos + n)
             THEN Inner(0, FALSE)
             ELSE /\ pc' = IF pos' = Max THEN "refused" ELSE "parse"
                  /\ UNCHANGED <<base, source>>
    BY <1>1 DEF ReadMore
  <2>2. pc = "read" /\ UNCHANGED <<stream, sent>>
    BY <1>1 DEF ReadMore, clientVars
  <2>3. SUFFICES ASSUME pc' = "refused"
                 PROVE  stream.want > 0 /\ stream.magic = stream.want /\ sent >= Max
    BY <2>2 DEF RefusedOnlyWhenFull
  <2>4. /\ pos + n = Max
        /\ ~(pos < stream.want /\ stream.magic < Least(stream.want, pos + n))
    BY <2>1, <2>3 DEF Inner
  <2>5. stream.want > 0 /\ stream.magic >= Least(pos, stream.want)
    BY <2>2 DEF IInv, ReadingInv, BeginsLike
  <2>6. stream.magic = stream.want
    BY <1>0, <2>4, <2>5, StreamFacts DEF Least
  <2>7. sent' \in Nat /\ pos' <= sent'
    BY <1>0, <2>1, <2>2, TypeFacts, StreamFacts DEF IInv, Reads, Least
  <2> QED
    BY <2>1, <2>2, <2>4, <2>5, <2>6, <2>7, <1>0, StreamFacts
<1>2. CASE Send
  <2>1. sent' \in Nat /\ sent' >= sent /\ UNCHANGED <<stream, pc>>
    BY <1>0, <1>2, StreamFacts DEF Send
  <2>2. Max \in Nat
    BY <1>0, StreamFacts
  <2> QED
    BY <1>0, <2>1, <2>2 DEF RefusedOnlyWhenFull
<1>3. CASE pc' # "refused"
  BY <1>3 DEF RefusedOnlyWhenFull
<1>4. CASE UNCHANGED <<stream, sent, pc>>
  BY <1>4 DEF RefusedOnlyWhenFull
<1>5. CASE FirstRead \/ FirstByteMissing \/ Parse \/ DetectSome \/ DetectEnds \/ ReadFails
  BY <1>3, <1>4, <1>5 DEF FirstRead, FirstByteMissing, Parse, DetectSome, DetectEnds, ReadFails,
                          Detected, Inner, clientVars
<1> QED
  BY <1>1, <1>2, <1>4, <1>5 DEF Next, Service, Close, Over, vars, clientVars

\* The protocol's own limit is the only reason to refuse a connection, for any
\* fragmentation and any size of the buffer.
THEOREM RefusalsAreFull == Spec => []RefusedOnlyWhenFull
<1>1. Init => RefusedOnlyWhenFull
  BY DEF Init, RefusedOnlyWhenFull
<1>2. IInv /\ RefusedOnlyWhenFull /\ [Next]_vars => RefusedOnlyWhenFull'
  BY RefusedStep
<1> QED
  BY <1>1, <1>2, InvariantCorrect, PTL DEF Spec
=============================================================================
