----------------------- MODULE RegistrySession_proofs -----------------------
(***************************************************************************)
(* Proofs about RegistrySession, in three parts that build on each other.  *)
(* The deadline and the socket: only the handshake of _websocket_commands  *)
(* can hold a timeout that is not the deadline. The stream: what was read, *)
(* what has come and what is on its way are together what the server said, *)
(* and it said nothing of a command under another's id. The handshake:     *)
(* what is read is messages, and the access in progress tells which.       *)
(***************************************************************************)
EXTENDS RegistrySession, SequenceTheorems, TLAPS

OpenPoints == {"connect", "handshake", "headers"} \cup Hearing

TimeInv ==
  /\ at \in {"lookup"} \cup OpenPoints \cup Ended
  /\ now \in Nat /\ until \in Nat /\ timeout \in Nat
  /\ timeout <= Deadline
  /\ now <= until /\ Deadline <= until /\ until < 2 * Deadline
  /\ at = "connect" => Deadline <= now + timeout
  /\ until # Deadline => ~display /\ at \in {"handshake", "failed"}
  /\ sockets = IF at \in OpenPoints THEN 1 ELSE 0

\* What a call of _remaining decides: the next access, until the deadline, or
\* the end of the session.
LEMMA AwaitKeeps ==
  ASSUME TimeInv, at \in OpenPoints, NEW point \in OpenPoints, Await(point),
         UNCHANGED modeVars
  PROVE  TimeInv'
<1>1. CASE InTime
  BY <1>1, SessionAssumption DEF TimeInv, Await, InTime, OpenPoints, Hearing, Ended, modeVars
<1>2. CASE ~InTime
  BY <1>2, SessionAssumption
  DEF TimeInv, Await, InTime, Fail, Close, OpenPoints, Hearing, Ended, modeVars, clockVars
<1> QED BY <1>1, <1>2

\* A session that ends closes its socket and leaves the clock alone.
LEMMA CloseKeeps ==
  ASSUME TimeInv, NEW how \in Ended, Close(how), UNCHANGED modeVars,
         how = "done" => until = Deadline
  PROVE  TimeInv'
BY DEF TimeInv, Close, OpenPoints, Hearing, Ended, modeVars, clockVars

\* A message of the server moves the session on as _remaining allows.
LEMMA GatherKeeps ==
  ASSUME TimeInv, at \in Hearing, NEW cells, Gather(cells), UNCHANGED modeVars
  PROVE  TimeInv'
<1> USE DEF Hearing
<1>1. at \in OpenPoints BY DEF OpenPoints
<1>2. CASE Await(at)
  BY <1>1, <1>2, AwaitKeeps
<1>3. CASE Hear(cells[1][1])
  <2>1. CASE Fail
    BY <2>1, CloseKeeps DEF Fail, Ended
  <2>2. CASE Await("auth") \/ Await("result")
    BY <1>1, <2>2, AwaitKeeps DEF OpenPoints
  <2>3. CASE Close("done")
    BY <2>3, CloseKeeps DEF Ended, TimeInv
  <2> QED BY <1>3, <2>1, <2>2, <2>3 DEF Hear, SendCommand, Send
<1> QED BY <1>2, <1>3 DEF Gather

\* Every step keeps the timeouts, the clock and the socket in order.
LEMMA TimeStep ==
  ASSUME TimeInv, [SessionNext]_sessionVars
  PROVE  TimeInv'
<1> USE SessionAssumption DEF Hearing
<1>1. CASE Lookup
  <2>1. CASE Fail
    BY <1>1, <2>1, CloseKeeps DEF Lookup, Fail, Ended
  <2>2. CASE ~Fail
    BY <1>1, <2>2 DEF Lookup, TimeInv, InTime, OpenPoints, Ended, modeVars
  <2> QED BY <2>1, <2>2
<1>2. CASE Refused
  <2>1. CASE Fail
    BY <1>2, <2>1, CloseKeeps DEF Refused, Fail, Ended
  <2>2. CASE left > 0 /\ InTime
    BY <1>2, <2>2 DEF Refused, TimeInv, InTime, OpenPoints, Ended, modeVars
  <2> QED BY <1>2, <2>1, <2>2 DEF Refused
<1>3. CASE Connected
  <2> at = "connect" /\ at \in OpenPoints /\ UNCHANGED modeVars
    BY <1>3 DEF Connected, OpenPoints
  <2>1. CASE Fail
    BY <2>1, CloseKeeps DEF Fail, Ended
  <2>2. CASE Await("handshake") \/ Await("headers")
    BY <2>2, AwaitKeeps DEF OpenPoints
  <2>3. CASE InTime /\ ~display /\ BeginHandshake
    BY <2>3 DEF BeginHandshake, TimeInv, InTime, OpenPoints, Ended, modeVars
  <2> QED BY <1>3, <2>1, <2>2, <2>3 DEF Connected, BeginHandshake, Send
<1>4. CASE Handshake
  <2>1. CASE Fail
    BY <1>4, <2>1, CloseKeeps DEF Handshake, Fail, Ended
  <2>2. CASE Await("headers")
    BY <1>4, <2>2, AwaitKeeps DEF Handshake, OpenPoints
  <2> QED BY <1>4, <2>1, <2>2 DEF Handshake, Send
<1>5. CASE ReceiveHeaders
  <2> at = "headers" /\ at \in OpenPoints /\ UNCHANGED modeVars
    BY <1>5 DEF ReceiveHeaders, OpenPoints
  <2>1. CASE Fail
    BY <2>1, CloseKeeps DEF Fail, Ended
  <2>2. CASE Await("headers") \/ Await("welcome")
    BY <2>2, AwaitKeeps DEF OpenPoints
  <2>3. CASE at' = "welcome" /\ UNCHANGED <<clockVars, left, sockets>>
    BY <2>3 DEF TimeInv, OpenPoints, Ended, clockVars, modeVars
  <2> QED BY <1>5, <2>1, <2>2, <2>3 DEF ReceiveHeaders, Listen
<1>6. CASE ReadBuffered
  BY <1>6, GatherKeeps DEF ReadBuffered
<1>7. CASE ReceiveFrame
  BY <1>7, GatherKeeps DEF ReceiveFrame
<1>8. CASE Tick
  BY <1>8 DEF Tick, TimeInv, OpenPoints, Ended, modeVars, socketVars
<1>9. CASE TimesOut
  BY <1>9, CloseKeeps DEF TimesOut, Fail, Ended
<1>10. CASE Breaks
  BY <1>10, CloseKeeps DEF Breaks, Fail, Ended
<1>11. CASE Say
  BY <1>11 DEF Say, TimeInv, OpenPoints, Ended, modeVars, clockVars, socketVars
<1>12. CASE UNCHANGED sessionVars
  BY <1>12 DEF TimeInv, OpenPoints, Ended, sessionVars, modeVars, clockVars, socketVars
<1> QED
  BY <1>1, <1>2, <1>3, <1>4, <1>5, <1>6, <1>7, <1>8, <1>9, <1>10, <1>11, <1>12
  DEF SessionNext

\* Timeouts, clock and socket are in order in every session.
THEOREM SessionInvariance == SessionSpec => []TimeInv
<1>1. SessionInit => TimeInv
  BY SessionAssumption DEF SessionInit, TimeInv, OpenPoints, Hearing, Ended
<1>2. TimeInv /\ [SessionNext]_sessionVars => TimeInv'
  BY TimeStep
<1> QED BY <1>1, <1>2, PTL DEF SessionSpec

\* The discovery ends by its deadline, and the registry commands pass it by
\* less than its length, in the handshake alone (live.py, _connect and the
\* two callers of it).
THEOREM DeadlineIsKept == SessionSpec => []EndsInTime
<1>1. TimeInv => EndsInTime
  BY SessionAssumption DEF TimeInv, EndsInTime
<1> QED BY <1>1, SessionInvariance, PTL

\* A session that has ended has no open socket, and none has two.
THEOREM SocketsStayClosed == SessionSpec => []SocketsClosed
<1>1. TimeInv => SocketsClosed
  BY DEF TimeInv, SocketsClosed, OpenPoints, Hearing, Ended
<1> QED BY <1>1, SessionInvariance, PTL

\* Neither the token nor a command is sent after the deadline.
THEOREM NothingIsLate == SessionSpec => NothingSentLate
<1>1. ASSUME [SessionNext]_sessionVars
      PROVE  [outbox' # outbox => now < Deadline]_sessionVars
  <2> SUFFICES ASSUME outbox' # outbox PROVE now < Deadline
    OBVIOUS
  <2>1. ASSUME NEW what, NEW point, Send(what, point) PROVE now < Deadline
    BY <2>1 DEF Send, InTime
  <2>2. ASSUME NEW cells, Gather(cells) PROVE now < Deadline
    BY <2>1, <2>2 DEF Gather, Hear, SendCommand
  <2>3. CASE Connected
    BY <2>1, <2>3 DEF Connected
  <2>4. CASE Handshake
    BY <2>1, <2>4 DEF Handshake
  <2>5. CASE ReadBuffered \/ ReceiveFrame
    BY <2>2, <2>5 DEF ReadBuffered, ReceiveFrame
  <2> QED
    BY <1>1, <2>3, <2>4, <2>5
    DEF SessionNext, Lookup, Refused, ReceiveHeaders, Tick, TimesOut, Breaks, Say, sessionVars
<1> QED BY <1>1, PTL DEF SessionSpec, NothingSentLate

-----------------------------------------------------------------------------
(* The stream. What the server says of a command is about that command,    *)
(* because every command has an id of its own; and what is read is always  *)
(* what comes next.                                                        *)

Honest      == {m \in Messages : m.type = "result" => m.about = m.id}
Own         == Honest \X {1, 2}
OwnRequests == {r \in Requests : r.what = "command" => r.command = r.id}

\* Nothing has been heard yet.
Unheard == {"lookup", "connect", "handshake", "headers"}

Coming == data \o (buffered \o wire)

StreamInv ==
  /\ sent \in Seq(Own) /\ wire \in Seq(Own) /\ buffered \in Seq(Own)
  /\ data \in Seq(Own) /\ taken \in Seq(Own)
  /\ Len(data) < 2
  /\ outbox \in Seq(OwnRequests)
  /\ at \in Unheard => taken = <<>> /\ buffered = <<>>
  /\ taken \o Coming = sent

\* A sequence that is cut is whole.
LEMMA Cut ==
  ASSUME NEW S, NEW s \in Seq(S), NEW n \in 0..Len(s)
  PROVE  /\ First(s, n) \in Seq(S) /\ Rest(s, n) \in Seq(S)
         /\ Len(First(s, n)) = n /\ First(s, n) \o Rest(s, n) = s
         /\ \A i \in 1..n : First(s, n)[i] = s[i]
<1>1. Len(s) \in Nat /\ n \in Int /\ \A i \in 1..Len(s) : s[i] \in S
  BY LenProperties, ElementOfSeq
<1>2. /\ SubSeq(s, 1, n) \in Seq(S) /\ Len(SubSeq(s, 1, n)) = n
      /\ \A i \in 1..n : SubSeq(s, 1, n)[i] = s[i]
  <2>1. \A i \in 1..n : s[i] \in S
    BY <1>1
  <2>2. /\ SubSeq(s, 1, n) \in Seq(S)
        /\ Len(SubSeq(s, 1, n)) = IF 1 <= n THEN n - 1 + 1 ELSE 0
        /\ \A i \in 1..(n - 1 + 1) : SubSeq(s, 1, n)[i] = s[1 + i - 1]
    BY <1>1, <2>1, SubSeqProperties
  <2> QED BY <1>1, <2>2
<1>3. SubSeq(s, n + 1, Len(s)) \in Seq(S)
  <2>1. \A i \in (n + 1)..Len(s) : s[i] \in S
    BY <1>1
  <2> QED BY <1>1, <2>1, SubSeqProperties
<1>4. SubSeq(s, 1, n) \o SubSeq(s, n + 1, Len(s)) = s
  <2>1. 1 \in 1..(Len(s) + 1) /\ n \in (1 - 1)..Len(s) /\ Len(s) \in n..Len(s)
    BY <1>1
  <2>2. SubSeq(s, 1, n) \o SubSeq(s, n + 1, Len(s)) = SubSeq(s, 1, Len(s))
    BY <2>1, ConcatAdjacentSubSeq
  <2> QED BY <2>2, SubSeqFull
<1> QED BY <1>2, <1>3, <1>4 DEF First, Rest

\* What a step of a reader does to the stream: it has part of a message, or
\* the message c.
Partial ==
  /\ UNCHANGED <<sent, taken>>
  /\ wire' \in Seq(Own) /\ buffered' \in Seq(Own) /\ data' \in Seq(Own) /\ Len(data') < 2
  /\ Coming' = Coming

Whole(c) ==
  /\ c \in Seq(Own) /\ Len(c) = 2
  /\ sent' = sent /\ taken' = taken \o c
  /\ wire' \in Seq(Own) /\ buffered' \in Seq(Own) /\ data' = <<>>
  /\ c \o Coming' = Coming

LEMMA Reads ==
  ASSUME StreamInv, Partial \/ \E c \in Seq(Own) : Whole(c)
  PROVE  /\ sent' \in Seq(Own) /\ wire' \in Seq(Own) /\ buffered' \in Seq(Own)
         /\ data' \in Seq(Own) /\ taken' \in Seq(Own)
         /\ Len(data') < 2 /\ taken' \o Coming' = sent'
<1>1. CASE Partial
  BY <1>1 DEF Partial, StreamInv
<1>2. ASSUME NEW c \in Seq(Own), Whole(c)
      PROVE  /\ sent' \in Seq(Own) /\ data' \in Seq(Own) /\ taken' \in Seq(Own)
             /\ wire' \in Seq(Own) /\ buffered' \in Seq(Own)
             /\ Len(data') < 2 /\ taken' \o Coming' = sent'
  <2>1. /\ data' \in Seq(Own) /\ data' = <<>> /\ Len(data') = 0
        /\ taken' = taken \o c /\ taken' \in Seq(Own)
        /\ wire' \in Seq(Own) /\ buffered' \in Seq(Own)
    BY <1>2, EmptySeq, ConcatProperties DEF Whole, StreamInv
  <2>2. buffered' \o wire' \in Seq(Own) /\ Coming' \in Seq(Own)
    BY <2>1, ConcatProperties DEF Coming
  <2>3. taken' \o Coming' = taken \o (c \o Coming')
    <3>1. \A s, t, u \in Seq(Own) : (s \o t) \o u = s \o (t \o u)
      BY ConcatAssociative
    <3>2. taken \in Seq(Own)
      BY DEF StreamInv
    <3> QED BY <2>1, <2>2, <3>1, <3>2
  <2> QED BY <1>2, <2>1, <2>3 DEF Whole, StreamInv
<1> QED BY <1>1, <1>2

\* The laws of sequences, for those of cells.
LEMMA OwnCut ==
  \A s \in Seq(Own) : \A n \in 0..Len(s) :
    /\ First(s, n) \in Seq(Own) /\ Rest(s, n) \in Seq(Own)
    /\ Len(First(s, n)) = n /\ First(s, n) \o Rest(s, n) = s
    /\ \A i \in 1..n : First(s, n)[i] = s[i]
BY Cut

LEMMA OwnConcat ==
  /\ \A s, t \in Seq(Own) : s \o t \in Seq(Own) /\ Len(s \o t) = Len(s) + Len(t)
  /\ \A s, t, u \in Seq(Own) : (s \o t) \o u = s \o (t \o u)
BY ConcatProperties, ConcatAssociative

LEMMA Empty ==
  ASSUME NEW S
  PROVE  /\ <<>> \in Seq(S) /\ Len(<<>>) = 0
         /\ \A s \in Seq(S) : s \o <<>> = s /\ <<>> \o s = s
BY EmptySeq, ConcatEmptySeq

\* A reader takes the first n cells of b, and puts them behind d.
LEMMA Gathered ==
  \A d, b, w \in Seq(Own) : \A n \in 0..Len(b) :
    /\ d \o First(b, n) \in Seq(Own) /\ Rest(b, n) \in Seq(Own)
    /\ Len(d \o First(b, n)) = Len(d) + n
    /\ (d \o First(b, n)) \o (Rest(b, n) \o w) = d \o (b \o w)
<1> SUFFICES ASSUME NEW d \in Seq(Own), NEW b \in Seq(Own), NEW w \in Seq(Own), NEW n \in 0..Len(b)
             PROVE  /\ d \o First(b, n) \in Seq(Own) /\ Rest(b, n) \in Seq(Own)
                    /\ Len(d \o First(b, n)) = Len(d) + n
                    /\ (d \o First(b, n)) \o (Rest(b, n) \o w) = d \o (b \o w)
  BY Zenon
<1>1. /\ First(b, n) \in Seq(Own) /\ Rest(b, n) \in Seq(Own) /\ Len(First(b, n)) = n
      /\ First(b, n) \o Rest(b, n) = b
  BY OwnCut, Zenon
<1>2. /\ d \o First(b, n) \in Seq(Own)
      /\ Len(d \o First(b, n)) = Len(d) + Len(First(b, n))
  BY <1>1, OwnConcat, Zenon
<1>3. (d \o First(b, n)) \o (Rest(b, n) \o w) = d \o ((First(b, n) \o Rest(b, n)) \o w)
  <2>1. First(b, n) \in Seq(Own) /\ Rest(b, n) \in Seq(Own)
    BY <1>1
  <2>2. Rest(b, n) \o w \in Seq(Own)
    BY <2>1, OwnConcat, Zenon
  <2>3. \A s, t, u \in Seq(Own) : (s \o t) \o u = s \o (t \o u)
    BY OwnConcat
  <2>4. (d \o First(b, n)) \o (Rest(b, n) \o w) = d \o (First(b, n) \o (Rest(b, n) \o w))
    BY <2>1, <2>2, <2>3, Zenon
  <2>5. (First(b, n) \o Rest(b, n)) \o w = First(b, n) \o (Rest(b, n) \o w)
    BY <2>1, <2>3, Zenon
  <2> QED BY <2>4, <2>5, Zenon
<1> QED BY <1>1, <1>2, <1>3

\* The headers are read off what comes, and what came with them is kept.
LEMMA HeadersRead ==
  ASSUME StreamInv, ReceiveHeaders
  PROVE  /\ UNCHANGED <<modeVars, outbox, results>> /\ at = "headers"
         /\ \/ Partial /\ buffered' = buffered /\ Await("headers")
            \/ \E c \in Seq(Own) :
                 /\ Whole(c)
                 /\ IF c[1][1].type = "upgrade" THEN Listen("welcome") ELSE Fail
<1>1. PICK n \in 1..Len(wire) :
        LET cells == data \o First(wire, n) IN
         /\ wire' = Rest(wire, n)
         /\ IF Len(cells) < 2
              THEN data' = cells /\ UNCHANGED <<buffered, taken>> /\ Await("headers")
              ELSE /\ data' = <<>>
                   /\ taken' = taken \o First(cells, 2)
                   /\ KeepRest(cells)
                   /\ IF cells[1][1].type = "upgrade" THEN Listen("welcome") ELSE Fail
  BY DEF ReceiveHeaders
<1> DEFINE cells == data \o First(wire, n)
<1>2. /\ at = "headers" /\ buffered = <<>> /\ UNCHANGED <<modeVars, outbox, results, sent>>
      /\ wire \in Seq(Own) /\ data \in Seq(Own)
  BY DEF ReceiveHeaders, StreamInv, Unheard
<1>3. n \in 0..Len(wire) /\ Len(wire) \in Nat /\ Len(data) \in Nat
  BY <1>2, LenProperties
<1>4. /\ cells \in Seq(Own) /\ wire' \in Seq(Own) /\ wire' = Rest(wire, n)
      /\ Len(cells) = Len(data) + n
      /\ cells \o wire' = data \o wire
  <2>1. /\ cells \in Seq(Own) /\ Rest(wire, n) \in Seq(Own) /\ Len(cells) = Len(data) + n
        /\ cells \o (Rest(wire, n) \o <<>>) = data \o (wire \o <<>>)
    <3>1. <<>> \in Seq(Own)
      BY Empty
    <3> QED BY <1>2, <1>3, <3>1, Gathered, Zenon
  <2> QED BY <1>1, <1>2, <2>1, Empty
<1> HIDE DEF cells
<1>5. Coming = data \o wire
  BY <1>2, Empty DEF Coming
<1>6. CASE Len(cells) < 2
  <2>1. data' = cells /\ UNCHANGED <<buffered, taken>> /\ Await("headers")
    BY <1>1, <1>6 DEF cells
  <2>2. Coming' = cells \o wire' /\ buffered' \in Seq(Own)
    BY <1>2, <1>4, <2>1, Empty DEF Coming
  <2> QED BY <1>2, <1>4, <1>5, <1>6, <2>1, <2>2 DEF Partial
<1>7. CASE ~(Len(cells) < 2)
  <2>1. /\ data' = <<>> /\ taken' = taken \o First(cells, 2) /\ buffered' = Rest(cells, 2)
        /\ IF cells[1][1].type = "upgrade" THEN Listen("welcome") ELSE Fail
    BY <1>1, <1>7 DEF cells, KeepRest
  <2>2. 2 \in 0..Len(cells)
    BY <1>3, <1>4, <1>7
  <2>3. /\ First(cells, 2) \in Seq(Own) /\ buffered' \in Seq(Own)
        /\ Len(First(cells, 2)) = 2 /\ First(cells, 2) \o Rest(cells, 2) = cells
        /\ First(cells, 2)[1] = cells[1]
    <3>1. /\ First(cells, 2) \in Seq(Own) /\ Rest(cells, 2) \in Seq(Own)
          /\ Len(First(cells, 2)) = 2 /\ First(cells, 2) \o Rest(cells, 2) = cells
          /\ \A i \in 1..2 : First(cells, 2)[i] = cells[i]
      BY <1>4, <2>2, OwnCut, Zenon
    <3> QED BY <2>1, <3>1
  <2> DEFINE c == First(cells, 2)
  <2>4. c \in Seq(Own) /\ Len(c) = 2 /\ c \o buffered' = cells /\ c[1] = cells[1]
    BY <2>1, <2>3
  <2> HIDE DEF c
  <2>5. c \o Coming' = Coming
    <3>1. Coming' = buffered' \o wire'
      <4>1. buffered' \o wire' \in Seq(Own)
        BY <1>4, <2>3, ConcatProperties
      <4> QED BY <2>1, <4>1, Empty DEF Coming
    <3>2. (c \o buffered') \o wire' = c \o (buffered' \o wire')
      <4>1. c \in Seq(Own) /\ buffered' \in Seq(Own) /\ wire' \in Seq(Own)
        BY <1>4, <2>3, <2>4
      <4> QED BY <4>1, OwnConcat
    <3> QED BY <1>4, <1>5, <2>4, <3>1, <3>2
  <2>6. Whole(c)
    BY <1>2, <1>4, <2>1, <2>3, <2>4, <2>5 DEF Whole, c
  <2> QED BY <1>2, <2>1, <2>4, <2>6
<1> QED BY <1>6, <1>7

\* A frame is gathered from what comes, in its order.
LEMMA FrameRead ==
  ASSUME StreamInv, ReadBuffered \/ ReceiveFrame
  PROVE  /\ UNCHANGED modeVars /\ at \in Hearing
         /\ \/ Partial /\ Await(at) /\ UNCHANGED <<outbox, results>>
            \/ \E c \in Seq(Own) : Whole(c) /\ Hear(c[1][1])
<1>1. /\ at \in Hearing /\ UNCHANGED <<modeVars, sent>>
      /\ data \in Seq(Own) /\ buffered \in Seq(Own) /\ wire \in Seq(Own)
      /\ Len(data) \in Nat /\ Len(data) < 2 /\ Len(buffered) \in Nat /\ Len(wire) \in Nat
  BY LenProperties DEF ReadBuffered, ReceiveFrame, StreamInv
<1>2. ASSUME NEW cells \in Seq(Own), Len(cells) <= 2, Gather(cells),
             buffered' \in Seq(Own), wire' \in Seq(Own),
             cells \o (buffered' \o wire') = Coming
      PROVE  \/ Partial /\ Await(at) /\ UNCHANGED <<outbox, results>>
             \/ \E c \in Seq(Own) : Whole(c) /\ Hear(c[1][1])
  <2>1. CASE Len(cells) < 2
    BY <1>1, <1>2, <2>1 DEF Gather, Partial, Coming
  <2>2. CASE ~(Len(cells) < 2)
    <3>1. Len(cells) = 2
      <4>1. Len(cells) \in Nat /\ Len(cells) <= 2
        BY <1>2, LenProperties
      <4> DEFINE k == Len(cells)
      <4>2. k \in Nat /\ k <= 2 /\ ~(k < 2)
        BY <2>2, <4>1
      <4> HIDE DEF k
      <4>3. k = 2
        BY <4>2
      <4> QED BY <4>3 DEF k
    <3>2. data' = <<>> /\ taken' = taken \o cells /\ Hear(cells[1][1])
      BY <1>2, <2>2 DEF Gather
    <3>3. Coming' = buffered' \o wire'
      <4>1. buffered' \o wire' \in Seq(Own)
        BY <1>2, ConcatProperties
      <4> QED BY <3>2, <4>1, Empty DEF Coming
    <3> QED BY <1>1, <1>2, <3>1, <3>2, <3>3 DEF Whole
  <2> QED BY <2>1, <2>2
<1>3. CASE ReadBuffered
  <2> DEFINE n == Least(Missing, Len(buffered))
  <2>1. buffered # <<>> /\ buffered' = Rest(buffered, n) /\ wire' = wire
        /\ Gather(data \o First(buffered, n))
    BY <1>3 DEF ReadBuffered
  <2>2. n \in 0..Len(buffered) /\ Len(data) + n <= 2
    BY <1>1 DEF Least, Missing
  <2> HIDE DEF n
  <2>3. /\ data \o First(buffered, n) \in Seq(Own) /\ buffered' \in Seq(Own)
        /\ Len(data \o First(buffered, n)) = Len(data) + n
        /\ (data \o First(buffered, n)) \o (buffered' \o wire') = Coming
    <3>1. /\ data \o First(buffered, n) \in Seq(Own) /\ Rest(buffered, n) \in Seq(Own)
          /\ Len(data \o First(buffered, n)) = Len(data) + n
          /\ (data \o First(buffered, n)) \o (Rest(buffered, n) \o wire)
               = data \o (buffered \o wire)
      BY <1>1, <2>2, Gathered, Zenon
    <3> QED BY <2>1, <3>1, Zenon DEF Coming
  <2> QED BY <1>1, <1>2, <2>1, <2>2, <2>3
<1>4. CASE ReceiveFrame
  <2>1. PICK n \in 1..Least(Missing, Len(wire)) :
          wire' = Rest(wire, n) /\ Gather(data \o First(wire, n))
    BY <1>4 DEF ReceiveFrame
  <2>2. buffered = <<>> /\ buffered' = buffered
    BY <1>4 DEF ReceiveFrame
  <2>3. n \in 0..Len(wire) /\ Len(data) + n <= 2
    BY <1>1 DEF Least, Missing
  <2>4. /\ data \o First(wire, n) \in Seq(Own) /\ wire' \in Seq(Own)
        /\ Len(data \o First(wire, n)) = Len(data) + n
        /\ (data \o First(wire, n)) \o (Rest(wire, n) \o <<>>) = data \o (wire \o <<>>)
    <3>1. <<>> \in Seq(Own)
      BY Empty
    <3>2. /\ data \o First(wire, n) \in Seq(Own) /\ Rest(wire, n) \in Seq(Own)
          /\ Len(data \o First(wire, n)) = Len(data) + n
          /\ (data \o First(wire, n)) \o (Rest(wire, n) \o <<>>) = data \o (wire \o <<>>)
      BY <1>1, <2>3, <3>1, Gathered, Zenon
    <3> QED BY <2>1, <3>2, Zenon
  <2>5. (data \o First(wire, n)) \o (buffered' \o wire') = Coming
    BY <1>1, <2>1, <2>2, <2>4, Empty DEF Coming
  <2> QED BY <1>1, <1>2, <2>1, <2>2, <2>3, <2>4, <2>5
<1> QED BY <1>1, <1>3, <1>4

\* What is sent is a request, and an access that is not begun is a failure.
LEMMA SendKeeps ==
  ASSUME outbox \in Seq(OwnRequests), NEW what \in OwnRequests, NEW point, Send(what, point)
  PROVE  /\ outbox' \in Seq(OwnRequests) /\ at' \in {point, "failed"}
         /\ outbox' = Append(outbox, what) \/ (outbox' = outbox /\ at' = "failed")
<1>1. Append(outbox, what) \in Seq(OwnRequests)
  BY AppendProperties
<1>2. at' \in {point, "failed"} /\ (~InTime => at' = "failed")
  BY DEF Send, Await, Fail, Close
<1>3. outbox' = IF InTime THEN Append(outbox, what) ELSE outbox
  BY DEF Send
<1> QED BY <1>1, <1>2, <1>3

LEMMA RequestsOwn ==
  /\ Request("upgrade") \in OwnRequests /\ Request("auth") \in OwnRequests
  /\ \A n \in Commands : [what |-> "command", id |-> IdOf(n), command |-> n] \in OwnRequests
  /\ \A n \in Commands : [what |-> "command", id |-> IdOf(n), command |-> n] \in CommandRequests
BY DEF OwnRequests, Requests, Request, CommandRequests, IdOf

\* A server that answers what it was asked says nothing that is not honest.
LEMMA SayHonest ==
  ASSUME outbox \in Seq(OwnRequests), NEW m \in Sayable
  PROVE  m \in Honest /\ CellsOf(m) \in Seq(Own) /\ Len(CellsOf(m)) = 2
         /\ CellsOf(m)[1] = <<m, 1>> /\ CellsOf(m)[2] = <<m, 2>>
<1>1. m \in Honest
  <2>1. CASE m \in {Plain("upgrade"), Plain("auth_required"), Plain("event"), Plain("auth_ok")}
    BY <2>1 DEF Plain, Honest, Messages
  <2>2. ASSUME NEW r \in CommandRequests, Asked(r),
               m = [type |-> "result", id |-> r.id, about |-> r.command]
        PROVE  m \in Honest
    <3>1. r \in OwnRequests
      BY <2>2 DEF Asked
    <3>2. r.id \in Commands /\ r.command \in Commands /\ r.what = "command"
      BY <2>2 DEF CommandRequests
    <3>3. r.command = r.id
      BY <3>1, <3>2 DEF OwnRequests
    <3> QED BY <2>2, <3>2, <3>3 DEF Honest, Messages
  <2> QED BY <2>1, <2>2 DEF Sayable
<1>2. <<m, 1>> \in Own /\ <<m, 2>> \in Own
  BY <1>1 DEF Own
<1> QED BY <1>1, <1>2 DEF CellsOf

\* What the server says is put behind all it has said.
LEMMA Behind ==
  \A t, d, b, w, x \in Seq(Own) :
    (t \o (d \o (b \o w))) \o x = t \o (d \o (b \o (w \o x)))
<1> SUFFICES ASSUME NEW t \in Seq(Own), NEW d \in Seq(Own), NEW b \in Seq(Own),
                    NEW w \in Seq(Own), NEW x \in Seq(Own)
             PROVE  (t \o (d \o (b \o w))) \o x = t \o (d \o (b \o (w \o x)))
  BY Zenon
<1>1. \A p, q \in Seq(Own) : p \o q \in Seq(Own)
  BY OwnConcat
<1>2. b \o w \in Seq(Own)
  BY <1>1
<1>3. d \o (b \o w) \in Seq(Own)
  BY <1>1, <1>2
<1>4. (b \o w) \o x = b \o (w \o x)
  BY OwnConcat
<1>5. \A p \in Seq(Own) : (d \o p) \o x = d \o (p \o x)
  BY OwnConcat
<1>6. \A p \in Seq(Own) : (t \o p) \o x = t \o (p \o x)
  BY OwnConcat
<1>7. (d \o (b \o w)) \o x = d \o ((b \o w) \o x)
  BY <1>2, <1>5
<1>8. (t \o (d \o (b \o w))) \o x = t \o ((d \o (b \o w)) \o x)
  BY <1>3, <1>6
<1> QED BY <1>4, <1>7, <1>8, Zenon

LEMMA SayCells ==
  ASSUME StreamInv
  PROVE  \A x \in Seq(Own) :
           /\ sent \o x \in Seq(Own) /\ wire \o x \in Seq(Own)
           /\ taken \o (data \o (buffered \o (wire \o x))) = sent \o x
<1>1. /\ taken \in Seq(Own) /\ data \in Seq(Own) /\ buffered \in Seq(Own) /\ wire \in Seq(Own)
      /\ sent \in Seq(Own)
  BY DEF StreamInv
<1>2. taken \o (data \o (buffered \o wire)) = sent
  BY DEF StreamInv, Coming
<1>3. \A x \in Seq(Own) : sent \o x \in Seq(Own) /\ wire \o x \in Seq(Own)
  BY <1>1, OwnConcat, Zenon
<1>4. \A x \in Seq(Own) : (taken \o (data \o (buffered \o wire))) \o x
                            = taken \o (data \o (buffered \o (wire \o x)))
  <2>1. \A d, b, w, x \in Seq(Own) :
          (taken \o (d \o (b \o w))) \o x = taken \o (d \o (b \o (w \o x)))
    BY <1>1, Behind
  <2>2. \A w, x \in Seq(Own) :
          (taken \o (data \o (buffered \o w))) \o x
            = taken \o (data \o (buffered \o (w \o x)))
    BY <1>1, <2>1
  <2> QED BY <1>1, <2>2
<1> QED BY <1>2, <1>3, <1>4

LEMMA SayStream ==
  ASSUME StreamInv, NEW x \in Seq(Own), sent' = sent \o x, wire' = wire \o x,
         UNCHANGED <<buffered, data, taken>>
  PROVE  sent' \in Seq(Own) /\ wire' \in Seq(Own) /\ taken' \o Coming' = sent'
BY SayCells DEF Coming

\* The results so far are those of the first commands, and the session waits
\* for one that it has not.
ResultInv ==
  /\ results \in Seq(Commands)
  /\ at \in Unheard \cup {"welcome", "auth"} => results = <<>>
  /\ at = "result" => Len(results) < LastCommand
  /\ Len(results) <= LastCommand
  /\ left \in 0..Addresses
  /\ ResultsBelong

\* What a message does: it ends the session, or it is what the access in
\* progress waits for.
LEMMA HearCases ==
  ASSUME at \in Hearing, NEW m, Hear(m)
  PROVE  \/ Fail /\ UNCHANGED <<outbox, results>>
         \/ /\ at = "welcome" /\ m.type = "auth_required"
            /\ Send(Request("auth"), "auth") /\ UNCHANGED results
         \/ /\ at = "auth" /\ m.type = "auth_ok"
            /\ SendCommand(1) /\ UNCHANGED results
         \/ /\ at = "result" /\ m.type = "result" /\ m.id = Next1
            /\ results' = Append(results, m.about)
            /\ IF Next1 = LastCommand THEN Close("done") /\ UNCHANGED outbox
                                      ELSE SendCommand(Next1 + 1)
<1>1. CASE ~Expects(m)
  BY <1>1 DEF Hear
<1>2. CASE Expects(m) /\ at = "welcome"
  BY <1>2 DEF Hear, Expects
<1>3. CASE Expects(m) /\ at = "auth"
  BY <1>3 DEF Hear, Expects
<1>4. CASE Expects(m) /\ at = "result"
  <2>1. m.type = "result" /\ m.id = Next1
    BY <1>4 DEF Expects, IdOf
  <2> QED BY <1>4, <2>1 DEF Hear
<1> QED BY <1>1, <1>2, <1>3, <1>4 DEF Hearing

\* What an access leaves alone.
LEMMA AccessFrame ==
  ASSUME NEW point, Await(point)
  PROVE  left' = left /\ at' \in {point, "failed"}
BY DEF Await, Fail, Close

LEMMA LastIsCommand == LastCommand \in Commands /\ 1 \in Commands
BY SessionAssumption DEF LastCommand, Commands

\* A message that is heard is answered with a request of the session, and its
\* result is the one waited for.
LEMMA Heard ==
  ASSUME StreamInv, ResultInv, at \in Hearing, NEW m \in Honest, Hear(m), UNCHANGED modeVars
  PROVE  /\ outbox' \in Seq(OwnRequests) /\ at' \in {"auth", "result", "done", "failed"}
         /\ ResultInv'
<1>1. /\ outbox \in Seq(OwnRequests) /\ LastCommand' = LastCommand
      /\ Len(results) \in Nat /\ results \in Seq(Commands) /\ LastCommand \in Commands
      /\ CommandCount \in Nat
  BY LastIsCommand, SessionAssumption, LenProperties
  DEF StreamInv, ResultInv, LastCommand, modeVars
<1>2. CASE Fail /\ UNCHANGED <<outbox, results>>
  BY <1>1, <1>2 DEF Fail, Close, ResultInv, ResultsBelong, Unheard
<1>3. CASE at = "welcome" /\ Send(Request("auth"), "auth") /\ UNCHANGED results
  <2>1. outbox' \in Seq(OwnRequests) /\ at' \in {"auth", "failed"} /\ left' = left
    BY <1>1, <1>3, SendKeeps, RequestsOwn, AccessFrame DEF Send
  <2> QED BY <1>1, <1>3, <2>1 DEF ResultInv, ResultsBelong, Unheard
<1>4. CASE at = "auth" /\ SendCommand(1) /\ UNCHANGED results
  <2>1. outbox' \in Seq(OwnRequests) /\ at' \in {"result", "failed"} /\ left' = left
    BY <1>1, <1>4, SendKeeps, RequestsOwn, LastIsCommand, AccessFrame DEF Send, SendCommand
  <2>2. results' = <<>> /\ Len(results') = 0
    BY <1>4 DEF ResultInv
  <2> QED BY <1>1, <1>4, <2>1, <2>2 DEF ResultInv, ResultsBelong, Unheard, Commands
<1>5. CASE /\ at = "result" /\ m.type = "result" /\ m.id = Next1
           /\ results' = Append(results, m.about)
           /\ IF Next1 = LastCommand THEN Close("done") /\ UNCHANGED outbox
                                     ELSE SendCommand(Next1 + 1)
  <2>1. m.about = Next1 /\ Next1 = Len(results) + 1 /\ Len(results) < LastCommand
    BY <1>5 DEF Honest, Next1, ResultInv
  <2>2. Next1 \in Commands
    BY <1>1, <2>1 DEF Commands
  <2>3. /\ results' \in Seq(Commands) /\ Len(results') = Next1
        /\ \A i \in 1..Len(results) : results'[i] = results[i]
        /\ results'[Next1] = Next1
    BY <1>1, <1>5, <2>1, <2>2, AppendProperties
  <2>4. ResultsBelong'
    <3>1. DOMAIN results' = 1..Next1 /\ DOMAIN results = 1..Len(results)
      BY <1>1, <2>3, LenProperties
    <3>2. \A i \in 1..Len(results) : results[i] = i
      BY <3>1 DEF ResultInv, ResultsBelong
    <3> QED BY <1>1, <2>1, <2>3, <3>1, <3>2 DEF ResultsBelong
  <2>5. CASE Next1 = LastCommand
    BY <1>1, <1>5, <2>1, <2>2, <2>3, <2>4, <2>5 DEF ResultInv, Close, Unheard, Commands
  <2>6. CASE Next1 # LastCommand
    <3>1. Next1 + 1 \in Commands /\ Next1 < LastCommand
      BY <1>1, <2>1, <2>6 DEF Commands
    <3>2. outbox' \in Seq(OwnRequests) /\ at' \in {"result", "failed"} /\ left' = left
      BY <1>1, <1>5, <2>6, <3>1, SendKeeps, RequestsOwn, AccessFrame DEF Send, SendCommand
    <3>3. Len(results') < LastCommand' /\ Len(results') <= LastCommand'
      BY <1>1, <2>2, <2>3, <3>1 DEF Commands
    <3>4. left' \in 0..Addresses
      BY <3>2 DEF ResultInv
    <3> QED BY <2>3, <2>4, <3>2, <3>3, <3>4 DEF ResultInv, Unheard
  <2> QED BY <2>5, <2>6
<1> QED BY <1>2, <1>3, <1>4, <1>5, HearCases

SessionInv == TimeInv /\ StreamInv /\ ResultInv

\* An access that has nothing to do with the stream leaves it alone.
LEMMA StreamIdle ==
  ASSUME StreamInv, ResultInv, UNCHANGED <<modeVars, streamVars, results>>,
         outbox' \in Seq(OwnRequests), left' \in 0..Addresses,
         \/ at' = at
         \/ at' \in Ended
         \/ at \in Unheard /\ at' \in Unheard
  PROVE  StreamInv' /\ ResultInv'
<1>1. StreamInv'
  BY DEF StreamInv, Coming, streamVars, Unheard, Ended
<1>2. LastCommand' = LastCommand
  BY DEF LastCommand, modeVars
<1>3. ResultInv'
  BY <1>2 DEF ResultInv, ResultsBelong, Unheard, Ended
<1> QED BY <1>1, <1>3

\* Every step keeps the stream whole and every result with its command.
LEMMA SessionStep ==
  ASSUME SessionInv, [SessionNext]_sessionVars
  PROVE  SessionInv'
<1> USE DEF SessionInv
<1>1. TimeInv'
  BY TimeStep
<1>2. /\ outbox \in Seq(OwnRequests) /\ left \in 0..Addresses
      /\ Addresses \in Nat \ {0}
  BY SessionAssumption DEF StreamInv, ResultInv
<1>3. CASE Lookup
  <2>1. at' \in {"connect", "failed"} /\ left' \in 0..Addresses
    BY <1>2, <1>3 DEF Lookup, Fail, Close
  <2> QED BY <1>1, <1>2, <1>3, <2>1, StreamIdle DEF Lookup, Unheard, Ended
<1>4. CASE Refused
  <2>1. at' \in {"connect", "failed"} /\ left' \in 0..Addresses
    BY <1>2, <1>4 DEF Refused, Fail, Close
  <2> QED BY <1>1, <1>2, <1>4, <2>1, StreamIdle DEF Refused, Unheard, Ended
<1>5. CASE Connected
  <2>1. CASE Fail /\ UNCHANGED outbox
    BY <1>1, <1>2, <1>5, <2>1, StreamIdle DEF Connected, Fail, Close, Ended
  <2>2. CASE BeginHandshake /\ UNCHANGED outbox
    <3>1. at' \in {"handshake", "failed"} /\ left' = left
      BY <2>2, AccessFrame DEF BeginHandshake
    <3> QED BY <1>1, <1>2, <1>5, <2>2, <3>1, StreamIdle DEF Connected, Unheard, Ended
  <2>3. CASE Send(Request("upgrade"), "headers")
    <3>1. outbox' \in Seq(OwnRequests) /\ at' \in {"headers", "failed"} /\ left' = left
      BY <1>2, <2>3, SendKeeps, RequestsOwn, AccessFrame DEF Send
    <3> QED BY <1>1, <1>2, <1>5, <3>1, StreamIdle DEF Connected, Unheard, Ended
  <2> QED BY <1>5, <2>1, <2>2, <2>3 DEF Connected
<1>6. CASE Handshake
  <2>1. CASE Fail /\ UNCHANGED outbox
    BY <1>1, <1>2, <1>6, <2>1, StreamIdle DEF Handshake, Fail, Close, Ended
  <2>2. CASE Send(Request("upgrade"), "headers")
    <3>1. outbox' \in Seq(OwnRequests) /\ at' \in {"headers", "failed"} /\ left' = left
      BY <1>2, <2>2, SendKeeps, RequestsOwn, AccessFrame DEF Send
    <3> QED BY <1>1, <1>2, <1>6, <3>1, StreamIdle DEF Handshake, Unheard, Ended
  <2> QED BY <1>6, <2>1, <2>2 DEF Handshake
<1>7. CASE ReceiveHeaders
  <2>1. /\ UNCHANGED <<modeVars, outbox, results>> /\ at = "headers"
        /\ \/ Partial /\ buffered' = buffered /\ Await("headers")
           \/ \E c \in Seq(Own) :
                /\ Whole(c)
                /\ IF c[1][1].type = "upgrade" THEN Listen("welcome") ELSE Fail
    BY <1>7, HeadersRead
  <2>2. /\ sent' \in Seq(Own) /\ wire' \in Seq(Own) /\ buffered' \in Seq(Own)
        /\ data' \in Seq(Own) /\ taken' \in Seq(Own)
        /\ Len(data') < 2 /\ taken' \o Coming' = sent'
    BY <2>1, Reads
  <2>3. /\ left' = left /\ at' \in {"headers", "welcome", "failed"}
        /\ at' = "headers" => taken' = taken /\ buffered' = buffered
    <3>1. CASE Partial /\ buffered' = buffered /\ Await("headers")
      BY <3>1, AccessFrame DEF Partial
    <3>2. CASE Listen("welcome") \/ Fail
      BY <3>2, AccessFrame DEF Listen, Fail, Close
    <3> QED BY <2>1, <3>1, <3>2
  <2>4. StreamInv'
    BY <1>2, <2>1, <2>2, <2>3 DEF StreamInv, Unheard
  <2>5. ResultInv'
    <3>1. LastCommand' = LastCommand
      BY <2>1 DEF LastCommand, modeVars
    <3> QED BY <1>2, <2>1, <2>3, <3>1 DEF ResultInv, ResultsBelong, Unheard
  <2> QED BY <1>1, <2>4, <2>5
<1>8. CASE ReadBuffered \/ ReceiveFrame
  <2>1. /\ UNCHANGED modeVars /\ at \in Hearing
        /\ \/ Partial /\ Await(at) /\ UNCHANGED <<outbox, results>>
           \/ \E c \in Seq(Own) : Whole(c) /\ Hear(c[1][1])
    BY <1>8, FrameRead
  <2>2. /\ sent' \in Seq(Own) /\ wire' \in Seq(Own) /\ buffered' \in Seq(Own)
        /\ data' \in Seq(Own) /\ taken' \in Seq(Own)
        /\ Len(data') < 2 /\ taken' \o Coming' = sent'
    BY <2>1, Reads
  <2>3. /\ outbox' \in Seq(OwnRequests) /\ at' \notin Unheard /\ ResultInv'
    <3>1. CASE Await(at) /\ UNCHANGED <<outbox, results>>
      <4>1. left' = left /\ at' \in {at, "failed"}
        BY <3>1, AccessFrame
      <4>2. LastCommand' = LastCommand
        BY <2>1 DEF LastCommand, modeVars
      <4> QED BY <1>2, <2>1, <3>1, <4>1, <4>2 DEF ResultInv, ResultsBelong, Unheard, Hearing
    <3>2. ASSUME NEW c \in Seq(Own), Whole(c), Hear(c[1][1])
          PROVE  outbox' \in Seq(OwnRequests) /\ at' \notin Unheard /\ ResultInv'
      <4>1. c[1] \in Own
        <5>1. Len(c) = 2 /\ 1 \in 1..Len(c)
          BY <3>2 DEF Whole
        <5> QED BY <5>1, ElementOfSeq
      <4>2. c[1][1] \in Honest
        BY <4>1 DEF Own
      <4> QED BY <2>1, <3>2, <4>2, Heard DEF Unheard
    <3> QED BY <2>1, <3>1, <3>2
  <2> QED BY <1>1, <2>2, <2>3 DEF StreamInv
<1>9. CASE Tick
  BY <1>1, <1>2, <1>9, StreamIdle DEF Tick, socketVars
<1>10. CASE TimesOut \/ Breaks
  BY <1>1, <1>2, <1>10, StreamIdle DEF TimesOut, Breaks, Fail, Close, Ended
<1>11. CASE Say
  <2>1. /\ UNCHANGED <<modeVars, at, socketVars, outbox, buffered, data, taken, results>>
        /\ \E m \in Sayable : sent' = sent \o CellsOf(m) /\ wire' = wire \o CellsOf(m)
    BY <1>11 DEF Say
  <2>2. sent' \in Seq(Own) /\ wire' \in Seq(Own) /\ taken' \o Coming' = sent'
    BY <1>2, <2>1, SayHonest, SayStream
  <2>3. StreamInv'
    BY <2>1, <2>2 DEF StreamInv
  <2>4. LastCommand' = LastCommand
    BY <2>1 DEF LastCommand, modeVars
  <2> QED BY <1>1, <2>1, <2>3, <2>4 DEF ResultInv, ResultsBelong, socketVars
<1>12. CASE UNCHANGED sessionVars
  BY <1>1, <1>2, <1>12, StreamIdle DEF sessionVars, socketVars
<1> QED
  BY <1>3, <1>4, <1>5, <1>6, <1>7, <1>8, <1>9, <1>10, <1>11, <1>12 DEF SessionNext

THEOREM SessionSound == SessionSpec => []SessionInv
<1>1. SessionInit => SessionInv
  <2>1. SessionInit => TimeInv
    BY SessionAssumption DEF SessionInit, TimeInv, OpenPoints, Hearing, Ended
  <2>2. SessionInit => StreamInv
    <3> SUFFICES ASSUME SessionInit PROVE StreamInv
      OBVIOUS
    <3>1. <<>> \in Seq(Own) /\ <<>> \in Seq(OwnRequests) /\ Len(<<>>) = 0
          /\ <<>> \o <<>> = <<>>
      BY Empty
    <3> QED BY <3>1 DEF SessionInit, StreamInv, Coming
  <2>3. SessionInit => ResultInv
    <3>1. <<>> \in Seq(Commands) /\ Len(<<>>) = 0 /\ DOMAIN <<>> = {}
      BY Empty
    <3> QED
      BY <3>1, LastIsCommand, SessionAssumption
      DEF SessionInit, ResultInv, ResultsBelong, Unheard, Commands
  <2> QED BY <2>1, <2>2, <2>3 DEF SessionInv
<1>2. SessionInv /\ [SessionNext]_sessionVars => SessionInv'
  BY SessionStep
<1> QED BY <1>1, <1>2, PTL DEF SessionSpec

\* No cell of the server is lost, read twice or out of turn, however the
\* chunks are cut and whatever came with the headers (_read_headers,
\* _BufferedSocket and _read_exact of live.py).
THEOREM StreamStaysWhole == SessionSpec => []StreamWhole
<1>1. StreamInv => StreamWhole
  <2> SUFFICES ASSUME StreamInv PROVE StreamWhole
    OBVIOUS
  <2>1. /\ taken \in Seq(Own) /\ data \in Seq(Own)
        /\ buffered \in Seq(Own) /\ wire \in Seq(Own)
    BY DEF StreamInv
  <2>2. \A s, t, u \in Seq(Own) : (s \o t) \o u = s \o (t \o u)
    BY OwnConcat
  <2>3. \A s, t \in Seq(Own) : s \o t \in Seq(Own)
    BY OwnConcat
  <2>4. \A t, d, b, w \in Seq(Own) : ((t \o d) \o b) \o w = t \o (d \o (b \o w))
    <3> SUFFICES ASSUME NEW t \in Seq(Own), NEW d \in Seq(Own),
                        NEW b \in Seq(Own), NEW w \in Seq(Own)
                 PROVE  ((t \o d) \o b) \o w = t \o (d \o (b \o w))
      BY Zenon
    <3>1. \A p \in Seq(Own) : (p \o b) \o w = p \o (b \o w)
      BY <2>2
    <3>2. \A p \in Seq(Own) : (t \o d) \o p = t \o (d \o p)
      BY <2>2
    <3>3. t \o d \in Seq(Own) /\ b \o w \in Seq(Own)
      BY <2>3
    <3>4. ((t \o d) \o b) \o w = (t \o d) \o (b \o w)
      BY <3>1, <3>3
    <3>5. (t \o d) \o (b \o w) = t \o (d \o (b \o w))
      BY <3>2, <3>3
    <3> QED BY <3>4, <3>5, Zenon
  <2>5. \A b, w \in Seq(Own) : ((taken \o data) \o b) \o w = taken \o (data \o (b \o w))
    BY <2>1, <2>4
  <2>6. ((taken \o data) \o buffered) \o wire = taken \o (data \o (buffered \o wire))
    BY <2>1, <2>5
  <2> QED BY <2>6 DEF StreamInv, StreamWhole, Coming
<1> QED BY <1>1, SessionSound, PTL DEF SessionInv

\* Every command gets the result that the server gave of it, whatever is
\* repeated or said in between (_command_result and list_display_entities).
THEOREM ResultsAreTheirs == SessionSpec => []ResultsBelong
<1>1. ResultInv => ResultsBelong
  BY DEF ResultInv
<1> QED BY <1>1, SessionSound, PTL DEF SessionInv

\* The state of a session has the types it is declared with.
THEOREM SessionTypes == SessionSpec => []SessionTypeOK
<1>1. display \in BOOLEAN /\ secure \in BOOLEAN /\ [SessionNext]_sessionVars
        => (display \in BOOLEAN /\ secure \in BOOLEAN)'
  BY DEF SessionNext, sessionVars, modeVars, Lookup, Refused, Connected, Handshake,
         ReceiveHeaders, ReadBuffered, ReceiveFrame, Tick, TimesOut, Breaks, Say
<1>2. SessionInit => display \in BOOLEAN /\ secure \in BOOLEAN
  BY DEF SessionInit
<1>3. SessionInv /\ display \in BOOLEAN /\ secure \in BOOLEAN => SessionTypeOK
  <2> SUFFICES ASSUME SessionInv, display \in BOOLEAN, secure \in BOOLEAN
               PROVE  SessionTypeOK
    OBVIOUS
  <2>1. Own \subseteq Cells /\ OwnRequests \subseteq Requests
    BY DEF Own, Honest, Cells, OwnRequests
  <2>2. \A s \in Seq(Own) : s \in Seq(Cells)
    <3> SUFFICES ASSUME NEW s \in Seq(Own) PROVE s \in Seq(Cells)
      OBVIOUS
    <3>1. s \in [1..Len(s) -> Own] /\ Len(s) \in Nat
      BY LenProperties
    <3>2. s \in [1..Len(s) -> Cells]
      BY <2>1, <3>1
    <3> QED BY <3>1, <3>2, SeqDef
  <2>3. outbox \in Seq(Requests)
    <3>1. outbox \in [1..Len(outbox) -> OwnRequests] /\ Len(outbox) \in Nat
      BY LenProperties DEF SessionInv, StreamInv
    <3>2. outbox \in [1..Len(outbox) -> Requests]
      BY <2>1, <3>1
    <3> QED BY <3>1, <3>2, SeqDef
  <2>4. /\ {sent, wire, buffered, taken} \subseteq Seq(Cells)
        /\ data \in Seq(Cells) /\ Len(data) < 2
    BY <2>2 DEF SessionInv, StreamInv
  <2>5. now \in 0..until /\ until \in Deadline..2 * Deadline /\ timeout \in 0..Deadline
    BY SessionAssumption DEF SessionInv, TimeInv
  <2>6. /\ at \in {"lookup", "connect", "handshake", "headers"} \cup Hearing \cup Ended
        /\ sockets \in {0, 1} /\ left \in 0..Addresses
        /\ results \in Seq(Commands) /\ Len(results) <= LastCommand
    BY DEF SessionInv, TimeInv, ResultInv, OpenPoints
  <2> QED BY <2>3, <2>4, <2>5, <2>6 DEF SessionTypeOK
<1> QED BY <1>1, <1>2, <1>3, SessionSound, PTL DEF SessionSpec

-----------------------------------------------------------------------------
(* What the server says comes in messages of two cells, and what is read   *)
(* of it too: message k is the cells 2k-1 and 2k.                          *)

Pair(s, k, m) == 2 * k <= Len(s) /\ s[2 * k - 1] = <<m, 1>> /\ s[2 * k] = <<m, 2>>

MessageInv ==
  /\ \E k \in Nat : Len(sent) = 2 * k
  /\ \E k \in Nat : Len(taken) = 2 * k
  /\ \A k \in Nat \ {0} : 2 * k <= Len(sent) => \E m \in Honest : Pair(sent, k, m)

LEMMA OwnParts ==
  \A s, t \in Seq(Own) :
    /\ s \o t \in Seq(Own) /\ Len(s \o t) = Len(s) + Len(t)
    /\ Len(s) \in Nat /\ Len(t) \in Nat
    /\ \A i \in 1..Len(s) : (s \o t)[i] = s[i]
    /\ \A i \in 1..Len(t) : (s \o t)[Len(s) + i] = t[i]
<1> SUFFICES ASSUME NEW s \in Seq(Own), NEW t \in Seq(Own)
             PROVE  /\ s \o t \in Seq(Own) /\ Len(s \o t) = Len(s) + Len(t)
                    /\ Len(s) \in Nat /\ Len(t) \in Nat
                    /\ \A i \in 1..Len(s) : (s \o t)[i] = s[i]
                    /\ \A i \in 1..Len(t) : (s \o t)[Len(s) + i] = t[i]
  BY Zenon
<1>1. Len(s) \in Nat /\ Len(t) \in Nat
  BY LenProperties
<1>2. /\ s \o t \in Seq(Own) /\ Len(s \o t) = Len(s) + Len(t)
      /\ \A i \in 1..Len(s) + Len(t) :
           (s \o t)[i] = IF i <= Len(s) THEN s[i] ELSE t[i - Len(s)]
  BY ConcatProperties
<1> QED BY <1>1, <1>2

\* A message stays where it is when more is put behind it,
LEMMA PairKept ==
  \A s, t \in Seq(Own) : \A k \in Nat \ {0} : \A m : Pair(s, k, m) => Pair(s \o t, k, m)
<1> SUFFICES ASSUME NEW s \in Seq(Own), NEW t \in Seq(Own), NEW k \in Nat \ {0}, NEW m,
                    Pair(s, k, m)
             PROVE  Pair(s \o t, k, m)
  BY Zenon
<1>1. /\ Len(s \o t) = Len(s) + Len(t) /\ Len(s) \in Nat /\ Len(t) \in Nat
      /\ \A i \in 1..Len(s) : (s \o t)[i] = s[i]
  BY OwnParts, Zenon
<1>2. 2 * k \in 1..Len(s) /\ 2 * k - 1 \in 1..Len(s) /\ 2 * k <= Len(s \o t)
  BY <1>1 DEF Pair
<1> QED BY <1>1, <1>2 DEF Pair

\* and the one that is put there is the next.
LEMMA PairAdded ==
  \A s, c \in Seq(Own) : \A k \in Nat : \A m :
    Len(s) = 2 * k /\ Pair(c, 1, m) => Pair(s \o c, k + 1, m)
<1> SUFFICES ASSUME NEW s \in Seq(Own), NEW c \in Seq(Own), NEW k \in Nat, NEW m,
                    Len(s) = 2 * k, Pair(c, 1, m)
             PROVE  Pair(s \o c, k + 1, m)
  BY Zenon
<1>1. /\ Len(s \o c) = Len(s) + Len(c) /\ Len(c) \in Nat
      /\ \A i \in 1..Len(c) : (s \o c)[Len(s) + i] = c[i]
  BY OwnParts, Zenon
<1>2. 1 \in 1..Len(c) /\ 2 \in 1..Len(c) /\ c[1] = <<m, 1>> /\ c[2] = <<m, 2>>
  BY <1>1 DEF Pair
<1>3. (s \o c)[Len(s) + 1] = <<m, 1>> /\ (s \o c)[Len(s) + 2] = <<m, 2>>
  BY <1>1, <1>2
<1>4. 2 * (k + 1) - 1 = Len(s) + 1 /\ 2 * (k + 1) = Len(s) + 2
  OBVIOUS
<1>5. 2 * (k + 1) <= Len(s \o c)
  BY <1>1, <1>2, <1>4
<1> QED BY <1>3, <1>4, <1>5 DEF Pair

\* What is read as a message is one that the server said.
LEMMA MessageRead ==
  ASSUME StreamInv, MessageInv, NEW c \in Seq(Own), Whole(c)
  PROVE  MessageInv' /\ \E m \in Honest : Pair(c, 1, m)
<1>1. PICK k \in Nat : Len(taken) = 2 * k
  BY DEF MessageInv
<1>2. /\ taken \in Seq(Own) /\ taken' \in Seq(Own) /\ Coming' \in Seq(Own)
      /\ sent = taken' \o Coming'
  <2>1. /\ data' \in Seq(Own) /\ buffered' \in Seq(Own) /\ wire' \in Seq(Own)
        /\ taken' \in Seq(Own) /\ taken' \o Coming' = sent'
    BY Reads
  <2>2. Coming' \in Seq(Own)
    BY <2>1, ConcatProperties DEF Coming
  <2> QED BY <2>1, <2>2 DEF StreamInv, Whole
<1>3. Len(taken') = Len(taken) + 2 /\ taken'[Len(taken) + 1] = c[1] /\ taken'[Len(taken) + 2] = c[2]
  <2>1. /\ Len(taken \o c) = Len(taken) + Len(c)
        /\ \A i \in 1..Len(c) : (taken \o c)[Len(taken) + i] = c[i]
    BY <1>2, OwnParts, Zenon
  <2>2. taken' = taken \o c /\ Len(c) = 2
    BY DEF Whole
  <2> QED BY <2>1, <2>2
<1>4. /\ Len(taken') <= Len(sent)
      /\ sent[Len(taken) + 1] = c[1] /\ sent[Len(taken) + 2] = c[2]
  <2>1. /\ Len(sent) = Len(taken') + Len(Coming') /\ Len(Coming') \in Nat
        /\ Len(taken') \in Nat /\ \A i \in 1..Len(taken') : sent[i] = taken'[i]
    <3>1. \A s, t \in Seq(Own) :
            /\ Len(s \o t) = Len(s) + Len(t) /\ Len(s) \in Nat /\ Len(t) \in Nat
            /\ \A i \in 1..Len(s) : (s \o t)[i] = s[i]
      BY OwnParts, Zenon
    <3> QED BY <1>2, <3>1
  <2> QED BY <1>1, <1>3, <2>1
<1>5. PICK m \in Honest : Pair(sent, k + 1, m)
  <2>1. 2 * (k + 1) <= Len(sent) /\ k + 1 \in Nat \ {0}
    BY <1>1, <1>3, <1>4
  <2> QED BY <2>1 DEF MessageInv
<1>6. Pair(c, 1, m)
  <2>1. 2 * (k + 1) - 1 = Len(taken) + 1 /\ 2 * (k + 1) = Len(taken) + 2
    BY <1>1
  <2>2. c[1] = <<m, 1>> /\ c[2] = <<m, 2>>
    BY <1>4, <1>5, <2>1 DEF Pair
  <2> QED BY <2>2 DEF Pair, Whole
<1>7. MessageInv'
  <2>1. Len(taken') = 2 * (k + 1) /\ k + 1 \in Nat
    BY <1>1, <1>3
  <2>2. sent' = sent
    BY DEF Whole
  <2> QED BY <2>1, <2>2 DEF MessageInv
<1> QED BY <1>6, <1>7

-----------------------------------------------------------------------------
(* The order of the handshake: the messages that have been read are those  *)
(* that the access in progress comes after.                                *)

Opened   == Pair(taken, 1, Plain("upgrade"))
AskedFor == Opened /\ Pair(taken, 2, Plain("auth_required"))
Accepted == AskedFor /\ Pair(taken, 3, Plain("auth_ok"))

TokenInv ==
  /\ at = "welcome" => Len(taken) = 2 /\ Opened
  /\ at = "auth" => Len(taken) = 4 /\ AskedFor
  /\ at = "result" => Accepted
  /\ Asked(Request("auth")) => AskedFor /\ at \notin Unheard \cup {"welcome"}
  /\ (\E q \in CommandRequests : Asked(q)) =>
        Accepted /\ at \notin Unheard \cup {"welcome", "auth"}

\* What has been read is not forgotten.
LEMMA TokensKept ==
  ASSUME StreamInv, NEW c \in Seq(Own), Whole(c)
  PROVE  /\ (Opened => Opened') /\ (AskedFor => AskedFor') /\ (Accepted => Accepted')
         /\ Len(taken') = Len(taken) + 2
<1>1. taken \in Seq(Own) /\ taken' = taken \o c /\ Len(c) = 2
  BY DEF StreamInv, Whole
<1>2. \A k \in Nat \ {0} : \A m : Pair(taken, k, m) => Pair(taken', k, m)
  BY <1>1, PairKept
<1>3. Len(taken') = Len(taken) + 2
  <2>1. Len(taken \o c) = Len(taken) + Len(c)
    BY <1>1, OwnParts, Zenon
  <2> QED BY <1>1, <2>1
<1>4. /\ Pair(taken, 1, Plain("upgrade")) => Pair(taken', 1, Plain("upgrade"))
      /\ Pair(taken, 2, Plain("auth_required")) => Pair(taken', 2, Plain("auth_required"))
      /\ Pair(taken, 3, Plain("auth_ok")) => Pair(taken', 3, Plain("auth_ok"))
  BY <1>2
<1> QED BY <1>3, <1>4 DEF Opened, AskedFor, Accepted, Plain

\* A message of a kind that the server says only bare is that message.
LEMMA BareMessage ==
  ASSUME NEW m \in Honest, m.type # "result"
  PROVE  m = Plain(m.type)
BY DEF Honest, Messages, Plain

\* An access that sends asks for that and for what was asked before.
LEMMA AskedAfter ==
  ASSUME outbox \in Seq(OwnRequests), NEW what \in OwnRequests,
         outbox' = Append(outbox, what) \/ outbox' = outbox
  PROVE  \A r : Asked(r)' => Asked(r) \/ r = what
<1>1. CASE outbox' = outbox
  BY <1>1 DEF Asked
<1>2. CASE outbox' = Append(outbox, what)
  <2>1. /\ Len(outbox) \in Nat /\ DOMAIN outbox = 1..Len(outbox)
        /\ outbox' \in Seq(OwnRequests) /\ Len(outbox') = Len(outbox) + 1
        /\ \A i \in 1..Len(outbox) : outbox'[i] = outbox[i]
        /\ outbox'[Len(outbox) + 1] = what
    BY <1>2, LenProperties, AppendProperties
  <2>2. DOMAIN outbox' = 1..(Len(outbox) + 1)
    BY <2>1, LenProperties
  <2> QED BY <2>1, <2>2 DEF Asked
<1> QED BY <1>1, <1>2

\* A message that is heard moves the handshake on by one.
LEMMA TokenHeard ==
  ASSUME StreamInv, ResultInv, MessageInv, TokenInv, at \in Hearing,
         NEW c \in Seq(Own), Whole(c), Hear(c[1][1])
  PROVE  TokenInv'
<1>1. PICK m \in Honest : Pair(c, 1, m)
  BY MessageRead
<1>2. c[1][1] = m /\ Hear(m)
  BY <1>1 DEF Pair
<1>3. /\ (Opened => Opened') /\ (AskedFor => AskedFor') /\ (Accepted => Accepted')
      /\ Len(taken') = Len(taken) + 2
  BY TokensKept
<1>4. /\ outbox \in Seq(OwnRequests) /\ taken \in Seq(Own) /\ taken' = taken \o c
      /\ at \notin Unheard
  BY DEF StreamInv, Whole, Hearing, Unheard
<1>5. \A k \in Nat : Len(taken) = 2 * k => Pair(taken', k + 1, m)
  BY <1>1, <1>4, PairAdded
<1>6. \A q \in CommandRequests : q # Request("auth")
  BY DEF CommandRequests, Request
<1>7. CASE Fail /\ UNCHANGED <<outbox, results>>
  <2>1. at' = "failed" /\ \A r : Asked(r)' => Asked(r)
    BY <1>7 DEF Fail, Close, Asked
  <2> QED BY <1>3, <2>1 DEF TokenInv, Unheard
<1>8. CASE /\ at = "welcome" /\ m.type = "auth_required"
           /\ Send(Request("auth"), "auth") /\ UNCHANGED results
  <2>1. at' \in {"auth", "failed"} /\ \A r : Asked(r)' => Asked(r) \/ r = Request("auth")
    <3>1. /\ at' \in {"auth", "failed"}
          /\ outbox' = Append(outbox, Request("auth")) \/ outbox' = outbox
      BY <1>4, <1>8, SendKeeps, RequestsOwn
    <3> QED BY <1>4, <3>1, AskedAfter, RequestsOwn
  <2>2. AskedFor' /\ Len(taken') = 4
    <3>1. m = Plain("auth_required")
      BY <1>8, BareMessage
    <3>2. Len(taken) = 2 /\ Opened
      BY <1>8 DEF TokenInv
    <3>3. Pair(taken', 2, m)
      BY <1>5, <3>2
    <3> QED BY <1>3, <3>1, <3>2, <3>3 DEF AskedFor
  <2>3. \A q \in CommandRequests : ~Asked(q)'
    BY <1>6, <1>8, <2>1 DEF TokenInv
  <2> QED BY <2>1, <2>2, <2>3 DEF TokenInv, Unheard
<1>9. CASE /\ at = "auth" /\ m.type = "auth_ok"
           /\ SendCommand(1) /\ UNCHANGED results
  <2>1. at' \in {"result", "failed"}
    BY <1>4, <1>9, SendKeeps, RequestsOwn, LastIsCommand DEF SendCommand
  <2>2. Accepted' /\ AskedFor'
    <3>1. m = Plain("auth_ok")
      BY <1>9, BareMessage
    <3>2. Len(taken) = 4 /\ AskedFor
      BY <1>9 DEF TokenInv
    <3>3. Pair(taken', 3, m)
      BY <1>5, <3>2
    <3> QED BY <1>3, <3>1, <3>2, <3>3 DEF Accepted
  <2> QED BY <2>1, <2>2 DEF TokenInv, Unheard
<1>10. CASE /\ at = "result"
            /\ IF Next1 = LastCommand THEN Close("done") /\ UNCHANGED outbox
                                      ELSE SendCommand(Next1 + 1)
  <2>1. at' \in {"result", "done", "failed"}
    BY <1>10, AccessFrame DEF SendCommand, Send, Close
  <2>2. Accepted' /\ AskedFor'
    BY <1>3, <1>10 DEF TokenInv, Accepted
  <2> QED BY <2>1, <2>2 DEF TokenInv, Unheard
<1> QED BY <1>2, <1>7, <1>8, <1>9, <1>10, HearCases

\* An access that reads nothing asks for nothing but the upgrade.
LEMMA TokenIdle ==
  ASSUME TokenInv, outbox \in Seq(OwnRequests), taken' = taken,
         outbox' = Append(outbox, Request("upgrade")) \/ outbox' = outbox,
         \/ at' = at
         \/ at' \in Ended
         \/ at \in Unheard /\ at' \in Unheard
  PROVE  TokenInv'
<1>1. \A r : Asked(r)' => Asked(r) \/ r = Request("upgrade")
  BY AskedAfter, RequestsOwn
<1>2. /\ Asked(Request("auth"))' => Asked(Request("auth"))
      /\ \A q \in CommandRequests : Asked(q)' => Asked(q)
  BY <1>1 DEF CommandRequests, Request
<1>3. (Opened <=> Opened') /\ (AskedFor <=> AskedFor') /\ (Accepted <=> Accepted')
  BY DEF Opened, AskedFor, Accepted, Plain, Pair
<1> QED BY <1>2, <1>3 DEF TokenInv, Unheard, Ended

\* The server puts a whole message behind what it has said.
LEMMA MessageSaid ==
  ASSUME StreamInv, MessageInv, Say
  PROVE  MessageInv'
<1>1. PICK m \in Sayable : sent' = sent \o CellsOf(m)
  BY DEF Say
<1>2. PICK k \in Nat : Len(sent) = 2 * k
  BY DEF MessageInv
<1>3. /\ m \in Honest /\ CellsOf(m) \in Seq(Own) /\ Len(CellsOf(m)) = 2
      /\ Pair(CellsOf(m), 1, m) /\ sent \in Seq(Own) /\ taken' = taken
  BY SayHonest DEF StreamInv, Pair, Say
<1>4. Len(sent') = 2 * (k + 1) /\ k + 1 \in Nat
  <2>1. Len(sent \o CellsOf(m)) = Len(sent) + Len(CellsOf(m))
    BY <1>3, OwnParts, Zenon
  <2> QED BY <1>1, <1>2, <1>3, <2>1
<1>5. ASSUME NEW j \in Nat \ {0}, 2 * j <= Len(sent')
      PROVE  \E n \in Honest : Pair(sent', j, n)
  <2>1. CASE j <= k
    <3>1. PICK n \in Honest : Pair(sent, j, n)
      BY <1>2, <2>1 DEF MessageInv
    <3>2. Pair(sent \o CellsOf(m), j, n)
      BY <1>3, <3>1, PairKept
    <3> QED BY <1>1, <3>2
  <2>2. CASE j = k + 1
    <3>1. Pair(sent \o CellsOf(m), k + 1, m)
      BY <1>2, <1>3, PairAdded
    <3> QED BY <1>1, <1>3, <2>2, <3>1
  <2> QED BY <1>4, <1>5, <2>1, <2>2
<1> QED BY <1>3, <1>4, <1>5 DEF MessageInv

\* Every step keeps the messages whole and the handshake in its order.
LEMMA TokenStep ==
  ASSUME SessionInv, MessageInv, TokenInv, [SessionNext]_sessionVars
  PROVE  MessageInv' /\ TokenInv'
<1> USE DEF SessionInv
<1>1. outbox \in Seq(OwnRequests)
  BY DEF StreamInv
<1>2. ASSUME UNCHANGED <<sent, taken>> PROVE MessageInv'
  BY <1>2 DEF MessageInv
<1>3. CASE Lookup \/ Refused \/ Tick \/ TimesOut \/ Breaks \/ UNCHANGED sessionVars
  <2>1. UNCHANGED <<sent, taken, outbox>>
    BY <1>3 DEF Lookup, Refused, Tick, TimesOut, Breaks, streamVars, sessionVars
  <2>2. \/ at' = at
        \/ at' \in Ended
        \/ at \in Unheard /\ at' \in Unheard
    BY <1>3
    DEF Lookup, Refused, Tick, TimesOut, Breaks, Fail, Close, Ended, Unheard, sessionVars
  <2> QED BY <1>1, <1>2, <2>1, <2>2, TokenIdle
<1>4. CASE Connected \/ Handshake
  <2>1. UNCHANGED <<sent, taken>>
    BY <1>4 DEF Connected, Handshake, streamVars
  <2>2. outbox' = Append(outbox, Request("upgrade")) \/ outbox' = outbox
    BY <1>4 DEF Connected, Handshake, Send
  <2>3. at \in Unheard /\ at' \in Unheard \cup {"failed"}
    BY <1>4, AccessFrame
    DEF Connected, Handshake, BeginHandshake, Send, Fail, Close, Unheard
  <2> QED BY <1>1, <1>2, <2>1, <2>2, <2>3, TokenIdle DEF Ended
<1>5. CASE ReceiveHeaders
  <2>1. /\ UNCHANGED <<modeVars, outbox, results>> /\ at = "headers"
        /\ \/ Partial /\ buffered' = buffered /\ Await("headers")
           \/ \E c \in Seq(Own) :
                /\ Whole(c)
                /\ IF c[1][1].type = "upgrade" THEN Listen("welcome") ELSE Fail
    BY <1>5, HeadersRead
  <2>2. CASE Partial /\ Await("headers")
    <3>1. UNCHANGED <<sent, taken>> /\ at' \in {"headers", "failed"}
      BY <2>2, AccessFrame DEF Partial
    <3> QED BY <1>1, <1>2, <2>1, <3>1, TokenIdle DEF Ended
  <2>3. ASSUME NEW c \in Seq(Own), Whole(c),
               IF c[1][1].type = "upgrade" THEN Listen("welcome") ELSE Fail
        PROVE  MessageInv' /\ TokenInv'
    <3>1. MessageInv' /\ \E m \in Honest : Pair(c, 1, m)
      BY <2>3, MessageRead
    <3>2. PICK m \in Honest : Pair(c, 1, m)
      BY <3>1
    <3>3. /\ ~Asked(Request("auth")) /\ \A q \in CommandRequests : ~Asked(q)
      BY <2>1 DEF TokenInv, Unheard
    <3>4. /\ ~Asked(Request("auth"))' /\ \A q \in CommandRequests : ~Asked(q)'
      BY <2>1, <3>3 DEF Asked
    <3>5. CASE m.type = "upgrade"
      <4>1. at' \in {"welcome", "failed"}
        BY <2>3, <3>2, <3>5, AccessFrame DEF Pair, Listen
      <4>2. taken \in Seq(Own) /\ taken = <<>> /\ taken' = taken \o c
        BY <2>1, <2>3 DEF StreamInv, Unheard, Whole
      <4>3. Pair(taken', 1, m) /\ Len(taken') = 2
        <5>1. \A k \in Nat : Len(taken) = 2 * k => Pair(taken', k + 1, m)
          BY <3>2, <4>2, PairAdded
        <5>2. Len(taken) = 2 * 0
          BY <4>2, Empty
        <5>3. Len(taken') = Len(taken) + 2
          BY <2>3, TokensKept
        <5> QED BY <5>1, <5>2, <5>3
      <4>4. m = Plain("upgrade")
        BY <3>5, BareMessage
      <4> QED BY <3>1, <3>4, <4>1, <4>3, <4>4 DEF TokenInv, Opened
    <3>6. CASE m.type # "upgrade"
      <4>1. at' = "failed"
        BY <2>3, <3>2, <3>6 DEF Pair, Fail, Close
      <4> QED BY <3>1, <3>4, <4>1 DEF TokenInv
    <3> QED BY <3>5, <3>6
  <2> QED BY <2>1, <2>2, <2>3
<1>6. CASE ReadBuffered \/ ReceiveFrame
  <2>1. /\ UNCHANGED modeVars /\ at \in Hearing
        /\ \/ Partial /\ Await(at) /\ UNCHANGED <<outbox, results>>
           \/ \E c \in Seq(Own) : Whole(c) /\ Hear(c[1][1])
    BY <1>6, FrameRead
  <2>2. CASE Partial /\ Await(at) /\ UNCHANGED <<outbox, results>>
    <3>1. UNCHANGED <<sent, taken>> /\ at' \in {at, "failed"}
      BY <2>1, <2>2, AccessFrame DEF Partial
    <3> QED BY <1>1, <1>2, <2>2, <3>1, TokenIdle DEF Ended
  <2>3. ASSUME NEW c \in Seq(Own), Whole(c), Hear(c[1][1])
        PROVE  MessageInv' /\ TokenInv'
    BY <2>1, <2>3, MessageRead, TokenHeard
  <2> QED BY <2>1, <2>2, <2>3
<1>7. CASE Say
  <2>1. UNCHANGED <<at, outbox, taken>>
    BY <1>7 DEF Say
  <2> QED BY <1>1, <1>7, <2>1, MessageSaid, TokenIdle
<1> QED BY <1>3, <1>4, <1>5, <1>6, <1>7 DEF SessionNext

\* The token leaves only after the server has upgraded the connection and
\* asked for it, and no command leaves before the token was accepted
\* (live.py, the handshake of list_display_entities and _websocket_commands).
THEOREM TokenIsAskedFor == SessionSpec => []TokenAsked
<1>1. SessionInit => MessageInv /\ TokenInv
  <2> SUFFICES ASSUME SessionInit PROVE MessageInv /\ TokenInv
    OBVIOUS
  <2>1. Len(sent) = 2 * 0 /\ Len(taken) = 2 * 0
    BY Empty DEF SessionInit
  <2>2. \A r : ~Asked(r)
    BY DEF SessionInit, Asked
  <2>3. MessageInv
    <3>1. \A k \in Nat \ {0} : ~(2 * k <= Len(sent))
      BY <2>1
    <3> QED BY <2>1, <3>1 DEF MessageInv
  <2>4. TokenInv
    BY <2>2 DEF SessionInit, TokenInv
  <2> QED BY <2>3, <2>4
<1>2. SessionInv /\ MessageInv /\ TokenInv /\ [SessionNext]_sessionVars
        => MessageInv' /\ TokenInv'
  BY TokenStep
<1>3. SessionInv /\ TokenInv => TokenAsked
  <2> SUFFICES ASSUME SessionInv, TokenInv PROVE TokenAsked
    OBVIOUS
  <2>1. taken \in Seq(Own) /\ Len(taken) \in Nat
    BY LenProperties DEF SessionInv, StreamInv
  <2>2. \A i \in 1..Len(taken) : taken[i] \in Own
    BY <2>1, ElementOfSeq
  <2>3. \A m : /\ CellsOf(m)[1] = <<m, 1>> /\ CellsOf(m)[2] = <<m, 2>> /\ Len(CellsOf(m)) = 2
               /\ CellsOf(m) \in Seq({<<m, 1>>, <<m, 2>>})
    BY DEF CellsOf
  <2>4. ASSUME AskedFor
        PROVE  First(taken, 4) = CellsOf(Plain("upgrade")) \o CellsOf(Plain("auth_required"))
    <3> DEFINE u == Plain("upgrade")
               a == Plain("auth_required")
    <3>1. /\ 4 <= Len(taken)
          /\ taken[1] = <<u, 1>> /\ taken[2] = <<u, 2>> /\ taken[3] = <<a, 1>> /\ taken[4] = <<a, 2>>
      BY <2>1, <2>4 DEF AskedFor, Opened, Pair
    <3> HIDE DEF u, a
    <3>2. /\ SubSeq(taken, 1, 4) \in Seq(Own) /\ Len(SubSeq(taken, 1, 4)) = 4
          /\ \A i \in 1..4 : SubSeq(taken, 1, 4)[i] = taken[i]
      <4>1. /\ First(taken, 4) \in Seq(Own) /\ Len(First(taken, 4)) = 4
            /\ \A i \in 1..4 : First(taken, 4)[i] = taken[i]
        <5>1. 4 \in 0..Len(taken)
          BY <2>1, <3>1
        <5> QED BY <2>1, <5>1, OwnCut, Zenon
      <4> QED BY <4>1 DEF First
    <3>3. <<u, 1>> \in Own /\ <<u, 2>> \in Own /\ <<a, 1>> \in Own /\ <<a, 2>> \in Own
      <4>1. taken[1] \in Own /\ taken[2] \in Own /\ taken[3] \in Own /\ taken[4] \in Own
        <5>1. 4 <= Len(taken)
          BY <3>1
        <5>2. 1 \in 1..Len(taken) /\ 2 \in 1..Len(taken) /\ 3 \in 1..Len(taken) /\ 4 \in 1..Len(taken)
          BY <2>1, <5>1
        <5> QED BY <2>2, <5>2
      <4> QED BY <3>1, <4>1
    <3>4. CellsOf(u) \in Seq(Own) /\ CellsOf(a) \in Seq(Own)
      BY <3>3 DEF CellsOf
    <3>5. /\ CellsOf(u) \o CellsOf(a) \in Seq(Own)
          /\ Len(CellsOf(u) \o CellsOf(a)) = Len(CellsOf(u)) + Len(CellsOf(a))
          /\ \A i \in 1..Len(CellsOf(u)) : (CellsOf(u) \o CellsOf(a))[i] = CellsOf(u)[i]
          /\ \A i \in 1..Len(CellsOf(a)) :
               (CellsOf(u) \o CellsOf(a))[Len(CellsOf(u)) + i] = CellsOf(a)[i]
      BY <3>4, OwnParts, Zenon
    <3> DEFINE both == CellsOf(u) \o CellsOf(a)
    <3>6. /\ both \in Seq(Own) /\ Len(both) = 4
          /\ both[1] = <<u, 1>> /\ both[2] = <<u, 2>> /\ both[3] = <<a, 1>> /\ both[4] = <<a, 2>>
      BY <2>3, <3>5
    <3> HIDE DEF both
    <3>7. SubSeq(taken, 1, 4) = both
      <4>1. \A i \in 1..4 : SubSeq(taken, 1, 4)[i] = both[i]
        <5>1. /\ SubSeq(taken, 1, 4)[1] = both[1] /\ SubSeq(taken, 1, 4)[2] = both[2]
              /\ SubSeq(taken, 1, 4)[3] = both[3] /\ SubSeq(taken, 1, 4)[4] = both[4]
          BY <3>1, <3>2, <3>6
        <5> QED BY <5>1
      <4> QED BY <3>2, <3>6, <4>1, SeqEqual
    <3> QED BY <3>7 DEF First, both, u, a
  <2>5. ASSUME Accepted
        PROVE  SubSeq(taken, 5, 6) = CellsOf(Plain("auth_ok"))
    <3> DEFINE k == Plain("auth_ok")
    <3>1. 6 <= Len(taken) /\ taken[5] = <<k, 1>> /\ taken[6] = <<k, 2>>
      BY <2>1, <2>5 DEF Accepted, Pair
    <3> HIDE DEF k
    <3>2. \A i \in 5..6 : taken[i] \in Own
      BY <2>1, <2>2, <3>1
    <3>3. /\ SubSeq(taken, 5, 6) \in Seq(Own) /\ Len(SubSeq(taken, 5, 6)) = 2
          /\ SubSeq(taken, 5, 6)[1] = taken[5] /\ SubSeq(taken, 5, 6)[2] = taken[6]
      BY <2>1, <3>1, <3>2, SubSeqProperties
    <3>4. CellsOf(k) \in Seq(Own) /\ Len(CellsOf(k)) = 2
      BY <3>1, <3>2 DEF CellsOf
    <3>5. SubSeq(taken, 5, 6) = CellsOf(k)
      <4>1. \A i \in 1..2 : SubSeq(taken, 5, 6)[i] = CellsOf(k)[i]
        BY <2>3, <3>1, <3>3
      <4> QED BY <3>3, <3>4, <4>1, SeqEqual
    <3> QED BY <3>5 DEF k
  <2> QED BY <2>4, <2>5 DEF TokenInv, TokenAsked
<1> QED BY <1>1, <1>2, <1>3, SessionSound, PTL DEF SessionSpec
=============================================================================
