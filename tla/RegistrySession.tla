--------------------------- MODULE RegistrySession ---------------------------
(***************************************************************************)
(* One session with the registry WebSocket of Home Assistant (live.py):    *)
(* lookup of the host, connection, TLS, upgrade, authentication, commands. *)
(* It is either list_display_entities, with one command, or               *)
(* _websocket_commands, with all of list_registry's.                       *)
(*                                                                         *)
(* Time is discrete, and `until' is when the access in progress times out. *)
(* An access can be over by then and the program still be late, because    *)
(* it was not scheduled: what it looks at after an access is `now'.        *)
(*                                                                         *)
(* A message of the server is a pair of cells, which the network delivers  *)
(* in chunks cut anywhere. The server is any: it answers what it was sent, *)
(* or not, twice, in any order, and says other things in between.          *)
(***************************************************************************)
EXTENDS Naturals, Sequences

CONSTANTS
  Deadline,     \* _DISCOVERY_TIMEOUT_SECONDS
  Addresses,    \* how many addresses the resolver returns at most
  CommandCount, \* the commands of list_registry
  MaxMessages   \* bound: what the server says in one session

ASSUME SessionAssumption ==
  /\ Deadline \in Nat \ {0} /\ Addresses \in Nat \ {0}
  /\ CommandCount \in Nat \ {0} /\ MaxMessages \in Nat

VARIABLES
  display,   \* is it list_display_entities?
  secure,    \* the scheme of the origin is https
  at,        \* the access in progress
  now, until,
  timeout,   \* the duration set on the socket
  left,      \* addresses not yet tried
  sockets,   \* open sockets
  outbox,    \* what was sent: the upgrade, the token, commands with ids
  sent,      \* history: the cells of the server
  wire,      \* those not received
  buffered,  \* those received together with the upgrade response
  data,      \* those of the message in progress
  taken,     \* history: those of decoded messages
  results    \* what the commands returned

modeVars   == <<display, secure>>
clockVars  == <<now, until, timeout>>
socketVars == <<left, sockets>>
streamVars == <<sent, wire, buffered, data, taken>>
sessionVars == <<modeVars, at, clockVars, socketVars, outbox, streamVars, results>>

-----------------------------------------------------------------------------
Commands == 1..CommandCount
Ended    == {"done", "failed"}
Hearing  == {"welcome", "auth", "result"}

\* "event" is every message that the session has no use for: a refused
\* token, a command that failed, an event, a frame that is not text.
Messages ==
  [type : {"upgrade", "auth_required", "auth_ok", "event"}, id : {0}, about : {0}]
    \cup [type : {"result"}, id : Commands, about : Commands]

Plain(type)     == [type |-> type, id |-> 0, about |-> 0]
CellsOf(m)      == << <<m, 1>>, <<m, 2>> >>
Cells           == Messages \X {1, 2}
Request(what)   == [what |-> what, id |-> 0, command |-> 0]
CommandRequests == [what : {"command"}, id : Commands, command : Commands]
Requests        == {Request("upgrade"), Request("auth")} \cup CommandRequests
LastCommand     == IF display THEN 1 ELSE CommandCount

SessionTypeOK ==
  /\ display \in BOOLEAN /\ secure \in BOOLEAN
  /\ at \in {"lookup", "connect", "handshake", "headers"} \cup Hearing \cup Ended
  /\ now \in 0..until /\ until \in Deadline..2 * Deadline /\ timeout \in 0..Deadline
  /\ left \in 0..Addresses
  /\ sockets \in {0, 1}
  /\ outbox \in Seq(Requests)
  /\ {sent, wire, buffered, taken} \subseteq Seq(Cells)
  /\ data \in Seq(Cells) /\ Len(data) < 2
  /\ results \in Seq(Commands) /\ Len(results) <= LastCommand

SessionInit ==
  /\ display \in BOOLEAN /\ secure \in BOOLEAN
  /\ at = "lookup" /\ now = 0 /\ until = Deadline /\ timeout = 0
  /\ left = 0 /\ sockets = 0
  /\ outbox = <<>> /\ results = <<>>
  /\ sent = <<>> /\ wire = <<>> /\ buffered = <<>> /\ data = <<>> /\ taken = <<>>

-----------------------------------------------------------------------------
(* What follows an access.                                                 *)

\* Every way out closes the socket.
Close(how) == at' = how /\ sockets' = 0 /\ UNCHANGED <<clockVars, left>>
Fail       == Close("failed")

InTime == now < Deadline

\* _remaining, and the socket's timeout set to it.
Await(point) ==
  IF InTime
    THEN /\ at' = point
         /\ timeout' = Deadline - now /\ until' = Deadline
         /\ UNCHANGED <<now, left, sockets>>
    ELSE Fail

\* Mutant: no look at the clock before something is sent.
SendAnyhow(what, point) ==
  /\ at' = point
  /\ outbox' = Append(outbox, what)
  /\ UNCHANGED <<clockVars, left, sockets>>

\* _send, and the wait for the answer.
Send(what, point) ==
  /\ outbox' = IF InTime THEN Append(outbox, what) ELSE outbox
  /\ Await(point)

-----------------------------------------------------------------------------
(* _resolve_addresses and _connect                                         *)

\* The lookup can fail; an answer that comes too late is not used.
Lookup ==
  /\ at = "lookup"
  /\ \/ /\ InTime
        /\ left' \in 0..(Addresses - 1)
        /\ at' = "connect" /\ sockets' = sockets + 1
        /\ timeout' = Deadline - now /\ until' = Deadline
        /\ UNCHANGED now
     \/ Fail
  /\ UNCHANGED <<modeVars, outbox, streamVars, results>>

\* Mutant: the last address is not noticed.
RefusedAgain ==
  /\ at = "connect"
  /\ IF InTime
       THEN /\ left' = left - 1
            /\ timeout' = Deadline - now
            /\ UNCHANGED <<at, now, until, sockets>>
       ELSE Fail
  /\ UNCHANGED <<modeVars, outbox, streamVars, results>>

\* The address refuses; the next one gets what remains of the time.
Refused ==
  /\ at = "connect"
  /\ IF left > 0 /\ InTime
       THEN /\ left' = left - 1
            /\ timeout' = Deadline - now
            /\ UNCHANGED <<at, now, until, sockets>>
       ELSE Fail
  /\ UNCHANGED <<modeVars, outbox, streamVars, results>>

\* Mutant: neither operation refreshes the timeout for the handshake.
BeginHandshakeStale ==
  /\ at' = "handshake"
  /\ until' = now + timeout
  /\ UNCHANGED <<now, timeout, left, sockets>>

\* list_display_entities sets the timeout anew; _websocket_commands leaves
\* the socket the one it was connected with.
BeginHandshake ==
  IF display THEN Await("handshake")
  ELSE /\ at' = "handshake"
       /\ until' = now + timeout
       /\ UNCHANGED <<now, timeout, left, sockets>>

\* Mutant: a connection that comes too late is left open.
ConnectedCarelessly ==
  /\ at = "connect"
  /\ IF ~InTime THEN at' = "failed" /\ UNCHANGED <<clockVars, socketVars, outbox>>
     ELSE IF secure
       THEN BeginHandshake /\ UNCHANGED outbox
       ELSE Send(Request("upgrade"), "headers")
  /\ UNCHANGED <<modeVars, streamVars, results>>

Connected ==
  /\ at = "connect"
  /\ IF ~InTime THEN Fail /\ UNCHANGED outbox
     ELSE IF secure
       THEN BeginHandshake /\ UNCHANGED outbox
       ELSE Send(Request("upgrade"), "headers")
  /\ UNCHANGED <<modeVars, streamVars, results>>

\* A certificate that does not fit fails it.
Handshake ==
  /\ at = "handshake"
  /\ \/ Send(Request("upgrade"), "headers")
     \/ Fail /\ UNCHANGED outbox
  /\ UNCHANGED <<modeVars, streamVars, results>>

-----------------------------------------------------------------------------
(* _read_headers, _read_frame and what is done with a message.             *)

First(seq, n) == SubSeq(seq, 1, n)
Rest(seq, n)  == SubSeq(seq, n + 1, Len(seq))

\* Mutant: what came with the headers is dropped.
SplitHeaders(cells) == buffered' = <<>>

KeepRest(cells) == buffered' = Rest(cells, 2)

\* The wait for a frame, unless it is here: then the clock is not looked at.
Listen(point) ==
  IF Len(buffered') >= 2
    THEN at' = point /\ UNCHANGED <<clockVars, left, sockets>>
    ELSE Await(point)

\* A chunk of at most 1024 bytes, and another one until the headers are whole.
ReceiveHeaders ==
  /\ at = "headers"
  /\ \E n \in 1..Len(wire) :
       LET cells == data \o First(wire, n) IN
         /\ wire' = Rest(wire, n)
         /\ IF Len(cells) < 2
              THEN data' = cells /\ UNCHANGED <<buffered, taken>> /\ Await("headers")
              ELSE /\ data' = <<>>
                   /\ taken' = taken \o First(cells, 2)
                   /\ KeepRest(cells)
                   /\ IF cells[1][1].type = "upgrade" THEN Listen("welcome") ELSE Fail
  /\ UNCHANGED <<modeVars, outbox, sent, results>>

\* Mutant: every command has the same id.
SameId(n) == 1

IdOf(n) == n

Next1 == Len(results) + 1

\* Mutant: the token is sent without waiting to be asked.
ExpectsAnything(m) ==
  CASE at = "welcome" -> TRUE
    [] at = "auth"    -> m.type = "auth_ok"
    [] at = "result"  -> m.type = "result" /\ m.id = IdOf(Next1)

Expects(m) ==
  CASE at = "welcome" -> m.type = "auth_required"
    [] at = "auth"    -> m.type = "auth_ok"
    [] at = "result"  -> m.type = "result" /\ m.id = IdOf(Next1)

SendCommand(n) ==
  Send([what |-> "command", id |-> IdOf(n), command |-> n], "result")

Hear(m) ==
  IF ~Expects(m) THEN Fail /\ UNCHANGED <<outbox, results>>
  ELSE \/ at = "welcome" /\ Send(Request("auth"), "auth") /\ UNCHANGED results
       \/ at = "auth" /\ SendCommand(1) /\ UNCHANGED results
       \/ /\ at = "result"
          /\ results' = Append(results, m.about)
          /\ IF Next1 = LastCommand THEN Close("done") /\ UNCHANGED outbox
                                    ELSE SendCommand(Next1 + 1)

\* What _read_exact has so far: the rest is waited for, or it is a message.
Gather(cells) ==
  IF Len(cells) < 2
    THEN data' = cells /\ UNCHANGED <<taken, outbox, results>> /\ Await(at)
    ELSE data' = <<>> /\ taken' = taken \o cells /\ Hear(cells[1][1])

Missing == 2 - Len(data)
Least(m, n) == IF m < n THEN m ELSE n

ReadBuffered ==
  /\ at \in Hearing /\ buffered # <<>>
  /\ LET n == Least(Missing, Len(buffered)) IN
       /\ buffered' = Rest(buffered, n)
       /\ Gather(data \o First(buffered, n))
  /\ UNCHANGED <<modeVars, sent, wire>>

ReceiveFrame ==
  /\ at \in Hearing /\ buffered = <<>>
  /\ \E n \in 1..Least(Missing, Len(wire)) :
       /\ wire' = Rest(wire, n)
       /\ Gather(data \o First(wire, n))
  /\ UNCHANGED <<modeVars, sent, buffered>>

-----------------------------------------------------------------------------
(* The world.                                                              *)

Tick ==
  /\ at \notin Ended /\ now < until
  /\ now' = now + 1
  /\ UNCHANGED <<modeVars, at, until, timeout, socketVars, outbox, streamVars, results>>

\* Mutant: frames are awaited without a timeout.
TimesOutConnecting ==
  /\ at \notin Ended \cup Hearing /\ now = until
  /\ Fail
  /\ UNCHANGED <<modeVars, outbox, streamVars, results>>

TimesOut ==
  /\ at \notin Ended /\ now = until
  /\ Fail
  /\ UNCHANGED <<modeVars, outbox, streamVars, results>>

\* The connection breaks, or the server closes it.
Breaks ==
  /\ at \in {"headers"} \cup Hearing
  /\ Fail
  /\ UNCHANGED <<modeVars, outbox, streamVars, results>>

Asked(request) == \E i \in DOMAIN outbox : outbox[i] = request

\* The server answers a command under the id it came with.
Sayable ==
  {Plain("upgrade"), Plain("auth_required"), Plain("event")}
    \cup (IF Asked(Request("auth")) THEN {Plain("auth_ok")} ELSE {})
    \cup {[type |-> "result", id |-> r.id, about |-> r.command] :
            r \in {q \in CommandRequests : Asked(q)}}

Say ==
  /\ at \in {"headers"} \cup Hearing
  /\ Len(sent) < 2 * MaxMessages
  /\ \E m \in Sayable : sent' = sent \o CellsOf(m) /\ wire' = wire \o CellsOf(m)
  /\ UNCHANGED <<modeVars, at, clockVars, socketVars, outbox, buffered, data, taken,
                 results>>

SessionNext ==
  \/ Lookup \/ Refused \/ Connected \/ Handshake
  \/ ReceiveHeaders \/ ReadBuffered \/ ReceiveFrame
  \/ Tick \/ TimesOut \/ Breaks \/ Say

\* Time passes, and a timeout ends the access it was set for.
SessionSpec ==
  SessionInit /\ [][SessionNext]_sessionVars /\ WF_sessionVars(Tick) /\ WF_sessionVars(TimesOut)

-----------------------------------------------------------------------------
(* Properties.                                                             *)

\* No cell is lost, read twice or out of turn, however the chunks are cut
\* and however much of the stream came with the headers.
StreamWhole == taken \o data \o buffered \o wire = sent

\* A result belongs to the command it is returned for, whatever is repeated
\* or said in between.
ResultsBelong == \A i \in DOMAIN results : results[i] = i

\* The token leaves after the server has upgraded and asked for it, and no
\* command before it was accepted.
TokenAsked ==
  /\ Asked(Request("auth")) => First(taken, 4) = CellsOf(Plain("upgrade"))
                                          \o CellsOf(Plain("auth_required"))
  /\ (\E q \in CommandRequests : Asked(q)) =>
        SubSeq(taken, 5, 6) = CellsOf(Plain("auth_ok"))

\* Nothing is sent once the deadline has passed, though a handshake that
\* runs on the timeout of the connect can itself pass it.
NothingSentLate == [][outbox' # outbox => now < Deadline]_sessionVars

\* The session ends by the deadline. Only a TLS handshake of
\* _websocket_commands goes on longer, and never twice as long.
EndsInTime ==
  now <= Deadline \/ (~display /\ at \in {"handshake", "failed"} /\ now < 2 * Deadline)

\* However a session ends, its socket is closed; and it has one at a time.
SocketsClosed == sockets = IF at \in {"lookup"} \cup Ended THEN 0 ELSE 1

\* Every session ends, whatever the server does.
SessionEnds == <>(at \in Ended)
=============================================================================
