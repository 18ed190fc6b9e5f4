----------------------------- MODULE HttpEngine -----------------------------
(***************************************************************************)
(* One connection of an HTTP engine: hyper's connection future, which the   *)
(* server wraps in a timer, the request handler it polls, the connection    *)
(* the handler opens to the target, and the task that bridges an upgraded   *)
(* WebSocket.  A handler that returns an error makes hyper drop the         *)
(* connection without an answer.                                            *)
(*                                                                         *)
(* The server's timer and the handler's own run for the same                *)
(* request_timeout; the server's was started first, so the handler's is     *)
(* never due before it.  Whichever is polled first when both are due wins.  *)
(***************************************************************************)
EXTENDS Naturals, Sequences

CONSTANTS
  Paths,       \* request paths, told apart by the locations they match
  Locations,   \* the engine's locations in order: what each matches, its
               \* provider, and the paths its mock conditions hold for
  Timed,       \* request_timeout is configured
  Guarded,     \* an authenticator is configured
  MaxRequests  \* bound on the requests of the connection

VARIABLES
  conn,      \* the connection's future: open, upgraded, closed
  client,    \* there, left
  arrived,   \* the number of requests received
  request,   \* the last of them
  step,      \* where the handler is
  reply,     \* the response the handler has returned: its origin, or "none"
  answered,  \* the number of responses written
  last,      \* the origin of the last of them, or "none"
  upstream,  \* the handler's connection to the target: none, open
  bridge,    \* the bridge task: none, waiting (for the upgrade), running, over
  connDue,   \* the server's timer has expired
  stepDue,   \* the handler's timer has expired
  counted    \* calls of record_http_request

vars == <<conn, client, arrived, request, step, reply, answered, last, upstream,
          bridge, connDue, stepDue, counted>>

\* A request asks for a path, or for an upgrade, with or without its key; and it
\* passes the authenticator or not.
Requests == [asks : Paths \cup {"upgrade", "unkeyed"}, trusted : BOOLEAN]

Origins == {"unauthorized", "bad_gateway", "switching", "mock", "static", "target"}

\* Steps that wait for the target, under the handler's timer.
TimedSteps == {"handshaking", "sending"}
Steps == {"idle", "collecting", "connecting", "reading", "sleeping", "opening", "answering"}
           \cup TimedSteps

\* Before the first request.
Fresh ==
  /\ client = "there"
  /\ arrived = 0
  /\ request = [asks |-> "upgrade", trusted |-> TRUE]  \* of no meaning yet
  /\ step = "idle"
  /\ reply = "none"
  /\ answered = 0
  /\ last = "none"
  /\ upstream = "none"
  /\ bridge = "none"
  /\ connDue = FALSE
  /\ stepDue = FALSE
  /\ counted = 0

Init == conn = "open" /\ Fresh

-----------------------------------------------------------------------------
(* Dispatching: everything up to the handler's first await.                 *)

\* A mock whose conditions fail gives way to the next location; any other
\* provider takes the request.
Serves(location, path) ==
  /\ path \in location.matches
  /\ location.provider = "mock" => path \in location.holds

Provider(path) ==
  LET serving == {i \in DOMAIN Locations : Serves(Locations[i], path)} IN
  IF serving = {} THEN "proxy"
  ELSE LET first == CHOOSE i \in serving : \A j \in serving : i <= j
       IN Locations[first].provider

FirstStep(path) ==
  IF Provider(path) = "mock" THEN "sleeping"
  ELSE IF Provider(path) = "static" THEN "opening"
  ELSE "collecting"

\* A return that counts no answer the engine makes up itself.
ReturnsCountingTarget(origin) ==
  /\ step' = "answering"
  /\ reply' = origin
  /\ counted' = IF origin \in {"unauthorized", "bad_gateway"} THEN counted ELSE counted + 1
  /\ stepDue' = FALSE

\* The handler returns a response, which it has counted.
Returns(origin) ==
  /\ step' = "answering"
  /\ reply' = origin
  /\ counted' = counted + 1
  /\ stepDue' = FALSE

GoesOn(next) ==
  /\ step' = next
  /\ UNCHANGED <<reply, counted, stepDue>>

Refused(r) == Guarded /\ ~r.trusted

Arrives(r) ==
  /\ conn = "open"
  /\ client = "there"
  /\ step = "idle"
  /\ arrived < MaxRequests
  /\ arrived' = arrived + 1
  /\ request' = r
  /\ \/ Refused(r) /\ Returns("unauthorized")
     \/ ~Refused(r) /\ r.asks = "unkeyed" /\ Returns("bad_gateway")
     \/ ~Refused(r) /\ r.asks = "upgrade" /\ GoesOn("handshaking")
     \/ ~Refused(r) /\ r.asks \in Paths /\ GoesOn(FirstStep(r.asks))
  /\ UNCHANGED <<conn, client, answered, last, upstream, bridge, connDue>>

-----------------------------------------------------------------------------
(* The handler.                                                             *)

\* The connection's future ends: the handler and all it holds are dropped.
Drops ==
  /\ conn' = "closed"
  /\ step' = "idle"
  /\ reply' = "none"
  /\ upstream' = "none"
  /\ stepDue' = FALSE

\* The service returns an error, and hyper closes the connection.
HandlerFails ==
  /\ conn = "open"
  /\ step \in Steps \ {"idle", "handshaking", "answering"}
  /\ Drops
  /\ UNCHANGED <<client, arrived, request, answered, last, bridge, connDue,
                 counted>>

\* The answers of mocks and of static files.
AnswersLocally ==
  /\ conn = "open"
  /\ \/ step = "sleeping" /\ Returns("mock")
     \/ step = "opening" /\ Returns("static")
  /\ UNCHANGED <<conn, client, arrived, request, answered, last, upstream,
                 bridge, connDue>>

\* The client's body is collected before the target is dialled, and the
\* target's answer before the client's is started.
Collected ==
  /\ conn = "open"
  /\ step = "collecting"
  /\ step' = "connecting"
  /\ UNCHANGED <<conn, client, arrived, request, reply, answered, last,
                 upstream, bridge, connDue, stepDue, counted>>

Connected ==
  /\ conn = "open"
  /\ step = "connecting"
  /\ upstream' = "open"
  /\ step' = "sending"
  /\ UNCHANGED <<conn, client, arrived, request, reply, answered, last,
                 bridge, connDue, stepDue, counted>>

HeadReceived ==
  /\ conn = "open"
  /\ step = "sending"
  /\ step' = "reading"
  /\ stepDue' = FALSE
  /\ UNCHANGED <<conn, client, arrived, request, reply, answered, last,
                 upstream, bridge, connDue, counted>>

BodyReceived ==
  /\ conn = "open"
  /\ step = "reading"
  /\ Returns("target")
  /\ upstream' = "none"
  /\ UNCHANGED <<conn, client, arrived, request, answered, last, bridge,
                 connDue>>

\* A 101 of the target: the handler leaves the target's socket to a task and
\* returns a 101 of its own.  What the target sent behind its head and the same read
\* brought is in DataPath.
HandshakeAccepted ==
  /\ conn = "open"
  /\ step = "handshaking"
  /\ bridge' = "waiting"
  /\ Returns("switching")
  /\ UNCHANGED <<conn, client, arrived, request, answered, last, upstream,
                 connDue>>

\* The target refuses, cannot be reached or sends no header's end.
HandshakeRefused ==
  /\ conn = "open"
  /\ step = "handshaking"
  /\ Returns("bad_gateway")
  /\ UNCHANGED <<conn, client, arrived, request, answered, last, upstream,
                 bridge, connDue>>

\* The handler's timer: a handshake is answered 502, a request fails.
StepTimesOut ==
  /\ conn = "open"
  /\ stepDue
  /\ \/ /\ step = "handshaking"
        /\ Returns("bad_gateway")
        /\ UNCHANGED <<conn, upstream>>
     \/ /\ step = "sending"
        /\ Drops
        /\ UNCHANGED counted
  /\ UNCHANGED <<client, arrived, request, answered, last, bridge, connDue>>

-----------------------------------------------------------------------------
(* The connection.                                                          *)

\* A response is written.  A 101 ends the connection's future and resolves the
\* upgrade; a 502 says Connection: close.
Writes ==
  /\ conn = "open"
  /\ step = "answering"
  /\ answered' = answered + 1
  /\ last' = reply
  /\ reply' = "none"
  /\ step' = "idle"
  /\ conn' = IF reply = "switching" THEN "upgraded"
             ELSE IF reply = "bad_gateway" THEN "closed" ELSE "open"
  /\ UNCHANGED <<client, arrived, request, upstream, bridge, connDue, stepDue,
                 counted>>

\* A timeout that only counts while no request is in hand.
ConnTimesOutIdle ==
  /\ conn = "open"
  /\ connDue
  /\ step = "idle"
  /\ Drops
  /\ UNCHANGED <<client, arrived, request, answered, last, bridge, connDue,
                 counted>>

ConnTimesOut ==
  /\ conn = "open"
  /\ connDue
  /\ Drops
  /\ UNCHANGED <<client, arrived, request, answered, last, bridge, connDue,
                 counted>>

\* hyper reads the end of the client's stream.
SeesClientLeave ==
  /\ conn = "open"
  /\ client = "left"
  /\ Drops
  /\ UNCHANGED <<client, arrived, request, answered, last, bridge, connDue,
                 counted>>

\* The bridge task gets the upgraded stream, or learns that there is none and
\* drops the target's socket.
BridgeStarts ==
  /\ bridge = "waiting"
  /\ conn # "open"
  /\ bridge' = IF conn = "upgraded" THEN "running" ELSE "over"
  /\ UNCHANGED <<conn, client, arrived, request, step, reply, answered, last,
                 upstream, connDue, stepDue, counted>>

\* The tunnel of module Tunnel comes to its end.
BridgeEnds ==
  /\ bridge = "running"
  /\ bridge' = "over"
  /\ UNCHANGED <<conn, client, arrived, request, step, reply, answered, last,
                 upstream, connDue, stepDue, counted>>

ClientLeaves ==
  /\ conn = "open"
  /\ client = "there"
  /\ client' = "left"
  /\ UNCHANGED <<conn, arrived, request, step, reply, answered, last,
                 upstream, bridge, connDue, stepDue, counted>>

ConnTimerExpires ==
  /\ Timed
  /\ conn = "open"
  /\ ~connDue
  /\ connDue' = TRUE
  /\ UNCHANGED <<conn, client, arrived, request, step, reply, answered, last,
                 upstream, bridge, stepDue, counted>>

StepTimerExpires ==
  /\ Timed
  /\ connDue
  /\ step \in TimedSteps
  /\ ~stepDue
  /\ stepDue' = TRUE
  /\ UNCHANGED <<conn, client, arrived, request, step, reply, answered, last,
                 upstream, bridge, connDue, counted>>

-----------------------------------------------------------------------------
TargetStep == Connected \/ HeadReceived \/ BodyReceived \/ HandshakeRefused

HandlerStep == Collected \/ AnswersLocally \/ HandlerFails \/ StepTimesOut

ConnStep == Writes \/ ConnTimesOut \/ SeesClientLeave

EngineStep ==
  \/ \E r \in Requests : Arrives(r)
  \/ TargetStep \/ HandlerStep \/ ConnStep
  \/ ClientLeaves \/ ConnTimerExpires \/ StepTimerExpires

Next == EngineStep \/ HandshakeAccepted \/ BridgeStarts \/ BridgeEnds

Spec == Init /\ [][Next]_vars

-----------------------------------------------------------------------------
\* A connection to the target belongs to a request that is on its way, and a
\* closed connection holds nothing.
TypeOK ==
  /\ conn \in {"open", "upgraded", "closed"} /\ client \in {"there", "left"}
  /\ arrived \in 0 .. MaxRequests /\ request \in Requests
  /\ step \in Steps /\ reply \in Origins \cup {"none"}
  /\ answered \in 0 .. MaxRequests /\ last \in Origins \cup {"none"}
  /\ bridge \in {"none", "waiting", "running", "over"}
  /\ connDue \in BOOLEAN /\ stepDue \in BOOLEAN /\ counted \in Nat
  /\ upstream = IF step \in {"sending", "reading"} THEN "open" ELSE "none"
  /\ reply # "none" <=> step = "answering"
  /\ stepDue => connDue /\ step \in TimedSteps
  /\ conn # "open" => step = "idle"

\* What a request that is not trusted gets, on a guarded engine, is a 401: it
\* reaches no location, no target and no bridge, as a plain request or as an
\* upgrade, whatever came before it on the connection.
OnlyTrustedAreServed ==
  Refused(request) =>
    /\ step \in {"idle", "answering"}
    /\ reply \in {"none", "unauthorized"}
    /\ bridge = "none"

\* A bridge joins two sides that have both agreed: it runs after the target's 101
\* and after the client's, which is the last answer of the connection.
BridgesJoinAgreedSides ==
  /\ bridge = "running" => conn = "upgraded"
  /\ bridge = "waiting" /\ conn = "open" => reply = "switching"
  /\ conn = "upgraded" => bridge # "none" /\ last = "switching"

\* The k-th answer is for the k-th request.  The metrics count every answer once;
\* they run ahead of the client by the one that is being written, or that was
\* lost when the connection was dropped.
CountsMatchAnswers ==
  /\ answered <= arrived
  /\ conn = "open" => arrived = answered + (IF step = "idle" THEN 0 ELSE 1)
  /\ counted \in {answered, answered + 1}
  /\ conn = "open" => (counted > answered <=> step = "answering")

\* Under request_timeout neither a client nor a target that falls silent keeps a
\* socket: the connection comes to its end, with it the handler's connection to
\* the target, and a target's socket left to a bridge is bridged or dropped.
SilenceIsBounded ==
  /\ Timed => (conn = "open" ~> conn # "open")
  /\ Timed => (upstream = "open" ~> upstream = "none")
  /\ Timed => (bridge = "waiting" ~> bridge # "waiting")

=============================================================================
