---------------------------- MODULE ForwardProxy ----------------------------
(***************************************************************************)
(* One connection, from its first byte to its tunnel or its answer, through *)
(* one of the doors that lead to another host:                              *)
(*   "acceptor"   HttpProxyAcceptor, which a Forward engine runs: it takes  *)
(*                the head of the request from a single read                *)
(*   "service"    HttpProxyService, the same over hyper, without tunnels     *)
(*   "converter"  ProxyConverter, which lends its own account at an upstream *)
(*                proxy to clients that have none                           *)
(*   "engine"     HttpClient, when an HTTP engine names an upstream proxy    *)
(* The last two go through UpstreamProxyConnector, with its CONNECT and its  *)
(* NTLM handshake, each reply taken from a single read.                      *)
(*                                                                         *)
(* A stream is a sequence of units: the lines of a head, then numbered      *)
(* bytes.  What two sockets do to a tunnel once it stands is Tunnel.          *)
(***************************************************************************)
EXTENDS Ntlm, Sequences, SequencesExt, FiniteSets

CONSTANTS
  Hosts,       \* the hosts named in requests, each the set of the configured
               \* patterns it contains
  Allowed, Blocked,  \* the patterns of the configuration
  AuthEnabled,       \* auth.enabled
  AllowConnect,      \* allow_connect
  Account,           \* of the NTLM configuration
  Replies,           \* the messages 2 an upstream may send
  MaxBytes           \* bound on the bytes that follow a head

ASSUME ForwardConstants ==
  /\ Allowed \cap Blocked = {}
  /\ \A h \in Hosts : h \subseteq Allowed \cup Blocked
  /\ AuthEnabled \in BOOLEAN /\ AllowConnect \in BOOLEAN
  /\ Account \in Accounts
  /\ MaxBytes \in Nat

\* A reply is read into 8192 bytes, of which a message in base64 has 6144 at most.
ASSUME RepliesAssumption ==
  \A m \in Replies :
    m.size \in Nat /\ m.size <= 6144 /\ m.infoLength \in Nat /\ m.infoOffset \in Nat

VARIABLES
  door,      \* the handler that has the connection
  via,       \* the upstream proxy's protocol and authentication, or "direct"
  req,       \* what the client asks for
  arrived,   \* units of the client's stream at the proxy's socket
  eager,     \* a byte beyond the head was sent before any answer
  cut,       \* the read that was taken for the head ended within it
  phase,     \* where the handler is
  answer,    \* what the client was told: a status, the target's reply, nothing
  reached,   \* a connection to the target, or to it through the upstream
  taken,     \* units of the client's stream the handler has read
  carried,   \* the units of the client's stream the target was sent
  greeting,  \* the number of bytes the target has sent into the tunnel
  heard,     \* those the client was sent
  passed,    \* the number of those that the proxy has read
  type3      \* the message 3 sent, or <<>>

vars == <<door, via, req, arrived, eager, cut, phase, answer, reached, taken,
          carried, greeting, heard, passed, type3>>

-----------------------------------------------------------------------------
(* What is asked for.                                                       *)

Requests ==
  {r \in [proper : BOOLEAN,       \* the request line has three words
          method : {"CONNECT", "POST"},
          absolute : BOOLEAN,     \* the target has a scheme and a host
          creds : {"none", "bad", "good"},
          host : Hosts,
          bytes : 0 .. MaxBytes] :      \* after the head
     r.method = "CONNECT" => ~r.absolute}

\* The client's stream.
HeadOf(r) == IF r.creds = "none" THEN <<"line", "end">> ELSE <<"line", "creds", "end">>
Stream(r) == HeadOf(r) \o [i \in 1 .. r.bytes |-> "byte"]
Length(r) == Len(HeadOf(r))

\* The positions of a stream from one to another, in order.
Units(from, to) == [i \in 1 .. IF to < from THEN 0 ELSE to - from + 1 |-> from + i - 1]

\* What a read of k units shows of the head: a request line, and the end of it.
HasLine(k) == k > 0 /\ req.proper
HasEnd(k) == k >= Length(req)

HostAllowed(h) ==
  /\ h \cap Blocked = {}
  /\ Allowed # {} => h \cap Allowed # {}

\* A Basic header with a user and that user's password.
Known(creds) == creds = "good"

\* One that takes the presence of the header for its validity.
TrustedByHeader(k) ==
  AuthEnabled => \E i \in 1 .. k : Stream(req)[i] = "creds"

\* authenticate, with the headers of a read.
Trusted(k) ==
  AuthEnabled => /\ Known(req.creds)
                 /\ \E i \in 1 .. k : Stream(req)[i] = "creds"

\* The URL of an upstream proxy.  Without a port it is refused; a user without a
\* password is dropped; socks5 is read, and then spoken to like http.
Urls == [scheme : {"http", "https", "socks5", "none"},
         auth : {"none", "user", "user:password"},
         port : {"none", "number", "other"}]
FromUrl(u) ==
  IF u.port # "number" THEN {}
  ELSE IF u.scheme = "https" THEN {"https"}
  ELSE IF u.auth = "user:password" THEN {"basic"} ELSE {"plain"}

\* Upstream proxies by protocol and authentication: ntlm is set apart from a URL.
Upstreams == {"ntlm"} \cup UNION {FromUrl(u) : u \in Urls}

Init ==
  /\ \/ door \in {"acceptor", "service"} /\ via = "direct"
     \/ door = "converter" /\ via \in Upstreams
     \/ door = "engine" /\ via = "plain"
  /\ req \in Requests
  /\ door = "engine" => req.method # "CONNECT"
  /\ arrived = 0 /\ taken = 0
  /\ eager = FALSE /\ cut = FALSE
  /\ phase = "head"
  /\ answer = "none"
  /\ reached = FALSE
  /\ carried = <<>>
  /\ greeting = 0 /\ passed = 0 /\ heard = <<>>
  /\ type3 = <<>>

-----------------------------------------------------------------------------
(* The client, and the target of a tunnel, send when they like.              *)

Sends ==
  /\ phase # "closed"
  /\ arrived < Len(Stream(req))
  /\ arrived' = arrived + 1
  /\ eager' = (eager \/ (arrived >= Length(req) /\ answer = "none"))
  /\ UNCHANGED <<door, via, req, cut, phase, answer, reached, taken, carried,
                 greeting, heard, passed, type3>>

\* Behind an upstream, the target may speak before the upstream's 200 is read.
Greets ==
  /\ req.method = "CONNECT"
  /\ phase \in {"asked", "negotiating", "answering", "tunnel"}
  /\ greeting < MaxBytes
  /\ greeting' = greeting + 1
  /\ UNCHANGED <<door, via, req, arrived, eager, cut, phase, answer, reached, taken,
                 carried, heard, passed, type3>>

-----------------------------------------------------------------------------
(* The head.                                                                *)

\* The handler returns, and the connection is closed after what was written.
Closes(status) ==
  /\ phase' = "closed"
  /\ answer' = IF answer = "none" THEN status ELSE answer

Proceeds(next) ==
  /\ phase' = next
  /\ UNCHANGED answer

tunnelVars == <<carried, greeting, heard, passed>>
headVars == <<door, via, req, arrived, eager>>

\* request_timeout, the end of the stream, or an error.
HeadFails ==
  /\ phase = "head"
  /\ Closes("none")
  /\ UNCHANGED <<headVars, cut, reached, taken, tunnelVars, type3>>

\* What a head of k units leads to.  A head without its end panics at
\* &lines[1..header_end] if it is to be forwarded.
AcceptorDecides(k) ==
  \/ ~HasLine(k) /\ Closes("none")
  \/ HasLine(k) /\ ~Trusted(k) /\ Closes("407")
  \/ HasLine(k) /\ Trusted(k) /\ req.method = "CONNECT" /\ Proceeds("connecting")
  \/ /\ HasLine(k) /\ Trusted(k) /\ req.method # "CONNECT"
     /\ \/ ~req.absolute /\ Closes("400")
        \/ req.absolute /\ ~HasEnd(k) /\ Closes("none")
        \/ req.absolute /\ HasEnd(k) /\ ~HostAllowed(req.host) /\ Closes("403")
        \/ req.absolute /\ HasEnd(k) /\ HostAllowed(req.host) /\ Proceeds("connecting")

ServiceDecides(k) ==
  \/ ~req.proper /\ Closes("400")
  \/ req.proper /\ ~Trusted(k) /\ Closes("407")
  \/ /\ req.proper /\ Trusted(k) /\ req.method = "CONNECT"
     /\ Closes(IF ~AllowConnect THEN "405"
               ELSE IF HostAllowed(req.host) THEN "400" ELSE "403")
  \/ /\ req.proper /\ Trusted(k) /\ req.method # "CONNECT"
     /\ \/ ~req.absolute /\ Closes("400")
        \/ req.absolute /\ ~HostAllowed(req.host) /\ Closes("403")
        \/ req.absolute /\ HostAllowed(req.host) /\ Proceeds("connecting")

\* The converter asks nobody for a password; a target without a host is localhost.
ConverterDecides(k) ==
  \/ ~HasLine(k) /\ Closes("none")
  \/ HasLine(k) /\ Proceeds("connecting")

\* One read of what has arrived, up to 8192 bytes.
OneRead == arrived > 0 /\ taken' \in 0 .. arrived

\* Hyper reads until the head is there.
WholeHead == HasEnd(arrived) /\ taken' = Length(req)

\* The handler of an HTTP engine has collected the request.
WholeRequest == req.proper /\ arrived = Len(Stream(req)) /\ taken' = arrived

HeadRead ==
  /\ phase = "head"
  /\ \/ door = "acceptor" /\ OneRead /\ AcceptorDecides(taken')
     \/ door = "service" /\ WholeHead /\ ServiceDecides(taken')
     \/ door = "converter" /\ OneRead /\ ConverterDecides(taken')
     \/ door = "engine" /\ WholeRequest /\ Proceeds("connecting")
  /\ cut' = ~HasEnd(taken')
  /\ UNCHANGED <<headVars, reached, tunnelVars, type3>>

-----------------------------------------------------------------------------
(* The connection to the target, or to the upstream proxy.                   *)

Upstream == via # "direct"
Tunnels == req.method = "CONNECT"

\* connect_timeout, or a refusal.
ConnectFails ==
  /\ phase = "connecting"
  /\ Closes("none")
  /\ UNCHANGED <<headVars, cut, reached, taken, tunnelVars, type3>>

\* handle_connect looks at neither allow_connect nor the lists of hosts.
ConnectsTunnel ==
  /\ phase = "connecting" /\ ~Upstream /\ Tunnels
  /\ reached' = TRUE
  /\ phase' = "tunnel" /\ answer' = "200"
  /\ UNCHANGED <<headVars, cut, taken, tunnelVars, type3>>

\* The acceptor counts the empty line twice, so the body it cuts out of its read
\* begins two bytes late, and it reads no more of it.
AcceptorBody == Units(Length(req) + 3, taken)

\* The acceptor sends the body it has; hyper sends the service's as it comes.
ConnectsToForward ==
  /\ phase = "connecting" /\ ~Upstream /\ ~Tunnels
  /\ reached' = TRUE
  /\ carried' = IF door = "acceptor" THEN AcceptorBody ELSE <<>>
  /\ Proceeds("awaiting")
  /\ UNCHANGED <<headVars, cut, taken, greeting, heard, passed, type3>>

\* wrap_tls is an error.  A converter's request is written without its body, and
\* the rest of the tunnels begin with a CONNECT.
ConnectsToUpstream ==
  /\ phase = "connecting" /\ Upstream
  /\ \/ via = "https" /\ Closes("none") /\ UNCHANGED reached
     \/ /\ via # "https" /\ ~Tunnels /\ door = "converter"
        /\ Proceeds("relaying") /\ reached' = TRUE
     \/ /\ via # "https" /\ (Tunnels \/ door = "engine")
        /\ Proceeds(IF via = "ntlm" THEN "negotiating" ELSE "asked")
        /\ UNCHANGED reached
  /\ UNCHANGED <<headVars, cut, taken, tunnelVars, type3>>

-----------------------------------------------------------------------------
(* The upstream's replies to a CONNECT, under no timer.                       *)

\* A 200: what came with it in the read is lost.
Granted ==
  /\ phase \in {"asked", "negotiating", "answering"}
  /\ reached' = TRUE
  /\ passed' \in 0 .. greeting
  /\ \/ /\ door = "converter"
        /\ phase' = "tunnel" /\ answer' = "200"
        /\ UNCHANGED carried
     \/ /\ door = "engine"
        /\ Proceeds("awaiting")
        /\ carried' = Units(Length(req) + 1, taken)
  /\ UNCHANGED <<headVars, cut, taken, greeting, heard, type3>>

\* A 407 with a message 2.
Challenged ==
  /\ phase = "negotiating"
  /\ \E m \in Replies :
       \/ Unreadable(m) /\ Closes("none") /\ UNCHANGED type3
       \/ ~Unreadable(m) /\ Proceeds("answering") /\ type3' = Type3(Account, m)
  /\ UNCHANGED <<headVars, cut, reached, taken, tunnelVars>>

\* Any other status, a 407 without a challenge, an end or an error.
Denied ==
  /\ phase \in {"asked", "negotiating", "answering"}
  /\ Closes("none")
  /\ UNCHANGED <<headVars, cut, reached, taken, tunnelVars, type3>>

-----------------------------------------------------------------------------
(* A forwarded request.                                                     *)

BodyStreams ==
  /\ phase = "awaiting" /\ door = "service"
  /\ taken < arrived
  /\ taken' = taken + 1
  /\ carried' = Append(carried, taken')
  /\ UNCHANGED <<headVars, cut, phase, answer, reached, greeting, heard, passed, type3>>

TargetAnswers ==
  /\ phase = "awaiting"
  /\ Proceeds(IF door = "engine" THEN "closed" ELSE "collecting")
  /\ UNCHANGED <<headVars, cut, reached, taken, tunnelVars, type3>>

\* An answer that is waited for without a timer.
AnswerIsAwaited == phase = "awaiting" /\ UNCHANGED vars

\* request_timeout, or an error of the target's.
AnswerFails ==
  /\ phase = "awaiting"
  /\ Closes("none")
  /\ UNCHANGED <<headVars, cut, reached, taken, tunnelVars, type3>>

\* The body of the answer is collected under no timer and then written whole.
AnswerCollected ==
  /\ phase = "collecting"
  /\ \E status \in {"reply", "none"} : Closes(status)
  /\ UNCHANGED <<headVars, cut, reached, taken, tunnelVars, type3>>

\* The converter reads the upstream's answer to its end, and writes it whole.
RelayEnds ==
  /\ phase = "relaying"
  /\ \E status \in {"reply", "none"} : Closes(status)
  /\ UNCHANGED <<headVars, cut, reached, taken, tunnelVars, type3>>

-----------------------------------------------------------------------------
(* The tunnel, whose two loops begin with what has not been read.            *)

\* A loop whose buffer is read into again before it is written.
ToTargetLatest ==
  /\ phase = "tunnel"
  /\ taken < arrived
  /\ taken' = arrived
  /\ carried' = Append(carried, taken')
  /\ UNCHANGED <<headVars, cut, phase, answer, reached, greeting, heard, passed, type3>>

ToTarget ==
  /\ phase = "tunnel"
  /\ taken < arrived
  /\ taken' = taken + 1
  /\ carried' = Append(carried, taken')
  /\ UNCHANGED <<headVars, cut, phase, answer, reached, greeting, heard, passed, type3>>

ToClient ==
  /\ phase = "tunnel"
  /\ passed < greeting
  /\ passed' = passed + 1
  /\ heard' = Append(heard, passed')
  /\ UNCHANGED <<headVars, cut, phase, answer, reached, taken, carried, greeting, type3>>

TunnelEnds ==
  /\ phase = "tunnel"
  /\ Proceeds("closed")
  /\ UNCHANGED <<headVars, cut, reached, taken, tunnelVars, type3>>

-----------------------------------------------------------------------------
Handler ==
  \/ HeadRead \/ HeadFails
  \/ ConnectFails \/ ConnectsTunnel \/ ConnectsToForward \/ ConnectsToUpstream
  \/ Granted \/ Challenged \/ Denied
  \/ BodyStreams \/ TargetAnswers \/ AnswerFails \/ AnswerCollected \/ RelayEnds
  \/ ToTarget \/ ToClient \/ TunnelEnds

Next == Sends \/ Greets \/ Handler

\* The three timers of the acceptor; nothing else ends by itself.
Fairness ==
  /\ WF_vars(door = "acceptor" /\ HeadFails)
  /\ WF_vars(ConnectFails)
  /\ WF_vars(AnswerFails)

Spec == Init /\ [][Next]_vars /\ Fairness

-----------------------------------------------------------------------------
\* Whatever its head was cut into, a request reaches a target only with a known
\* password and for a host the lists allow; a CONNECT of the acceptor's, which
\* does not ask the lists, needs the password only.
OnlyAdmittedReachTargets ==
  reached /\ door \in {"acceptor", "service"} =>
    /\ AuthEnabled => req.creds = "good"
    /\ HostAllowed(req.host) \/ (door = "acceptor" /\ req.method = "CONNECT")

\* The target of a tunnel gets what follows the head, from its first byte, if the
\* head was read whole and the client waited for its answer; and the client of a
\* tunnel that no upstream is part of misses nothing of what the target sends.
\* What comes in the same read as a head is lost otherwise.
TunnelsLoseOnlyWhatCameEarly ==
  answer = "200" =>
    /\ ~eager /\ ~cut => carried = Units(Length(req) + 1, taken)
    /\ door = "acceptor" => heard = Units(1, passed)

\* The fields of the two messages follow one another without a gap, and none is cut
\* by the 16 bits of its length: the target information of a challenge is bounded
\* by the buffer it was read into, whatever length it claims.  They end before the
\* message by the part of its header that the first offset does not count.
NtlmFieldsFit ==
  /\ LET t == Type1(Account) IN
       phase = "negotiating" => t.workstation.offset + t.workstation.length = t.size - 16
  /\ type3 # <<>> =>
       type3.workstation.offset + type3.workstation.length = type3.size - 24

\* A connection of the acceptor comes to a tunnel, to an end, or to a target that
\* is sending its answer: no client and no target holds it before that.
AcceptorSettles ==
  (door = "acceptor" /\ arrived > 0) ~> (phase \in {"tunnel", "collecting", "closed"})

\* The comment at the acceptor's body says "read the request body (if any)": a target
\* that answers has got the whole body of the request.
BodiesAreForwarded ==
  answer = "reply" /\ door = "acceptor" =>
    carried = Units(Length(req) + 1, Len(Stream(req)))
=============================================================================
