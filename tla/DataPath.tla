------------------------------ MODULE DataPath ------------------------------
(***************************************************************************)
(* A connection accepted by an engine.  The TCP and Unix engines and the    *)
(* forward proxy make a tunnel of it at once.  An HTTP engine serves        *)
(* requests on it; when one is upgraded, the task that waited for the       *)
(* upgrade runs a tunnel of kind "bridge" between the two sockets.          *)
(***************************************************************************)
EXTENDS HttpEngine

CONSTANTS
  Kinds,    \* the kinds of tunnel considered; "bridge" stands for an HTTP engine
  MaxBytes  \* bound on the bytes a side of a tunnel sends

ASSUME PathConstants ==
  /\ Kinds \subseteq {"splice", "timed", "connect", "uds", "bridge"}
  /\ MaxBytes \in Nat
  /\ MaxRequests \in Nat
  /\ Timed \in BOOLEAN /\ Guarded \in BOOLEAN
  /\ {"upgrade", "unkeyed"} \cap Paths = {}
  /\ \A i \in DOMAIN Locations :
       Locations[i].provider \in {"mock", "static", "proxy"}

VARIABLES kind, peer, sent, lost, inbox, pump, held, got, told, outcome

T == INSTANCE Tunnel

tunnelVars == <<kind, peer, sent, lost, inbox, pump, held, got, told, outcome>>
pathVars == <<vars, tunnelVars>>

\* An engine other than HTTP has no use for the HTTP part.
PathInit ==
  /\ T!Init
  /\ Fresh
  /\ conn = IF kind = "bridge" THEN "open" ELSE "closed"

\* The tunnel is there from the start, or when the upgrade is done.
Tunnelling == kind # "bridge" \/ bridge = "running"

Serving == EngineStep /\ UNCHANGED tunnelVars

\* upstream_handshake reads until it has the whole head of the 101, and drops its buffer:
\* what the target sent at once behind its head is lost as far as the last read went.
Switches ==
  /\ HandshakeAccepted
  /\ \E n \in 0 .. MaxBytes : sent' = [sent EXCEPT !["target"] = n]
                            /\ lost' = [lost EXCEPT !["target"] = n]
  /\ UNCHANGED <<kind, peer, inbox, pump, held, got, told, outcome>>

\* The upgraded stream may be one whose client has gone.
Upgrades ==
  /\ BridgeStarts
  /\ peer' = IF conn = "upgraded" /\ client = "left"
             THEN [peer EXCEPT !["client"] = "gone"] ELSE peer
  /\ UNCHANGED <<kind, sent, lost, inbox, pump, held, got, told, outcome>>

Bridged ==
  /\ BridgeEnds
  /\ ~T!Running
  /\ UNCHANGED tunnelVars

Forwarding == Tunnelling /\ T!Next /\ UNCHANGED vars

PathNext == Serving \/ Switches \/ Upgrades \/ Bridged \/ Forwarding

\* The runtime polls what can go on, and timers expire: the fairness of the two
\* parts.  No client and no target has to send, finish or leave.
PathFairness ==
  /\ WF_pathVars(ConnTimerExpires /\ UNCHANGED tunnelVars)
  /\ WF_pathVars(Writes /\ UNCHANGED tunnelVars)
  /\ WF_pathVars(ConnTimesOut /\ UNCHANGED tunnelVars)
  /\ WF_pathVars(SeesClientLeave /\ UNCHANGED tunnelVars)
  /\ WF_pathVars(Upgrades)
  /\ WF_pathVars(Bridged)
  /\ WF_pathVars(Tunnelling /\ T!BothDone /\ UNCHANGED vars)
  /\ WF_pathVars(Tunnelling /\ T!TimesOut /\ UNCHANGED vars)
  /\ \A s \in T!Side : WF_pathVars(Tunnelling /\ T!PumpStep(s) /\ UNCHANGED vars)

PathSpec == PathInit /\ [][PathNext]_pathVars /\ PathFairness

-----------------------------------------------------------------------------
\* The properties of the tunnels, whichever engine they are of.
StreamsAreIntact == T!StreamsAreIntact
OkMeansDelivered == T!OkMeansDelivered
FinishedTunnelsEnd == T!FinishedTunnelsEnd
=============================================================================
