-------------------------- MODULE DataPath_proofs --------------------------
(***************************************************************************)
(* The HTTP part of DataPath for every set of paths, list of locations and  *)
(* bound: what the requests of a connection get, and when a bridge runs.    *)
(***************************************************************************)
EXTENDS DataPath, SequenceTheorems, TLAPS

\* The bridge task and the 101 are made by one step of the handler: while the
\* connection is open, there is one just when there is the other.
BridgeIsOwed ==
  /\ reply = "switching" => bridge = "waiting"
  /\ conn = "open" /\ bridge # "none" => reply = "switching"

HttpInv ==
  /\ TypeOK
  /\ OnlyTrustedAreServed
  /\ BridgesJoinAgreedSides
  /\ CountsMatchAnswers
  /\ BridgeIsOwed

-----------------------------------------------------------------------------
LEMMA FirstStepType ==
  ASSUME NEW path
  PROVE  FirstStep(path) \in {"sleeping", "opening", "collecting"}
BY DEF FirstStep

LEMMA HttpInvInit == PathInit => HttpInv
<1>. SUFFICES ASSUME PathInit
              PROVE  HttpInv
  OBVIOUS
<1>. USE DEF PathInit, Fresh
<1>1. TypeOK
  <2>1. request \in Requests
    BY DEF Requests
  <2>2. /\ conn \in {"open", "upgraded", "closed"} /\ arrived \in 0 .. MaxRequests
    BY PathConstants
  <2>3. connDue \in BOOLEAN /\ stepDue \in BOOLEAN
    OBVIOUS
  <2>4. stepDue => connDue /\ step \in TimedSteps
    OBVIOUS
  <2>5. QED
    BY <2>1, <2>2, <2>3, <2>4, PathConstants DEF TypeOK, Steps, TimedSteps, Origins
<1>2. OnlyTrustedAreServed
  BY DEF OnlyTrustedAreServed, Refused
<1>3. BridgesJoinAgreedSides
  BY DEF BridgesJoinAgreedSides
<1>4. CountsMatchAnswers
  BY DEF CountsMatchAnswers
<1>5. BridgeIsOwed
  BY DEF BridgeIsOwed
<1>6. QED
  BY <1>1, <1>2, <1>3, <1>4, <1>5 DEF HttpInv

\* A drop leaves nothing behind, whatever the handler was doing.
LEMMA DropKeeps ==
  ASSUME HttpInv, conn = "open", Drops,
         UNCHANGED <<client, arrived, request, answered, last, bridge, connDue,
                     counted>>
  PROVE  HttpInv'
<1>. USE DEF HttpInv, Drops
<1>1. TypeOK'
  <2>1. connDue' \in BOOLEAN /\ stepDue' \in BOOLEAN
    BY DEF TypeOK
  <2>2. stepDue' => connDue' /\ step' \in TimedSteps
    BY DEF TypeOK, TimedSteps
  <2>3. QED
    BY <2>1, <2>2 DEF TypeOK, Steps, TimedSteps, Origins
<1>2. OnlyTrustedAreServed'
  BY DEF OnlyTrustedAreServed, Refused
<1>3. BridgesJoinAgreedSides'
  BY DEF BridgesJoinAgreedSides, BridgeIsOwed
<1>4. CountsMatchAnswers'
  BY DEF CountsMatchAnswers, TypeOK
<1>5. BridgeIsOwed'
  BY DEF BridgeIsOwed
<1>6. QED
  BY <1>1, <1>2, <1>3, <1>4, <1>5

LEMMA ArrivalKeeps ==
  ASSUME HttpInv, NEW r \in Requests, Arrives(r)
  PROVE  HttpInv'
<1>1. /\ bridge = "none" /\ upstream = "none" /\ reply = "none" /\ ~stepDue
      /\ counted = answered /\ answered = arrived
  BY DEF HttpInv, Arrives, TypeOK, BridgeIsOwed, CountsMatchAnswers, TimedSteps
<1>2. arrived' \in 0 .. MaxRequests
  BY PathConstants DEF HttpInv, Arrives, TypeOK
<1>3. /\ conn' = "open" /\ bridge' = "none" /\ upstream' = "none"
      /\ arrived' = arrived + 1 /\ request' = r
      /\ UNCHANGED <<conn, client, answered, last, connDue>>
  BY <1>1 DEF Arrives
<1>a. CASE \E origin \in {"unauthorized", "bad_gateway"} :
             Returns(origin) /\ (Refused(r) => origin = "unauthorized")
  <2>. PICK origin \in {"unauthorized", "bad_gateway"} :
             Returns(origin) /\ (Refused(r) => origin = "unauthorized")
    BY <1>a
  <2>. USE <1>1, <1>2, <1>3 DEF HttpInv, Returns
  <2>1. TypeOK'
    <3>1. connDue' \in BOOLEAN /\ stepDue' \in BOOLEAN
      BY DEF TypeOK
    <3>2. stepDue' => connDue' /\ step' \in TimedSteps
      BY DEF TypeOK, TimedSteps
    <3>3. QED
      BY <3>1, <3>2 DEF TypeOK, Steps, TimedSteps, Origins
  <2>2. OnlyTrustedAreServed'
    BY DEF OnlyTrustedAreServed, Refused
  <2>3. BridgesJoinAgreedSides' /\ BridgeIsOwed'
    BY DEF BridgesJoinAgreedSides, BridgeIsOwed
  <2>4. CountsMatchAnswers'
    BY DEF CountsMatchAnswers, TypeOK
  <2>5. QED
    BY <2>1, <2>2, <2>3, <2>4
<1>b. CASE \E next \in {"handshaking", "sleeping", "opening", "collecting"} :
             GoesOn(next) /\ ~Refused(r)
  <2>. PICK next \in {"handshaking", "sleeping", "opening", "collecting"} :
             GoesOn(next) /\ ~Refused(r)
    BY <1>b
  <2>. USE <1>1, <1>2, <1>3 DEF HttpInv, GoesOn
  <2>1. TypeOK'
    <3>1. connDue' \in BOOLEAN /\ stepDue' \in BOOLEAN
      BY DEF TypeOK
    <3>2. stepDue' => connDue' /\ step' \in TimedSteps
      BY DEF TypeOK, TimedSteps
    <3>3. QED
      BY <3>1, <3>2 DEF TypeOK, Steps, TimedSteps, Origins
  <2>2. OnlyTrustedAreServed'
    BY DEF OnlyTrustedAreServed, Refused
  <2>3. BridgesJoinAgreedSides' /\ BridgeIsOwed'
    BY DEF BridgesJoinAgreedSides, BridgeIsOwed
  <2>4. CountsMatchAnswers'
    BY DEF CountsMatchAnswers, TypeOK
  <2>5. QED
    BY <2>1, <2>2, <2>3, <2>4
<1>c. QED
  BY <1>a, <1>b, FirstStepType DEF Arrives

\* A response that the handler returns to an open connection.
LEMMA ReturnKeeps ==
  ASSUME HttpInv, conn = "open", step \notin {"idle", "answering"},
         NEW origin \in {"bad_gateway", "mock", "static", "target"},
         Returns(origin), upstream' = "none",
         UNCHANGED <<conn, client, arrived, request, answered, last, bridge,
                     connDue>>
  PROVE  HttpInv'
<1>1. /\ bridge = "none" /\ ~Refused(request)
      /\ counted = answered /\ arrived = answered + 1
  BY DEF HttpInv, TypeOK, BridgeIsOwed, CountsMatchAnswers, OnlyTrustedAreServed
<1>. USE <1>1 DEF HttpInv, Returns
<1>2. TypeOK'
  <2>1. connDue' \in BOOLEAN /\ stepDue' \in BOOLEAN
    BY DEF TypeOK
  <2>2. stepDue' => connDue' /\ step' \in TimedSteps
    BY DEF TypeOK, TimedSteps
  <2>3. QED
    BY <2>1, <2>2 DEF TypeOK, Steps, TimedSteps, Origins
<1>3. OnlyTrustedAreServed'
  BY DEF OnlyTrustedAreServed, Refused
<1>4. BridgesJoinAgreedSides' /\ BridgeIsOwed'
  BY DEF BridgesJoinAgreedSides, BridgeIsOwed
<1>5. CountsMatchAnswers'
  BY DEF CountsMatchAnswers, TypeOK
<1>6. QED
  BY <1>2, <1>3, <1>4, <1>5

LEMMA AcceptKeeps == HttpInv /\ HandshakeAccepted => HttpInv'
<1>. SUFFICES ASSUME HttpInv, HandshakeAccepted
              PROVE  HttpInv'
  OBVIOUS
<1>1. /\ ~Refused(request) /\ bridge = "none" /\ upstream = "none"
      /\ counted = answered /\ arrived = answered + 1
  BY DEF HttpInv, HandshakeAccepted, TypeOK, BridgeIsOwed, CountsMatchAnswers,
         OnlyTrustedAreServed
<1>. USE <1>1 DEF HttpInv, HandshakeAccepted, Returns
<1>2. TypeOK'
  <2>1. connDue' \in BOOLEAN /\ stepDue' \in BOOLEAN
    BY DEF TypeOK
  <2>2. stepDue' => connDue' /\ step' \in TimedSteps
    BY DEF TypeOK, TimedSteps
  <2>3. QED
    BY <2>1, <2>2 DEF TypeOK, Steps, TimedSteps, Origins
<1>3. OnlyTrustedAreServed'
  BY DEF OnlyTrustedAreServed, Refused
<1>4. BridgesJoinAgreedSides' /\ BridgeIsOwed'
  BY DEF BridgesJoinAgreedSides, BridgeIsOwed
<1>5. CountsMatchAnswers'
  BY DEF CountsMatchAnswers, TypeOK
<1>6. QED
  BY <1>2, <1>3, <1>4, <1>5

\* The steps of the exchange with the target that return nothing yet.
LEMMA ExchangeKeeps ==
  ASSUME HttpInv, Collected \/ Connected \/ HeadReceived
  PROVE  HttpInv'
<1>1. /\ conn = "open" /\ step \in {"collecting", "connecting", "sending"}
      /\ step' \in {"connecting", "sending", "reading"}
      /\ UNCHANGED <<conn, client, arrived, request, reply, answered, last,
                     bridge, connDue, counted>>
  BY DEF Collected, Connected, HeadReceived
<1>2. upstream' = IF step' = "connecting" THEN "none" ELSE "open"
  BY DEF HttpInv, TypeOK, Collected, Connected, HeadReceived
<1>3. stepDue' = FALSE
  <2>1. CASE HeadReceived
    BY <2>1 DEF HeadReceived
  <2>2. CASE Collected \/ Connected
    <3>1. step \notin TimedSteps /\ stepDue' = stepDue
      BY <2>2 DEF Collected, Connected, TimedSteps
    <3>2. QED
      BY <3>1 DEF HttpInv, TypeOK
  <2>3. QED
    BY <2>1, <2>2
<1>. USE <1>1, <1>2, <1>3 DEF HttpInv
<1>4. TypeOK'
  <2>1. connDue' \in BOOLEAN /\ stepDue' \in BOOLEAN
    BY DEF TypeOK
  <2>2. stepDue' => connDue' /\ step' \in TimedSteps
    BY DEF TypeOK, TimedSteps
  <2>3. QED
    BY <2>1, <2>2 DEF TypeOK, Steps, TimedSteps
<1>5. OnlyTrustedAreServed'
  BY DEF OnlyTrustedAreServed, Refused
<1>6. BridgesJoinAgreedSides' /\ BridgeIsOwed'
  BY DEF BridgesJoinAgreedSides, BridgeIsOwed
<1>7. CountsMatchAnswers'
  BY DEF CountsMatchAnswers
<1>8. QED
  BY <1>4, <1>5, <1>6, <1>7

LEMMA WriteKeeps == HttpInv /\ Writes => HttpInv'
<1>. SUFFICES ASSUME HttpInv, Writes
              PROVE  HttpInv'
  OBVIOUS
<1>1. /\ counted = answered + 1 /\ arrived = answered + 1
      /\ upstream = "none" /\ ~stepDue
  BY DEF HttpInv, Writes, TypeOK, CountsMatchAnswers, TimedSteps
<1>. USE <1>1 DEF HttpInv, Writes
<1>2. answered' \in 0 .. MaxRequests
  BY PathConstants DEF TypeOK
<1>3. TypeOK'
  <2>1. connDue' \in BOOLEAN /\ stepDue' \in BOOLEAN
    BY DEF TypeOK
  <2>2. stepDue' => connDue' /\ step' \in TimedSteps
    BY DEF TypeOK, TimedSteps
  <2>3. QED
    BY <1>2, <2>1, <2>2 DEF TypeOK, Steps, TimedSteps, Origins
<1>4. OnlyTrustedAreServed'
  BY DEF OnlyTrustedAreServed, Refused
<1>5. BridgesJoinAgreedSides' /\ BridgeIsOwed'
  BY DEF BridgesJoinAgreedSides, BridgeIsOwed
<1>6. CountsMatchAnswers'
  BY DEF CountsMatchAnswers, TypeOK
<1>7. QED
  BY <1>3, <1>4, <1>5, <1>6

\* The client and the timers change nothing that the invariant speaks of but the
\* types.
LEMMA OutsideKeeps ==
  ASSUME HttpInv, ClientLeaves \/ ConnTimerExpires \/ StepTimerExpires
  PROVE  HttpInv'
<1>1. /\ client' \in {"there", "left"}
      /\ UNCHANGED <<conn, arrived, request, step, reply, answered, last,
                     upstream, bridge, counted>>
  BY DEF HttpInv, TypeOK, ClientLeaves, ConnTimerExpires, StepTimerExpires
<1>2. /\ connDue' \in BOOLEAN /\ stepDue' \in BOOLEAN
      /\ stepDue' => connDue' /\ step' \in TimedSteps
  <2>1. CASE ClientLeaves
    BY <2>1 DEF HttpInv, TypeOK, ClientLeaves
  <2>2. CASE ConnTimerExpires
    BY <2>2 DEF HttpInv, TypeOK, ConnTimerExpires
  <2>3. CASE StepTimerExpires
    BY <2>3 DEF HttpInv, TypeOK, StepTimerExpires
  <2>4. QED
    BY <2>1, <2>2, <2>3
<1>. USE <1>1, <1>2 DEF HttpInv
<1>3. TypeOK'
  BY DEF TypeOK, Steps
<1>4. OnlyTrustedAreServed'
  BY DEF OnlyTrustedAreServed, Refused
<1>5. BridgesJoinAgreedSides' /\ BridgeIsOwed'
  BY DEF BridgesJoinAgreedSides, BridgeIsOwed
<1>6. CountsMatchAnswers'
  BY DEF CountsMatchAnswers
<1>7. QED
  BY <1>3, <1>4, <1>5, <1>6

LEMMA BridgeKeeps ==
  ASSUME HttpInv, BridgeStarts \/ BridgeEnds
  PROVE  HttpInv'
<1>1. /\ bridge \in {"waiting", "running"} /\ bridge' \in {"running", "over"}
      /\ conn # "open" /\ (bridge' = "running" => conn = "upgraded")
      /\ UNCHANGED <<conn, client, arrived, request, step, reply, answered,
                     last, upstream, connDue, stepDue, counted>>
  BY DEF HttpInv, BridgesJoinAgreedSides, BridgeStarts, BridgeEnds
<1>. USE <1>1 DEF HttpInv
<1>2. TypeOK'
  <2>1. connDue' \in BOOLEAN /\ stepDue' \in BOOLEAN
    BY DEF TypeOK
  <2>2. stepDue' => connDue' /\ step' \in TimedSteps
    BY DEF TypeOK, TimedSteps
  <2>3. QED
    BY <2>1, <2>2 DEF TypeOK, Steps, TimedSteps
<1>3. OnlyTrustedAreServed'
  BY DEF OnlyTrustedAreServed, Refused
<1>4. BridgesJoinAgreedSides' /\ BridgeIsOwed'
  BY DEF BridgesJoinAgreedSides, BridgeIsOwed, TypeOK
<1>5. CountsMatchAnswers'
  BY DEF CountsMatchAnswers
<1>6. QED
  BY <1>2, <1>3, <1>4, <1>5

LEMMA SameKeeps == HttpInv /\ UNCHANGED vars => HttpInv'
<1>. SUFFICES ASSUME HttpInv, UNCHANGED vars
              PROVE  HttpInv'
  OBVIOUS
<1>. USE DEF HttpInv, vars
<1>1. TypeOK'
  BY DEF TypeOK
<1>2. OnlyTrustedAreServed'
  BY DEF OnlyTrustedAreServed, Refused
<1>3. BridgesJoinAgreedSides' /\ BridgeIsOwed'
  BY DEF BridgesJoinAgreedSides, BridgeIsOwed
<1>4. CountsMatchAnswers'
  BY DEF CountsMatchAnswers
<1>5. QED
  BY <1>1, <1>2, <1>3, <1>4

-----------------------------------------------------------------------------
\* Each action, and a tunnel's steps beside them, keeps the invariant.
LEMMA EngineKeeps == HttpInv /\ EngineStep => HttpInv'
<1>. SUFFICES ASSUME HttpInv, EngineStep
              PROVE  HttpInv'
  OBVIOUS
<1>. USE DEF TargetStep, HandlerStep, ConnStep
<1>1. CASE \E r \in Requests : Arrives(r)
  BY <1>1, ArrivalKeeps
<1>2. CASE Collected \/ Connected \/ HeadReceived
  BY <1>2, ExchangeKeeps
<1>3. CASE AnswersLocally
  <2>1. upstream' = "none"
    BY <1>3 DEF AnswersLocally, HttpInv, TypeOK
  <2>2. QED
    BY <1>3, <2>1, ReturnKeeps DEF AnswersLocally
<1>4. CASE BodyReceived
  BY <1>4, ReturnKeeps DEF BodyReceived
<1>6. CASE HandshakeRefused
  <2>1. upstream' = "none"
    BY <1>6 DEF HandshakeRefused, HttpInv, TypeOK
  <2>2. QED
    BY <1>6, <2>1, ReturnKeeps DEF HandshakeRefused
<1>7. CASE HandlerFails
  BY <1>7, DropKeeps DEF HandlerFails
<1>8. CASE StepTimesOut
  <2>1. CASE step = "handshaking"
    <3>1. Returns("bad_gateway") /\ UNCHANGED <<conn, upstream>>
      BY <1>8, <2>1 DEF StepTimesOut
    <3>2. upstream' = "none"
      BY <3>1, <2>1 DEF HttpInv, TypeOK
    <3>3. QED
      BY <1>8, <2>1, <3>1, <3>2, ReturnKeeps DEF StepTimesOut
  <2>2. CASE step = "sending"
    BY <1>8, <2>2, DropKeeps DEF StepTimesOut
  <2>3. QED
    BY <1>8, <2>1, <2>2 DEF StepTimesOut
<1>9. CASE Writes
  BY <1>9, WriteKeeps
<1>10. CASE ConnTimesOut \/ SeesClientLeave
  BY <1>10, DropKeeps DEF ConnTimesOut, SeesClientLeave
<1>11. CASE ClientLeaves \/ ConnTimerExpires \/ StepTimerExpires
  BY <1>11, OutsideKeeps
<1>12. QED
  BY <1>1, <1>2, <1>3, <1>4, <1>6, <1>7, <1>8, <1>9, <1>10, <1>11
     DEF EngineStep

LEMMA HttpInvStep == HttpInv /\ [PathNext]_pathVars => HttpInv'
<1>. SUFFICES ASSUME HttpInv, [PathNext]_pathVars
              PROVE  HttpInv'
  OBVIOUS
<1>1. CASE Serving
  BY <1>1, EngineKeeps DEF Serving
<1>2. CASE Upgrades \/ Bridged
  BY <1>2, BridgeKeeps DEF Upgrades, Bridged
<1>s. CASE Switches
  BY <1>s, AcceptKeeps DEF Switches
<1>3. CASE Forwarding
  BY <1>3, SameKeeps DEF Forwarding
<1>4. CASE UNCHANGED pathVars
  BY <1>4, SameKeeps DEF pathVars
<1>5. QED
  BY <1>1, <1>2, <1>s, <1>3, <1>4 DEF PathNext

\* The invariant holds throughout, whatever the clients, the targets, the timers
\* and the tunnels do.
THEOREM HttpInvariant == PathSpec => []HttpInv
<1>1. QED
  BY HttpInvInit, HttpInvStep, PTL DEF PathSpec

\* Every variable of the HTTP part keeps its type, a connection to the target
\* belongs to a request that is on its way, and a closed connection holds
\* nothing: handle_http_connection and handle_proxy drop what they opened.
THEOREM HttpTypes == PathSpec => []TypeOK
<1>1. HttpInv => TypeOK
  BY DEF HttpInv
<1>2. QED
  BY <1>1, HttpInvariant, PTL

\* An untrusted request of a guarded engine gets a 401 and nothing else, upgrades
\* included: handle_request authenticates before it looks at what is asked.
THEOREM UntrustedGetNothing == PathSpec => []OnlyTrustedAreServed
<1>1. HttpInv => OnlyTrustedAreServed
  BY DEF HttpInv
<1>2. QED
  BY <1>1, HttpInvariant, PTL

\* The task of handle_websocket copies bytes only after both 101s.
THEOREM BridgesAreAgreed == PathSpec => []BridgesJoinAgreedSides
<1>1. HttpInv => BridgesJoinAgreedSides
  BY DEF HttpInv
<1>2. QED
  BY <1>1, HttpInvariant, PTL

\* Requests, answers and the calls of record_http_request keep step, over
\* keep-alive, errors, timeouts and clients that leave.
THEOREM AnswersAreCounted == PathSpec => []CountsMatchAnswers
<1>1. HttpInv => CountsMatchAnswers
  BY DEF HttpInv
<1>2. QED
  BY <1>1, HttpInvariant, PTL

-----------------------------------------------------------------------------
(* The tunnels: sequences of numbered bytes.                                *)

\* n bytes, those after the first k.
Numbers(k, n) == [i \in 1 .. n |-> k + i]

LEMMA NumbersAre ==
  ASSUME NEW k \in Nat, NEW n \in Nat
  PROVE  Numbers(k, n) \in Seq(Nat) /\ Len(Numbers(k, n)) = n
BY DEF Numbers

LEMMA NumbersGrow ==
  ASSUME NEW k \in Nat, NEW n \in Nat
  PROVE  Append(Numbers(k, n), k + (n + 1)) = Numbers(k, n + 1)
<1>1. Append(Numbers(k, n), k + (n + 1)) = [i \in 1 .. n + 1 |-> IF i <= n THEN k + i ELSE k + (n + 1)]
  BY DEF Numbers
<1>2. \A i \in 1 .. n + 1 : (IF i <= n THEN k + i ELSE k + (n + 1)) = k + i
  OBVIOUS
<1> QED
  BY <1>1, <1>2 DEF Numbers

LEMMA NumbersPrefix ==
  ASSUME NEW a \in Seq(Nat), NEW b \in Seq(Nat), NEW k \in Nat, NEW n \in Nat,
         a \o b = Numbers(k, n)
  PROVE  Len(a) <= n /\ a = Numbers(k, Len(a))
<1>1. Len(a) \in Nat /\ Len(b) \in Nat
  OBVIOUS
<1>2. Len(a) + Len(b) = n
  <2>1. Len(Numbers(k, n)) = n
    BY NumbersAre
  <2>2. Len(a \o b) = Len(a) + Len(b)
    BY ConcatProperties
  <2> QED
    BY <2>1, <2>2
<1>3. Len(a) <= n
  BY <1>1, <1>2
<1>4. ASSUME NEW i \in 1 .. Len(a)
      PROVE  a[i] = Numbers(k, Len(a))[i]
  <2>1. i \in 1 .. Len(a) + Len(b) /\ i <= Len(a) /\ i \in 1 .. n
    BY <1>1, <1>2
  <2>2. (a \o b)[i] = a[i]
    BY <2>1, ConcatProperties
  <2>3. Numbers(k, n)[i] = k + i /\ Numbers(k, Len(a))[i] = k + i
    BY <2>1 DEF Numbers
  <2> QED
    BY <2>2, <2>3
<1>5. a = Numbers(k, Len(a))
  BY <1>1, <1>4, NumbersAre, SeqEqual
<1> QED
  BY <1>3, <1>5

LEMMA NumbersIsPrefix ==
  ASSUME NEW k \in Nat, NEW m \in Nat, NEW n \in Nat, m <= n
  PROVE  T!IsPrefix(Numbers(k, m), Numbers(k, n))
<1>1. Len(Numbers(k, m)) = m /\ Len(Numbers(k, n)) = n
  BY NumbersAre
<1>2. SubSeq(Numbers(k, m), 1, m) = SubSeq(Numbers(k, n), 1, m)
  BY DEF Numbers
<1> QED
  BY <1>1, <1>2 DEF T!IsPrefix

LEMMA Regrouped ==
  \A a, x, y \in Seq(Nat) : (a \o x) \o y = a \o (x \o y)
OBVIOUS

\* What a read moves, a write moves, and an arrival adds.
LEMMA ReadMoves ==
  ASSUME NEW a \in Seq(Nat), NEW b \in Seq(Nat), NEW n \in 1 .. Len(b)
  PROVE  /\ SubSeq(b, 1, n) \in Seq(Nat)
         /\ SubSeq(b, n + 1, Len(b)) \in Seq(Nat)
         /\ (a \o SubSeq(b, 1, n)) \o SubSeq(b, n + 1, Len(b)) = (a \o <<>>) \o b
<1>1. Len(b) \in Nat /\ n \in Nat /\ 1 <= n /\ n <= Len(b)
  OBVIOUS
<1>2. SubSeq(b, 1, n) \in Seq(Nat) /\ SubSeq(b, n + 1, Len(b)) \in Seq(Nat)
  BY <1>1
<1>3. SubSeq(b, 1, n) \o SubSeq(b, n + 1, Len(b)) = b
  <2>1. 1 \in 1 .. Len(b) + 1 /\ n \in 1 - 1 .. Len(b) /\ Len(b) \in n .. Len(b)
    BY <1>1
  <2> QED
    BY <2>1, ConcatAdjacentSubSeq, SubSeqFull
<1>4. a \o <<>> = a
  BY ConcatEmptySeq
<1> DEFINE x == SubSeq(b, 1, n)  y == SubSeq(b, n + 1, Len(b))
<1>5. x \in Seq(Nat) /\ y \in Seq(Nat) /\ x \o y = b
  BY <1>2, <1>3
<1> HIDE DEF x, y
<1>6. (a \o x) \o y = a \o (x \o y)
  BY <1>5, Regrouped, Zenon
<1>7. (a \o x) \o y = (a \o <<>>) \o b
  BY <1>4, <1>5, <1>6, Zenon
<1> QED
  BY <1>5, <1>7 DEF x, y

LEMMA WriteMoves ==
  ASSUME NEW a \in Seq(Nat), NEW b \in Seq(Nat), NEW c \in Seq(Nat)
  PROVE  a \o b \in Seq(Nat) /\ ((a \o b) \o <<>>) \o c = (a \o b) \o c
<1>1. a \o b \in Seq(Nat)
  BY ConcatProperties
<1> QED
  BY <1>1, ConcatEmptySeq

LEMMA ArrivalAdds ==
  ASSUME NEW a \in Seq(Nat), NEW b \in Seq(Nat), NEW x \in Nat
  PROVE  Append(b, x) \in Seq(Nat) /\ a \o Append(b, x) = Append(a \o b, x)
<1>1. a \o b \in Seq(Nat) /\ <<x>> \in Seq(Nat) /\ Append(b, x) \in Seq(Nat)
  BY ConcatProperties, AppendProperties
<1>2. Append(b, x) = b \o <<x>> /\ Append(a \o b, x) = (a \o b) \o <<x>>
  BY <1>1, AppendIsConcat
<1> QED
  BY <1>1, <1>2, ConcatAssociative

-----------------------------------------------------------------------------
(* The tunnels: what is on the wire.                                        *)

Side == T!Side
Other(s) == T!Other(s)

LEMMA Sides ==
  ASSUME NEW s \in Side
  PROVE  Other(s) \in Side /\ Other(s) # s /\ Other(Other(s)) = s
         /\ \A r \in Side : r = s \/ r = Other(s)
BY DEF Side, Other, T!Side, T!Other

\* What a side has sent for the tunnel to carry.
Due(s) == sent[s] - lost[s]

\* The bytes of side s: delivered, in the pump's buffer, at the proxy's socket.  What
\* is delivered is a prefix of what was sent also after the receiver has closed.
Flow(s) ==
  /\ sent[s] \in Nat /\ lost[s] \in Nat /\ Due(s) \in Nat
  /\ inbox[s] \in Seq(Nat)
  /\ held[s] \in Seq(Nat)
  /\ got[Other(s)] \in Seq(Nat)
  /\ Len(got[Other(s)]) <= Due(s)
  /\ got[Other(s)] = Numbers(lost[s], Len(got[Other(s)]))
  /\ held[s] # <<>> => pump[s] = "writing"
  /\ peer[Other(s)] # "gone" =>
       /\ (got[Other(s)] \o held[s]) \o inbox[s] = Numbers(lost[s], Due(s))
       /\ pump[s] \in {"shutting", "done"} => inbox[s] = <<>> /\ peer[s] # "open"

\* A pump that is done has nothing left only where the receiver is still there; Ok says
\* that both are done.
FlowInv ==
  /\ DOMAIN peer = Side /\ DOMAIN sent = Side /\ DOMAIN lost = Side /\ DOMAIN inbox = Side
  /\ DOMAIN pump = Side /\ DOMAIN held = Side /\ DOMAIN got = Side
  /\ \A s \in Side : Flow(s)
  /\ OkMeansDelivered

LEMMA FlowInit == PathInit => FlowInv
<1> SUFFICES ASSUME PathInit PROVE FlowInv
  OBVIOUS
<1>1. /\ peer = [s \in Side |-> "open"]
      /\ sent = [s \in Side |-> 0] /\ lost = [s \in Side |-> 0]
      /\ inbox = [s \in Side |-> <<>>]
      /\ pump = [s \in Side |-> "reading"]
      /\ held = [s \in Side |-> <<>>]
      /\ got = [s \in Side |-> <<>>]
      /\ outcome = "running"
  BY DEF PathInit, T!Init, Side
<1>2. ASSUME NEW s \in Side
      PROVE  Flow(s)
  <2>1. sent[s] = 0 /\ lost[s] = 0 /\ inbox[s] = <<>> /\ held[s] = <<>> /\ got[Other(s)] = <<>>
        /\ pump[s] = "reading"
    BY <1>1, Sides
  <2>2. <<>> \in Seq(Nat) /\ Len(<<>>) = 0 /\ <<>> = Numbers(0, 0)
        /\ (<<>> \o <<>>) \o <<>> = Numbers(0, 0)
    BY DEF Numbers
  <2>3. 0 \in Nat /\ 0 <= 0 /\ Due(s) = 0
    BY <2>1 DEF Due
  <2> QED
    BY <2>1, <2>2, <2>3 DEF Flow
<1> QED
  BY <1>1, <1>2 DEF FlowInv, OkMeansDelivered, T!OkMeansDelivered

\* Nothing moves, but a side may have closed more of its socket.
LEMMA StillFlows ==
  ASSUME FlowInv, DOMAIN peer' = Side,
         \A s \in Side : \/ peer'[s] = peer[s]
                         \/ peer[s] # "gone" /\ peer'[s] # "open",
         UNCHANGED <<sent, lost, inbox, pump, held, got, outcome>>
  PROVE  FlowInv'
<1>1. ASSUME NEW s \in Side
      PROVE  Flow(s)'
  <2>1. Flow(s) /\ Other(s) \in Side
    BY Sides DEF FlowInv
  <2>2. peer'[Other(s)] # "gone" => peer[Other(s)] # "gone"
    BY <2>1
  <2>3. peer[s] # "open" => peer'[s] # "open"
    BY <2>1
  <2> QED
    BY <2>1, <2>2, <2>3 DEF Flow, Due
<1>2. OkMeansDelivered'
  BY DEF FlowInv, OkMeansDelivered, T!OkMeansDelivered, Side
<1> QED
  BY <1>1, <1>2 DEF FlowInv

\* A running tunnel whose flow of side s alone moves.
LEMMA OneFlows ==
  ASSUME FlowInv, NEW s \in Side, Flow(s)', outcome = "running",
         outcome' # "ok",
         UNCHANGED <<peer, lost>>,
         DOMAIN sent' = Side, DOMAIN inbox' = Side, DOMAIN pump' = Side,
         DOMAIN held' = Side, DOMAIN got' = Side,
         sent'[Other(s)] = sent[Other(s)], inbox'[Other(s)] = inbox[Other(s)],
         pump'[Other(s)] = pump[Other(s)], held'[Other(s)] = held[Other(s)],
         got'[s] = got[s]
  PROVE  FlowInv'
<1>1. Flow(Other(s)) /\ Other(Other(s)) = s
  BY Sides DEF FlowInv
<1>2. Flow(Other(s))'
  BY <1>1 DEF Flow, Due
<1>3. \A r \in Side : Flow(r)'
  BY <1>2, Sides
<1>4. OkMeansDelivered'
  BY DEF OkMeansDelivered, T!OkMeansDelivered
<1> QED
  BY <1>3, <1>4 DEF FlowInv

LEMMA SendsKeeps == ASSUME FlowInv, NEW s \in Side, T!Sends(s) PROVE FlowInv'
<1>1. /\ peer[s] = "open" /\ outcome = "running" /\ sent[s] \in Nat
      /\ sent' = [sent EXCEPT ![s] = @ + 1]
      /\ inbox' = [inbox EXCEPT ![s] = Append(@, sent[s] + 1)]
      /\ UNCHANGED <<peer, lost, pump, held, got, outcome>>
  BY DEF T!Sends, T!Running, FlowInv, Flow
<1>2. sent'[s] = sent[s] + 1 /\ inbox'[s] = Append(inbox[s], sent[s] + 1)
      /\ DOMAIN sent' = Side /\ DOMAIN inbox' = Side
      /\ sent'[Other(s)] = sent[Other(s)] /\ inbox'[Other(s)] = inbox[Other(s)]
  BY <1>1, Sides DEF FlowInv
<1> DEFINE a == got[Other(s)]  h == held[s]  q == inbox[s]  k == lost[s]  n == Due(s)
<1>3. /\ n \in Nat /\ k \in Nat /\ q \in Seq(Nat) /\ h \in Seq(Nat) /\ a \in Seq(Nat)
      /\ Len(a) <= n /\ a = Numbers(k, Len(a))
      /\ h # <<>> => pump[s] = "writing"
      /\ peer[Other(s)] # "gone" => /\ (a \o h) \o q = Numbers(k, n)
                                    /\ pump[s] \notin {"shutting", "done"}
  BY <1>1 DEF FlowInv, Flow
<1>4. Due(s)' = n + 1 /\ sent[s] + 1 = k + (n + 1) /\ lost'[s] = k
  <2>1. n = sent[s] - k /\ lost' = lost /\ Due(s)' = sent'[s] - lost'[s]
    BY <1>1 DEF Due
  <2> HIDE DEF k, n
  <2>2. n + 1 = (sent[s] + 1) - k /\ sent[s] + 1 = k + (n + 1)
    BY <1>1, <1>3, <2>1
  <2> QED
    BY <1>2, <2>1, <2>2 DEF k
<1> HIDE DEF a, h, q, k, n
<1>5. n + 1 \in Nat /\ k + (n + 1) \in Nat /\ Append(q, k + (n + 1)) \in Seq(Nat)
      /\ a \o h \in Seq(Nat) /\ Len(a) <= n + 1
  <2>1. n + 1 \in Nat /\ k + (n + 1) \in Nat /\ Len(a) \in Nat
    BY <1>3
  <2> QED
    BY <1>3, <2>1, ConcatProperties, ArrivalAdds
<1>6. (a \o h) \o q = Numbers(k, n) => (a \o h) \o Append(q, k + (n + 1)) = Numbers(k, n + 1)
  <2>1. (a \o h) \o Append(q, k + (n + 1)) = Append((a \o h) \o q, k + (n + 1))
    BY <1>3, <1>5, ArrivalAdds
  <2> QED
    BY <1>3, <2>1, NumbersGrow, Zenon
<1>7. Flow(s)'
  BY <1>1, <1>2, <1>3, <1>4, <1>5, <1>6 DEF Flow, a, h, q, k
<1> QED
  BY <1>1, <1>2, <1>7, OneFlows DEF FlowInv

LEMMA PumpReadsKeeps == ASSUME FlowInv, NEW s \in Side, T!PumpReads(s) PROVE FlowInv'
<1>1. PICK n \in 1 .. Len(inbox[s]) :
        /\ held' = [held EXCEPT ![s] = SubSeq(inbox[s], 1, n)]
        /\ inbox' = [inbox EXCEPT ![s] = SubSeq(@, n + 1, Len(@))]
  BY DEF T!PumpReads
<1>2. /\ outcome = "running" /\ pump[s] = "reading"
      /\ pump' = [pump EXCEPT ![s] = "writing"]
      /\ UNCHANGED <<peer, sent, lost, got, outcome>>
  BY DEF T!PumpReads, T!Running
<1>3. /\ held'[s] = SubSeq(inbox[s], 1, n)
      /\ inbox'[s] = SubSeq(inbox[s], n + 1, Len(inbox[s]))
      /\ pump'[s] = "writing"
      /\ DOMAIN held' = Side /\ DOMAIN inbox' = Side /\ DOMAIN pump' = Side
      /\ held'[Other(s)] = held[Other(s)] /\ inbox'[Other(s)] = inbox[Other(s)]
      /\ pump'[Other(s)] = pump[Other(s)]
  BY <1>1, <1>2, Sides DEF FlowInv
<1> DEFINE a == got[Other(s)]  h == held[s]  q == inbox[s]
           x == SubSeq(q, 1, n)  y == SubSeq(q, n + 1, Len(q))
<1>4. /\ sent[s] \in Nat /\ lost[s] \in Nat /\ Due(s) \in Nat
      /\ q \in Seq(Nat) /\ h = <<>> /\ a \in Seq(Nat)
      /\ Len(a) <= Due(s) /\ a = Numbers(lost[s], Len(a))
      /\ peer[Other(s)] # "gone" => (a \o h) \o q = Numbers(lost[s], Due(s))
  BY <1>2 DEF FlowInv, Flow
<1>5. x \in Seq(Nat) /\ y \in Seq(Nat) /\ (a \o x) \o y = (a \o <<>>) \o q
  BY <1>4, ReadMoves
<1> HIDE DEF a, h, q, x, y
<1>6. held'[s] = x /\ inbox'[s] = y
  BY <1>3 DEF q, x, y
<1>7. peer[Other(s)] # "gone" => (a \o x) \o y = Numbers(lost[s], Due(s))
  BY <1>4, <1>5, Zenon
<1>8. Due(s)' = Due(s)
  BY <1>2 DEF Due
<1>9. Flow(s)'
  BY <1>2, <1>3, <1>4, <1>5, <1>6, <1>7, <1>8 DEF Flow, a
<1> QED
  BY <1>2, <1>3, <1>9, OneFlows DEF FlowInv

LEMMA PumpWritesKeeps == ASSUME FlowInv, NEW s \in Side, T!PumpWrites(s) PROVE FlowInv'
<1>1. /\ outcome = "running" /\ pump[s] = "writing" /\ peer[Other(s)] # "gone"
      /\ got' = [got EXCEPT ![Other(s)] = @ \o held[s]]
      /\ held' = [held EXCEPT ![s] = <<>>]
      /\ pump' = [pump EXCEPT ![s] = "reading"]
      /\ UNCHANGED <<peer, sent, lost, inbox, outcome>>
  BY DEF T!PumpWrites, T!Running, Other
<1> DEFINE a == got[Other(s)]  h == held[s]  q == inbox[s]  b == a \o h
<1>2. /\ got'[Other(s)] = b /\ held'[s] = <<>> /\ pump'[s] = "reading"
      /\ DOMAIN got' = Side /\ DOMAIN held' = Side /\ DOMAIN pump' = Side
      /\ got'[s] = got[s] /\ held'[Other(s)] = held[Other(s)]
      /\ pump'[Other(s)] = pump[Other(s)]
  BY <1>1, Sides DEF FlowInv
<1>3. /\ sent[s] \in Nat /\ lost[s] \in Nat /\ Due(s) \in Nat
      /\ q \in Seq(Nat) /\ h \in Seq(Nat) /\ a \in Seq(Nat)
      /\ b \o q = Numbers(lost[s], Due(s))
  BY <1>1 DEF FlowInv, Flow
<1>4. b \in Seq(Nat) /\ (b \o <<>>) \o q = b \o q
  BY <1>3, WriteMoves
<1> HIDE DEF a, h, q, b
<1>5. Len(b) <= Due(s) /\ b = Numbers(lost[s], Len(b))
  BY <1>3, <1>4, NumbersPrefix
<1>6. <<>> \in Seq(Nat)
  OBVIOUS
<1>7. (b \o <<>>) \o q = Numbers(lost[s], Due(s))
  BY <1>3, <1>4, Zenon
<1>8. Due(s)' = Due(s)
  BY <1>1 DEF Due
<1>9. Flow(s)'
  BY <1>1, <1>2, <1>3, <1>4, <1>5, <1>6, <1>7, <1>8 DEF Flow, q
<1> QED
  BY <1>1, <1>2, <1>9, OneFlows DEF FlowInv

\* Bytes for a socket that is closed are not missed by anyone.
LEMMA PumpWritesToNobodyKeeps ==
  ASSUME FlowInv, NEW s \in Side, T!PumpWritesToNobody(s) PROVE FlowInv'
<1>1. /\ outcome = "running" /\ outcome' # "ok" /\ peer[Other(s)] = "gone"
      /\ held' = [held EXCEPT ![s] = <<>>]
      /\ pump' \in {pump, [pump EXCEPT ![s] = "reading"], [pump EXCEPT ![s] = "done"]}
      /\ UNCHANGED <<peer, sent, lost, inbox, got>>
  BY DEF T!PumpWritesToNobody, T!Running, Other, T!Over
<1>2. /\ held'[s] = <<>> /\ DOMAIN held' = Side /\ DOMAIN pump' = Side
      /\ held'[Other(s)] = held[Other(s)] /\ pump'[Other(s)] = pump[Other(s)]
  BY <1>1, Sides DEF FlowInv
<1>3. <<>> \in Seq(Nat) /\ Flow(s)
  BY DEF FlowInv
<1>4. Flow(s)'
  BY <1>1, <1>2, <1>3 DEF Flow, Due
<1> QED
  BY <1>1, <1>2, <1>4, OneFlows DEF FlowInv

LEMMA PumpReadsEofKeeps ==
  ASSUME FlowInv, NEW s \in Side, T!PumpReadsEof(s) \/ T!PumpShutsDown(s) PROVE FlowInv'
<1>1. /\ outcome = "running" /\ outcome' = outcome
      /\ \/ pump[s] = "reading" /\ inbox[s] = <<>> /\ peer[s] # "open"
         \/ pump[s] = "shutting"
      /\ pump' \in {[pump EXCEPT ![s] = "shutting"], [pump EXCEPT ![s] = "done"]}
      /\ UNCHANGED <<peer, sent, lost, inbox, held, got>>
  BY DEF T!PumpReadsEof, T!PumpShutsDown, T!Running
<1>2. /\ pump'[s] \in {"shutting", "done"} /\ DOMAIN pump' = Side
      /\ pump'[Other(s)] = pump[Other(s)]
  BY <1>1, Sides DEF FlowInv
<1>3. Flow(s)
  BY DEF FlowInv
<1>4. held[s] = <<>>
  BY <1>1, <1>3 DEF Flow
<1>5. peer[Other(s)] # "gone" => inbox[s] = <<>> /\ peer[s] # "open"
  BY <1>1, <1>3 DEF Flow
<1>6. Flow(s)'
  BY <1>1, <1>2, <1>3, <1>4, <1>5 DEF Flow, Due
<1> QED
  BY <1>1, <1>2, <1>6, OneFlows DEF FlowInv

\* Both pumps are done: what was sent to a side that is still there has reached it.
LEMMA BothDoneKeeps == ASSUME FlowInv, T!BothDone PROVE FlowInv'
<1>1. (\A s \in Side : pump[s] = "done") /\ outcome = "running" /\ outcome' = "ok"
      /\ UNCHANGED <<peer, sent, lost, inbox, pump, held, got>>
  BY DEF T!BothDone, T!Running, T!Over, Side
<1>2. \A s \in Side : Flow(s)'
  BY <1>1 DEF FlowInv, Flow, Due
<1>3. ASSUME NEW s \in Side, peer[Other(s)] # "gone"
      PROVE  Len(got[Other(s)]) = Due(s)
  <2> DEFINE a == got[Other(s)]
  <2>1. /\ a \in Seq(Nat) /\ lost[s] \in Nat /\ Due(s) \in Nat
        /\ held[s] = <<>> /\ inbox[s] = <<>>
        /\ (a \o held[s]) \o inbox[s] = Numbers(lost[s], Due(s))
    BY <1>1, <1>3 DEF FlowInv, Flow
  <2> HIDE DEF a
  <2>2. a \o <<>> = a
    BY <2>1, ConcatEmptySeq
  <2>3. a = Numbers(lost[s], Due(s))
    BY <2>1, <2>2, Zenon
  <2> QED
    BY <2>1, <2>3, NumbersAre DEF a
<1>4. OkMeansDelivered'
  <2> SUFFICES ASSUME NEW s \in Side, peer[s] # "gone"
               PROVE  Len(got[s]) = Due(Other(s))
    BY <1>1 DEF OkMeansDelivered, T!OkMeansDelivered, Side, Other, Due
  <2> QED
    BY <1>3, Sides
<1> QED
  BY <1>1, <1>2, <1>4 DEF FlowInv

\* The ends that promise nothing.
LEMMA EndsKeep ==
  ASSUME FlowInv, T!TimesOut \/ \E s \in Side : T!PumpReadFails(s) PROVE FlowInv'
<1>1. outcome' # "ok" /\ UNCHANGED <<peer, sent, lost, inbox, pump, held, got>>
  BY DEF T!TimesOut, T!PumpReadFails, T!Over
<1>2. \A s \in Side : Flow(s)'
  BY <1>1 DEF FlowInv, Flow, Due
<1> QED
  BY <1>1, <1>2 DEF FlowInv, OkMeansDelivered, T!OkMeansDelivered

LEMMA PeersKeep ==
  ASSUME FlowInv, NEW s \in Side, T!Finishes(s) \/ T!Leaves(s) PROVE FlowInv'
<1>1. /\ peer[s] # "gone"
      /\ peer' \in {[peer EXCEPT ![s] = "half"], [peer EXCEPT ![s] = "gone"]}
      /\ UNCHANGED <<sent, lost, inbox, pump, held, got, outcome>>
  BY DEF T!Finishes, T!Leaves
<1>2. DOMAIN peer' = Side /\ peer'[s] # "open" /\ \A r \in Side \ {s} : peer'[r] = peer[r]
  BY <1>1 DEF FlowInv
<1> QED
  BY <1>1, <1>2, StillFlows

LEMMA UpgradesKeep == ASSUME FlowInv, Upgrades PROVE FlowInv'
<1>1. /\ peer' \in {peer, [peer EXCEPT !["client"] = "gone"]}
      /\ UNCHANGED <<sent, lost, inbox, pump, held, got, outcome>>
  BY DEF Upgrades
<1>2. "client" \in Side
  BY DEF Side, T!Side
<1>3. CASE peer' = peer \/ peer["client"] = "gone"
  BY <1>1, <1>2, <1>3, StillFlows DEF FlowInv
<1>4. CASE peer["client"] # "gone" /\ peer' # peer
  <2>1. DOMAIN peer' = Side /\ peer'["client"] = "gone"
        /\ \A r \in Side \ {"client"} : peer'[r] = peer[r]
    BY <1>1, <1>2, <1>4 DEF FlowInv
  <2> QED
    BY <1>1, <1>4, <2>1, StillFlows
<1> QED
  BY <1>3, <1>4

\* While an HTTP engine has no bridge, nothing has come to the tunnel.
Unopened ==
  /\ kind # "bridge" => conn # "open"
  /\ kind = "bridge" /\ bridge = "none" =>
       /\ pump = [s \in Side |-> "reading"] /\ outcome = "running"
       /\ \A f \in {inbox, held, got} : f = [s \in Side |-> <<>>]

LEMMA UnopenedInit == PathInit => Unopened
BY DEF PathInit, Fresh, T!Init, Unopened, Side

LEMMA NothingReopens ==
  ASSUME PathNext
  PROVE  /\ conn' = "open" => conn = "open"
         /\ bridge' = "none" => bridge = "none"
         /\ kind' = kind
<1>1. CASE Serving
  <2>1. (conn' = "open" => conn = "open") /\ bridge' = bridge
    BY <1>1 DEF Serving, EngineStep, TargetStep, HandlerStep, ConnStep, Arrives, Connected,
       HeadReceived, BodyReceived, HandshakeRefused, Collected, AnswersLocally, HandlerFails,
       StepTimesOut, Writes, ConnTimesOut, SeesClientLeave, ClientLeaves, ConnTimerExpires,
       StepTimerExpires, Drops
  <2> QED
    BY <1>1, <2>1 DEF Serving, tunnelVars
<1>2. CASE Switches \/ Upgrades \/ Bridged
  BY <1>2 DEF Switches, HandshakeAccepted, Upgrades, BridgeStarts, Bridged, BridgeEnds, tunnelVars
<1>3. CASE Forwarding
  <2>1. kind' = kind
    BY <1>3 DEF Forwarding, T!Next, T!BothDone, T!TimesOut, T!PeerStep, T!PumpStep, T!Sends,
       T!Finishes, T!Leaves, T!PumpReads, T!PumpReadsEof, T!PumpReadFails, T!PumpWrites,
       T!PumpWritesToNobody, T!PumpShutsDown
  <2> QED
    BY <1>3, <2>1 DEF Forwarding, vars
<1> QED
  BY <1>1, <1>2, <1>3 DEF PathNext

LEMMA UnopenedStep == ASSUME Unopened, [PathNext]_pathVars PROVE Unopened'
<1>1. CASE UNCHANGED pathVars
  BY <1>1 DEF pathVars, vars, tunnelVars, Unopened
<1>2. CASE PathNext
  <2>1. kind' # "bridge" => conn' # "open"
    BY <1>2, NothingReopens DEF Unopened
  <2>2. ASSUME kind' = "bridge", bridge' = "none"
        PROVE  UNCHANGED <<pump, outcome, inbox, held, got>>
    <3>1. kind = "bridge" /\ bridge = "none"
      BY <1>2, <2>2, NothingReopens
    <3> QED
      BY <1>2, <2>2, <3>1 DEF PathNext, Serving, Switches, HandshakeAccepted, Upgrades, BridgeStarts,
         Bridged, Forwarding, Tunnelling, tunnelVars
  <2>3. kind' = "bridge" /\ bridge' = "none" => kind = "bridge" /\ bridge = "none"
    BY <1>2, NothingReopens
  <2> QED
    BY <2>1, <2>2, <2>3 DEF Unopened
<1> QED
  BY <1>1, <1>2

\* The tunnel of a bridge begins behind the bytes that were dropped.
LEMMA SwitchesKeep == ASSUME HttpInv, Unopened, FlowInv, Switches PROVE FlowInv'
<1>1. conn = "open" /\ bridge = "none"
  BY DEF Switches, HandshakeAccepted, HttpInv, TypeOK, BridgeIsOwed
<1>2. /\ pump = [s \in Side |-> "reading"] /\ outcome = "running"
      /\ inbox = [s \in Side |-> <<>>] /\ held = [s \in Side |-> <<>>] /\ got = [s \in Side |-> <<>>]
  BY <1>1 DEF Unopened
<1>3. PICK n \in 0 .. MaxBytes : /\ sent' = [sent EXCEPT !["target"] = n]
                                /\ lost' = [lost EXCEPT !["target"] = n]
  BY DEF Switches
<1>4. UNCHANGED <<peer, pump, outcome, inbox, held, got>> /\ n \in Nat
  BY PathConstants DEF Switches
<1>5. DOMAIN sent' = Side /\ DOMAIN lost' = Side
      /\ \A s \in Side : \/ sent'[s] = n /\ lost'[s] = n
                         \/ sent'[s] = sent[s] /\ lost'[s] = lost[s]
  BY <1>3 DEF FlowInv
<1>6. ASSUME NEW s \in Side PROVE Flow(s)'
  <2>1. /\ inbox'[s] = <<>> /\ held'[s] = <<>> /\ got'[Other(s)] = <<>> /\ pump'[s] = "reading"
        /\ inbox[s] = <<>> /\ held[s] = <<>> /\ got[Other(s)] = <<>> /\ pump[s] = "reading"
    BY <1>2, <1>4, Sides
  <2>2. CASE sent'[s] = sent[s] /\ lost'[s] = lost[s]
    <3>1. Flow(s) /\ Due(s)' = Due(s)
      BY <2>2 DEF FlowInv, Due
    <3> QED
      BY <1>4, <2>1, <2>2, <3>1 DEF Flow
  <2>3. CASE sent'[s] = n /\ lost'[s] = n
    <3>1. Due(s)' = 0 /\ 0 \in Nat /\ 0 <= 0
      BY <1>4, <2>3 DEF Due
    <3>2. <<>> \in Seq(Nat) /\ Len(<<>>) = 0 /\ <<>> = Numbers(n, 0)
          /\ (<<>> \o <<>>) \o <<>> = Numbers(n, 0)
      BY DEF Numbers
    <3> QED
      BY <1>4, <2>1, <2>3, <3>1, <3>2 DEF Flow
  <2> QED
    BY <1>5, <2>2, <2>3
<1>7. OkMeansDelivered'
  BY <1>2, <1>4 DEF OkMeansDelivered, T!OkMeansDelivered
<1> QED
  BY <1>4, <1>5, <1>6, <1>7 DEF FlowInv

LEMMA FlowStep == ASSUME HttpInv, Unopened, FlowInv, [PathNext]_pathVars PROVE FlowInv'
<1>1. CASE UNCHANGED tunnelVars
  BY <1>1, StillFlows DEF tunnelVars, FlowInv
<1>2. ASSUME NEW s \in Side, T!PeerStep(s) \/ T!PumpStep(s)
      PROVE  FlowInv'
  BY <1>2, SendsKeeps, PeersKeep, PumpReadsKeeps, PumpReadsEofKeeps, EndsKeep,
     PumpWritesKeeps, PumpWritesToNobodyKeeps DEF T!PeerStep, T!PumpStep
<1>3. CASE T!Next
  BY <1>2, <1>3, BothDoneKeeps, EndsKeep DEF T!Next, Side
<1> QED
  BY <1>1, <1>3, UpgradesKeep, SwitchesKeep DEF PathNext, Serving, Bridged, Forwarding, pathVars

\* Where the bytes of a tunnel are, at every moment: with the receiver, in the pump or at
\* the proxy's socket, in this order.
THEOREM FlowInvariant == PathSpec => []FlowInv
<1>1. HttpInv /\ Unopened /\ FlowInv /\ [PathNext]_pathVars => Unopened' /\ FlowInv'
  BY UnopenedStep, FlowStep
<1> QED
  BY <1>1, HttpInvariant, UnopenedInit, FlowInit, PTL DEF PathSpec

LEMMA FlowIsIntact == FlowInv => StreamsAreIntact
<1> SUFFICES ASSUME FlowInv, NEW s \in Side
             PROVE  LET all == Numbers(lost[s], Due(s)) IN
                    /\ T!IsPrefix(got[Other(s)], all)
                    /\ peer[Other(s)] # "gone" => got[Other(s)] \o held[s] \o inbox[s] = all
  BY DEF StreamsAreIntact, T!StreamsAreIntact, Side, Other, Numbers, Due
<1>1. Flow(s)
  BY DEF FlowInv
<1> DEFINE a == got[Other(s)]  k == Len(a)
<1>2. k \in Nat /\ lost[s] \in Nat /\ Due(s) \in Nat /\ k <= Due(s) /\ a = Numbers(lost[s], k)
  BY <1>1 DEF Flow
<1> HIDE DEF a, k
<1>3. T!IsPrefix(a, Numbers(lost[s], Due(s)))
  BY <1>2, NumbersIsPrefix
<1> QED
  BY <1>1, <1>3 DEF Flow, a

\* Whatever the reads and writes of a tunnel are cut into, no byte is lost, doubled or
\* moved before another (the copy loops of tcp.rs, forward.rs and unix.rs) once the
\* tunnel is there; what came in one read with a 101 is dropped before (websocket.rs).
THEOREM TunnelsKeepStreams == PathSpec => []StreamsAreIntact
<1> QED
  BY FlowInvariant, FlowIsIntact, PTL

\* A tunnel that ended with Ok has delivered all it was there for to a side that is still
\* there.
THEOREM OkIsDelivery == PathSpec => []OkMeansDelivered
<1>1. FlowInv => OkMeansDelivered
  BY DEF FlowInv
<1> QED
  BY <1>1, FlowInvariant, PTL
=============================================================================
