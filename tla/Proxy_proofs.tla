----------------------------- MODULE Proxy_proofs -----------------------------
(***************************************************************************)
(* Two parts of a running proxy.  The forward engine: who reaches a target,  *)
(* what a tunnel carries, and where the fields of an NTLM message lie, for     *)
(* every list of hosts, number of bytes and challenge.  The configuration      *)
(* that is replaced while it runs: what its manager announces and keeps, for   *)
(* any updating tasks, configurations, length of the history and number of     *)
(* edits and calls.                                                          *)
(***************************************************************************)
EXTENDS ForwardProxy, ConfigReload, SequenceTheorems, TLAPS

-----------------------------------------------------------------------------
(* Admission.                                                               *)

\* The request was let through with what the reads have shown of it.
Admitted ==
  /\ AuthEnabled => req.creds = "good"
  /\ HostAllowed(req.host) \/ (door = "acceptor" /\ req.method = "CONNECT")

\* A handler that is beyond the head, or has been, admitted the request.
AdmissionInv ==
  door \in {"acceptor", "service"} /\ (phase \notin {"head", "closed"} \/ reached)
    => Admitted

\* A step that is no reading of a head goes beyond it only from there.
LEMMA KeepsAdmission ==
  ASSUME AdmissionInv, UNCHANGED <<door, req>>,
         (phase' \notin {"head", "closed"} \/ reached')
           => (phase \notin {"head", "closed"} \/ reached)
  PROVE  AdmissionInv'
BY DEF AdmissionInv, Admitted, HostAllowed

LEMMA HeadReadAdmits ==
  ASSUME AdmissionInv, HeadRead
  PROVE  AdmissionInv'
<1> SUFFICES ASSUME door \in {"acceptor", "service"}, phase' \notin {"head", "closed"} \/ reached'
             PROVE  Admitted'
  BY DEF AdmissionInv, HeadRead, headVars
<1>1. UNCHANGED <<door, req, reached>> /\ phase = "head"
  BY DEF HeadRead, headVars
<1>2. CASE reached'
  BY <1>1, <1>2 DEF AdmissionInv, Admitted, HostAllowed
<1>3. CASE phase' # "closed" /\ door = "acceptor"
  BY <1>1, <1>3 DEF HeadRead, AcceptorDecides, Closes, Admitted, Trusted, Known, HostAllowed
<1>4. CASE phase' # "closed" /\ door = "service"
  BY <1>1, <1>4 DEF HeadRead, ServiceDecides, Closes, Admitted, Trusted, Known, HostAllowed
<1> QED BY <1>1, <1>2, <1>3, <1>4

LEMMA StepAdmits == AdmissionInv /\ [Next]_vars => AdmissionInv'
<1> SUFFICES ASSUME AdmissionInv, [Next]_vars PROVE AdmissionInv'
  OBVIOUS
<1>1. CASE Sends \/ Greets \/ UNCHANGED vars
  BY <1>1, KeepsAdmission DEF Sends, Greets, vars
<1>2. CASE HeadRead
  BY <1>2, HeadReadAdmits
<1>3. CASE HeadFails \/ ConnectFails \/ Denied \/ AnswerFails \/ AnswerCollected \/ RelayEnds
  BY <1>3, KeepsAdmission
     DEF HeadFails, ConnectFails, Denied, AnswerFails, AnswerCollected, RelayEnds, Closes, headVars
<1>4. CASE ConnectsTunnel \/ ConnectsToForward \/ ConnectsToUpstream
  BY <1>4, KeepsAdmission
     DEF ConnectsTunnel, ConnectsToForward, ConnectsToUpstream, Closes, Proceeds, headVars
<1>5. CASE Granted \/ Challenged
  BY <1>5, KeepsAdmission DEF Granted, Challenged, Closes, Proceeds, headVars
<1>6. CASE BodyStreams \/ TargetAnswers \/ ToTarget \/ ToClient \/ TunnelEnds
  BY <1>6, KeepsAdmission
     DEF BodyStreams, TargetAnswers, ToTarget, ToClient, TunnelEnds, Proceeds, headVars
<1> QED BY <1>1, <1>2, <1>3, <1>4, <1>5, <1>6 DEF Next, Handler

\* Whatever its head was cut into, a request that reaches a target was admitted:
\* authenticate and check_host of http/proxy.rs.
THEOREM TargetsAreAdmitted == Spec => []OnlyAdmittedReachTargets
<1>1. Init => AdmissionInv
  BY DEF Init, AdmissionInv
<1>2. AdmissionInv => OnlyAdmittedReachTargets
  BY DEF AdmissionInv, Admitted, OnlyAdmittedReachTargets
<1> QED BY <1>1, <1>2, StepAdmits, PTL DEF Spec

-----------------------------------------------------------------------------
(* NTLM.                                                                    *)

\* Sixteen bits hold what is shorter than 65536.
LEMMA Fits16 == \A n \in Nat : n < 65536 => U16(n) = n
BY DEF U16

\* Target information that is taken lies within its message.
LEMMA InfoFits ==
  ASSUME NEW m \in Replies
  PROVE  TargetInfo(m) \in Nat /\ TargetInfo(m) <= 6144
<1>1. m.size \in Nat /\ m.size <= 6144 /\ m.infoLength \in Nat /\ m.infoOffset \in Nat
  BY RepliesAssumption
<1>2. CASE m.infoLength > 0 /\ m.infoOffset + m.infoLength <= m.size
  BY <1>1, <1>2 DEF TargetInfo
<1>3. CASE ~(m.infoLength > 0 /\ m.infoOffset + m.infoLength <= m.size)
  BY <1>3 DEF TargetInfo
<1> QED BY <1>2, <1>3

\* An answer to a challenge is short enough for its 16-bit length.
LEMMA AnswerFits ==
  ASSUME NEW a \in Accounts, NEW m \in Replies
  PROVE  NtLength(a, m) \in Nat /\ NtLength(a, m) < 65536
BY InfoFits DEF NtLength, BlobLength

LEMMA Type3Fits ==
  ASSUME NEW m \in Replies,
         Account.domain < 65536, Account.user < 65536, Account.workstation < 65536
  PROVE  LET t == Type3(Account, m) IN
           t.workstation.offset + t.workstation.length = t.size - 24
<1> DEFINE a == Account
<1>1. a \in Accounts /\ a.domain \in Nat /\ a.user \in Nat /\ a.workstation \in Nat
  BY ForwardConstants DEF Accounts
<1>2. NtLength(a, m) \in Nat /\ U16(NtLength(a, m)) = NtLength(a, m)
  BY <1>1, AnswerFits, Fits16
<1>3. /\ U16(a.domain) = a.domain
      /\ U16(a.user) = a.user
      /\ U16(a.workstation) = a.workstation
  BY <1>1, Fits16
<1> HIDE DEF a
<1>4. LET t == Type3(a, m) IN
        t.workstation.offset + t.workstation.length = t.size - 24
  BY <1>1, <1>2, <1>3 DEF Type3
<1> QED BY <1>4 DEF a

\* The message 3 that was sent answers one of the challenges.
Answering == type3 # <<>> => \E m \in Replies : type3 = Type3(Account, m)

LEMMA StepAnswers == Answering /\ [Next]_vars => Answering'
<1> SUFFICES ASSUME Answering, [Next]_vars PROVE Answering'
  OBVIOUS
<1>1. CASE UNCHANGED type3
  BY <1>1 DEF Answering
<1>2. CASE Challenged
  BY <1>2 DEF Challenged, Answering
<1>3. CASE Sends \/ Greets \/ UNCHANGED vars
  BY <1>1, <1>3 DEF Sends, Greets, vars
<1>4. CASE Handler /\ ~Challenged
  BY <1>1, <1>4
     DEF Handler, HeadRead, HeadFails, ConnectFails, ConnectsTunnel, ConnectsToForward,
         ConnectsToUpstream, Granted, Denied, BodyStreams, TargetAnswers, AnswerFails,
         AnswerCollected, RelayEnds, ToTarget, ToClient, TunnelEnds
<1> QED BY <1>2, <1>3, <1>4 DEF Next

\* For an account whose names are shorter than 65536 bytes (http/ntlm.rs casts their
\* lengths to 16 bits unseen), the fields of both messages fit, whatever the challenge
\* claims of its target information.
THEOREM FieldsFit ==
  ASSUME Account.domain < 65536, Account.user < 65536, Account.workstation < 65536
  PROVE  Spec => []NtlmFieldsFit
<1>1. Init => Answering
  BY DEF Init, Answering
<1>2. Answering => NtlmFieldsFit
  <2>1. ASSUME Answering, type3 # <<>>
        PROVE  type3.workstation.offset + type3.workstation.length = type3.size - 24
    BY <2>1, Type3Fits DEF Answering
  <2>2. Account \in Accounts /\ Account.domain \in Nat /\ Account.workstation \in Nat
    BY ForwardConstants DEF Accounts
  <2>3. LET t == Type1(Account) IN
          t.workstation.offset + t.workstation.length = t.size - 16
    BY <2>2, Fits16 DEF Type1
  <2> QED BY <2>1, <2>3 DEF NtlmFieldsFit
<1> QED BY <1>1, <1>2, StepAnswers, PTL DEF Spec

-----------------------------------------------------------------------------
(* What a tunnel carries.                                                   *)

LEMMA HeadLength == \A r : Length(r) \in {2, 3}
BY DEF Length, HeadOf

LEMMA NoUnits ==
  ASSUME NEW a \in Nat, NEW b \in Nat, b < a
  PROVE  Units(a, b) = <<>>
BY DEF Units

LEMMA OneMoreUnit ==
  ASSUME NEW a \in Nat, NEW b \in Nat, a <= b + 1
  PROVE  Append(Units(a, b), b + 1) = Units(a, b + 1)
<1> DEFINE n == b + 1 - a
<1>1. n \in Nat
  OBVIOUS
<1>2. Units(a, b) = [i \in 1 .. n |-> a + i - 1]
  BY DEF Units
<1>3. Units(a, b + 1) = [i \in 1 .. n + 1 |-> a + i - 1]
  BY DEF Units
<1>4. Append(Units(a, b), b + 1) = [i \in 1 .. n + 1 |-> IF i <= n THEN a + i - 1 ELSE b + 1]
  BY <1>1, <1>2
<1>5. \A i \in 1 .. n + 1 : (IF i <= n THEN a + i - 1 ELSE b + 1) = a + i - 1
  BY <1>1
<1> QED BY <1>3, <1>4, <1>5

\* The phases before a tunnel or a forwarded request.
Early == {"head", "connecting", "asked", "negotiating", "answering"}

\* What the handler has read has arrived.
Counted ==
  /\ taken \in Nat /\ arrived \in Nat /\ taken <= arrived
  /\ greeting \in Nat /\ passed \in Nat

\* Until a request is answered the client that waits has sent its head and no more;
\* nothing has been carried or heard before the tunnel stands.
Untold ==
  /\ phase \notin {"tunnel", "closed"} => answer = "none"
  /\ phase \in Early => carried = <<>> /\ heard = <<>> /\ passed = 0
  /\ answer = "none" /\ ~eager => arrived <= Length(req)
  /\ phase \notin {"head", "closed"} /\ ~cut => taken >= Length(req)

TunnelInv == Counted /\ Untold /\ TunnelsLoseOnlyWhatCameEarly

\* A step that reads, tells, carries and passes nothing, and goes back to no earlier phase.
LEMMA KeepsTunnel ==
  ASSUME TunnelInv,
         UNCHANGED <<door, req, eager, cut, arrived, taken, carried, passed, heard, greeting>>,
         phase' \in {"tunnel", "closed"} \/ answer' = "none",
         answer' = "none" => answer = "none",
         answer' = "200" => answer = "200",
         phase' \in Early => phase \in Early,
         phase' \notin {"head", "closed"} => phase \notin {"head", "closed"}
  PROVE  TunnelInv'
<1>1. Length(req)' = Length(req)
  BY DEF Length, HeadOf
<1>2. Counted'
  BY DEF TunnelInv, Counted
<1>3. Untold'
  BY <1>1 DEF TunnelInv, Untold, Early
<1>4. TunnelsLoseOnlyWhatCameEarly'
  BY <1>1 DEF TunnelInv, TunnelsLoseOnlyWhatCameEarly, Units
<1> QED BY <1>2, <1>3, <1>4 DEF TunnelInv

LEMMA SendsKeepsTunnel ==
  ASSUME TunnelInv, Sends
  PROVE  TunnelInv'
<1>1. Length(req)' = Length(req) /\ Length(req) \in Nat
  BY HeadLength DEF Sends, Length, HeadOf
<1>2. Counted'
  BY DEF TunnelInv, Counted, Sends
<1>3. Untold'
  <2>1. answer' = "none" /\ ~eager' => arrived' <= Length(req)'
    <3> SUFFICES ASSUME answer = "none", ~eager' PROVE arrived + 1 <= Length(req)
      BY <1>1 DEF Sends
    <3>1. ~(arrived >= Length(req))
      BY DEF Sends
    <3> QED BY <3>1, <1>1 DEF TunnelInv, Counted
  <2> QED BY <1>1, <2>1 DEF TunnelInv, Untold, Sends, Early
<1>4. TunnelsLoseOnlyWhatCameEarly'
  BY <1>1 DEF TunnelInv, TunnelsLoseOnlyWhatCameEarly, Units, Sends
<1> QED BY <1>2, <1>3, <1>4 DEF TunnelInv

LEMMA GreetsKeepsTunnel ==
  ASSUME TunnelInv, Greets
  PROVE  TunnelInv'
<1>1. Length(req)' = Length(req)
  BY DEF Greets, Length, HeadOf
<1>2. Counted'
  BY DEF TunnelInv, Counted, Greets
<1>3. Untold'
  BY <1>1 DEF TunnelInv, Untold, Greets, Early
<1>4. TunnelsLoseOnlyWhatCameEarly'
  BY <1>1 DEF TunnelInv, TunnelsLoseOnlyWhatCameEarly, Units, Greets
<1> QED BY <1>2, <1>3, <1>4 DEF TunnelInv

\* A read of a head leads to its phase or to an end.
LEMMA HeadReadKeepsTunnel ==
  ASSUME TunnelInv, HeadRead
  PROVE  TunnelInv'
<1>1. Length(req)' = Length(req) /\ Length(req) \in Nat
  BY HeadLength DEF HeadRead, headVars, Length, HeadOf
<1>2. UNCHANGED <<door, req, arrived, eager, carried, greeting, heard, passed>>
  BY DEF HeadRead, headVars, tunnelVars
<1>3. phase = "head" /\ answer = "none" /\ carried = <<>> /\ heard = <<>> /\ passed = 0
  BY DEF HeadRead, TunnelInv, Untold, Early
<1>4. \/ phase' = "closed"
      \/ phase' = "connecting" /\ answer' = "none"
  BY <1>3 DEF HeadRead, AcceptorDecides, ServiceDecides, ConverterDecides, Closes, Proceeds
<1>5. answer' # "200"
  BY <1>3 DEF HeadRead, AcceptorDecides, ServiceDecides, ConverterDecides, Closes, Proceeds
<1>6. taken' \in Nat /\ taken' <= arrived
  BY <1>1 DEF HeadRead, OneRead, WholeHead, WholeRequest, HasEnd, TunnelInv, Counted
<1>7. ~cut' => taken' >= Length(req)
  BY DEF HeadRead, HasEnd
<1>8. Counted'
  BY <1>2, <1>6 DEF TunnelInv, Counted
<1>9. Untold'
  BY <1>1, <1>2, <1>3, <1>4, <1>7 DEF TunnelInv, Untold, Early
<1>10. TunnelsLoseOnlyWhatCameEarly'
  BY <1>5 DEF TunnelsLoseOnlyWhatCameEarly
<1> QED BY <1>8, <1>9, <1>10 DEF TunnelInv

\* A tunnel begins with what follows the head, of which a client that waits has sent
\* nothing.
LEMMA TunnelBegins ==
  ASSUME TunnelInv, phase \in Early \ {"head"},
         UNCHANGED <<door, req, eager, cut, arrived, taken, carried, heard, greeting>>,
         phase' = "tunnel", answer' = "200",
         passed' \in Nat, door = "acceptor" => passed' = passed
  PROVE  TunnelInv'
<1>1. Length(req)' = Length(req) /\ Length(req) \in Nat
  BY HeadLength DEF Length, HeadOf
<1>2. Counted'
  BY DEF TunnelInv, Counted
<1>3. Untold'
  BY <1>1 DEF TunnelInv, Untold, Early
<1>4. ~eager /\ ~cut => carried = Units(Length(req) + 1, taken)
  <2> SUFFICES ASSUME ~eager, ~cut PROVE carried = Units(Length(req) + 1, taken)
    OBVIOUS
  <2>1. carried = <<>> /\ taken = Length(req)
    BY <1>1 DEF TunnelInv, Untold, Counted, Early
  <2> QED BY <2>1, <1>1, NoUnits
<1>5. door = "acceptor" => heard = Units(1, passed')
  BY NoUnits DEF TunnelInv, Untold, Early
<1>6. TunnelsLoseOnlyWhatCameEarly'
  BY <1>1, <1>4, <1>5 DEF TunnelsLoseOnlyWhatCameEarly, Units
<1> QED BY <1>2, <1>3, <1>6 DEF TunnelInv

\* A request that is forwarded is answered with no 200 of the proxy's own.
LEMMA ForwardBegins ==
  ASSUME TunnelInv, phase \in Early \ {"head"},
         UNCHANGED <<door, req, eager, cut, arrived, taken, heard, greeting, answer>>,
         phase' = "awaiting", passed' \in Nat
  PROVE  TunnelInv'
<1>1. Length(req)' = Length(req)
  BY DEF Length, HeadOf
<1>2. Counted'
  BY DEF TunnelInv, Counted
<1>3. Untold' /\ answer = "none"
  BY <1>1 DEF TunnelInv, Untold, Early
<1>4. TunnelsLoseOnlyWhatCameEarly'
  BY <1>3 DEF TunnelsLoseOnlyWhatCameEarly
<1> QED BY <1>2, <1>3, <1>4 DEF TunnelInv

LEMMA BodyStreamsKeepsTunnel ==
  ASSUME TunnelInv, BodyStreams
  PROVE  TunnelInv'
<1>1. Length(req)' = Length(req) /\ Length(req) \in Nat
  BY HeadLength DEF BodyStreams, headVars, Length, HeadOf
<1>2. Counted'
  BY DEF TunnelInv, Counted, BodyStreams, headVars
<1>3. Untold' /\ answer' = "none"
  BY <1>1 DEF TunnelInv, Untold, Counted, Early, BodyStreams, headVars
<1>4. TunnelsLoseOnlyWhatCameEarly'
  BY <1>3 DEF TunnelsLoseOnlyWhatCameEarly
<1> QED BY <1>2, <1>3, <1>4 DEF TunnelInv

LEMMA ToTargetKeepsTunnel ==
  ASSUME TunnelInv, ToTarget
  PROVE  TunnelInv'
<1>1. Length(req)' = Length(req) /\ Length(req) \in Nat
  BY HeadLength DEF ToTarget, headVars, Length, HeadOf
<1>2. Counted'
  BY DEF TunnelInv, Counted, ToTarget, headVars
<1>3. Untold'
  BY <1>1 DEF TunnelInv, Untold, Counted, Early, ToTarget, headVars
<1>4. ASSUME answer = "200", ~eager, ~cut
      PROVE  carried' = Units(Length(req) + 1, taken')
  <2>1. carried = Units(Length(req) + 1, taken)
    BY <1>4 DEF TunnelInv, TunnelsLoseOnlyWhatCameEarly
  <2>2. taken \in Nat /\ taken >= Length(req)
    BY <1>4 DEF TunnelInv, Untold, Counted, ToTarget
  <2>3. Append(Units(Length(req) + 1, taken), taken + 1) = Units(Length(req) + 1, taken + 1)
    <3>1. Length(req) + 1 \in Nat /\ Length(req) + 1 <= taken + 1
      BY <1>1, <2>2
    <3> QED BY <3>1, <2>2, OneMoreUnit
  <2> QED BY <2>1, <2>3 DEF ToTarget
<1>5. TunnelsLoseOnlyWhatCameEarly'
  BY <1>1, <1>4 DEF TunnelInv, TunnelsLoseOnlyWhatCameEarly, Units, ToTarget, headVars
<1> QED BY <1>2, <1>3, <1>5 DEF TunnelInv

LEMMA ToClientKeepsTunnel ==
  ASSUME TunnelInv, ToClient
  PROVE  TunnelInv'
<1>1. Length(req)' = Length(req)
  BY DEF ToClient, headVars, Length, HeadOf
<1>2. Counted'
  BY DEF TunnelInv, Counted, ToClient, headVars
<1>3. Untold'
  BY <1>1 DEF TunnelInv, Untold, Early, ToClient, headVars
<1>4. ASSUME answer = "200", door = "acceptor"
      PROVE  heard' = Units(1, passed')
  <2>1. heard = Units(1, passed) /\ passed \in Nat
    BY <1>4 DEF TunnelInv, TunnelsLoseOnlyWhatCameEarly, Counted
  <2>2. Append(Units(1, passed), passed + 1) = Units(1, passed + 1)
    <3>1. 1 \in Nat /\ 1 <= passed + 1
      BY <2>1
    <3> QED BY <3>1, <2>1, OneMoreUnit
  <2> QED BY <2>1, <2>2 DEF ToClient
<1>5. TunnelsLoseOnlyWhatCameEarly'
  BY <1>1, <1>4 DEF TunnelInv, TunnelsLoseOnlyWhatCameEarly, Units, ToClient, headVars
<1> QED BY <1>2, <1>3, <1>5 DEF TunnelInv

LEMMA StepKeepsTunnel == TunnelInv /\ [Next]_vars => TunnelInv'
<1> SUFFICES ASSUME TunnelInv, [Next]_vars PROVE TunnelInv'
  OBVIOUS
<1>1. CASE Sends \/ Greets
  BY <1>1, SendsKeepsTunnel, GreetsKeepsTunnel
<1>2. CASE HeadRead
  BY <1>2, HeadReadKeepsTunnel
<1>3. CASE UNCHANGED vars
  BY <1>3, KeepsTunnel DEF vars, TunnelInv, Untold
<1>4. CASE HeadFails \/ ConnectFails \/ Denied \/ AnswerFails
  BY <1>4, KeepsTunnel
     DEF HeadFails, ConnectFails, Denied, AnswerFails, Closes, headVars, tunnelVars,
         TunnelInv, Untold, Early
<1>5. CASE AnswerCollected \/ RelayEnds
  BY <1>5, KeepsTunnel
     DEF AnswerCollected, RelayEnds, Closes, headVars, tunnelVars, TunnelInv, Untold, Early
<1>6. CASE ConnectsTunnel
  BY <1>6, TunnelBegins DEF ConnectsTunnel, headVars, tunnelVars, TunnelInv, Counted, Early
<1>7. CASE ConnectsToForward
  BY <1>7, ForwardBegins DEF ConnectsToForward, Proceeds, headVars, TunnelInv, Counted, Early
<1>8. CASE ConnectsToUpstream
  BY <1>8, KeepsTunnel
     DEF ConnectsToUpstream, Closes, Proceeds, headVars, tunnelVars, TunnelInv, Untold, Early
<1>9. CASE Granted
  <2>1. phase \in Early \ {"head"} /\ passed' \in Nat /\ door # "acceptor"
    <3>1. phase \in Early \ {"head"} /\ door # "acceptor"
      BY <1>9 DEF Granted, Early
    <3>2. greeting \in Nat /\ passed' \in 0 .. greeting
      BY <1>9 DEF Granted, TunnelInv, Counted
    <3> QED BY <3>1, <3>2
  <2>2. CASE door = "converter"
    BY <1>9, <2>1, <2>2, TunnelBegins DEF Granted, headVars
  <2>3. CASE door = "engine"
    BY <1>9, <2>1, <2>3, ForwardBegins DEF Granted, Proceeds, headVars
  <2> QED BY <1>9, <2>2, <2>3 DEF Granted
<1>10. CASE Challenged
  BY <1>10, KeepsTunnel
     DEF Challenged, Closes, Proceeds, headVars, tunnelVars, TunnelInv, Untold, Early
<1>11. CASE TargetAnswers \/ TunnelEnds
  BY <1>11, KeepsTunnel
     DEF TargetAnswers, TunnelEnds, Proceeds, headVars, tunnelVars, TunnelInv, Untold, Early
<1>12. CASE BodyStreams \/ ToTarget \/ ToClient
  BY <1>12, BodyStreamsKeepsTunnel, ToTargetKeepsTunnel, ToClientKeepsTunnel
<1> QED
  BY <1>1, <1>2, <1>3, <1>4, <1>5, <1>6, <1>7, <1>8, <1>9, <1>10, <1>11, <1>12
     DEF Next, Handler

\* The target of a tunnel gets what follows the head, and the client of the acceptor's
\* tunnels what the target sends, each byte once and in order, for streams of every
\* length: the loops of http/proxy.rs and http/upstream.rs.
THEOREM TunnelsKeepTheirStreams == Spec => []TunnelsLoseOnlyWhatCameEarly
<1>1. Init => TunnelInv
  <2> SUFFICES ASSUME Init PROVE TunnelInv
    OBVIOUS
  <2>1. Counted
    BY DEF Init, Counted
  <2>2. Untold
    <3>1. Length(req) >= 0
      BY HeadLength
    <3> QED BY <3>1 DEF Init, Untold, Early
  <2>3. TunnelsLoseOnlyWhatCameEarly
    BY DEF Init, TunnelsLoseOnlyWhatCameEarly
  <2> QED BY <2>1, <2>2, <2>3 DEF TunnelInv
<1>2. TunnelInv => TunnelsLoseOnlyWhatCameEarly
  BY DEF TunnelInv
<1> QED BY <1>1, <1>2, StepKeepsTunnel, PTL DEF Spec

-----------------------------------------------------------------------------
(* The manager of the configuration.                                       *)

\* Between its read of the configuration it replaces and its event.
Replacing(u) == update[u].pc \in {"writing", "saving", "announcing"}

Change == [old : Config, new : Config]

ManagerTypes ==
  /\ current \in Config
  /\ loaded \in Config
  /\ history \in Seq(Config) /\ history # <<>>
  /\ announced \in Change
  /\ update \in [Updater -> [pc : {"idle", "reading", "writing", "saving", "announcing"},
                             change : Change]]
  /\ overlapped \in BOOLEAN

\* When nothing is being replaced, the last event and the last snapshot are of the
\* configuration in force.
SettledManager ==
  (\A u \in Updater : ~Replacing(u)) =>
    announced.new = current /\ history[Len(history)] = current

\* One update at a time: what it read is still what was announced, and what it has
\* written, saved and announced goes in that order.
OneAtATime ==
  /\ \A u, v \in Updater : Replacing(u) /\ Replacing(v) => u = v
  /\ \A u \in Updater :
       LET change == update[u].change IN
       /\ Replacing(u) => change.old = announced.new
       /\ update[u].pc = "writing" => change.old = current
       /\ update[u].pc \in {"saving", "announcing"} => change.new = current
       /\ update[u].pc = "writing" => history[Len(history)] = current
       /\ update[u].pc = "announcing" => history[Len(history)] = current
  /\ SettledManager

\* The chain of events is not inductive without what each update under way has in hand.
ManagerInv == ManagerTypes /\ (overlapped \/ OneAtATime)

-----------------------------------------------------------------------------
LEMMA InitManager == ReloadInit => ManagerInv
<1> SUFFICES ASSUME ReloadInit PROVE ManagerInv
  OBVIOUS
<1>1. NoChange(file) \in Change /\ NoChange(file).new = file /\ file \in Config
  BY DEF ReloadInit, NoChange, Change
<1>2. \A u \in Updater : update[u].pc = "idle"
  BY DEF ReloadInit
<1>3. history \in Seq(Config) /\ history # <<>> /\ history[Len(history)] = file
  BY <1>1 DEF ReloadInit
<1>4. ManagerTypes
  BY <1>1, <1>3 DEF ReloadInit, ManagerTypes
<1>5. OneAtATime
  BY <1>1, <1>2, <1>3 DEF ReloadInit, OneAtATime, SettledManager, Replacing
<1>6. QED
  BY <1>4, <1>5 DEF ManagerInv

\* A step that gives nothing to the manager.
LEMMA QuietKeepsManager ==
  ASSUME ManagerInv, UNCHANGED <<loaded, managerVars, update>>
  PROVE  ManagerInv'
BY DEF ManagerInv, ManagerTypes, OneAtATime, SettledManager, Replacing, managerVars

\* A task that was doing nothing starts.
LEMMA StartKeepsManager ==
  ASSUME ManagerInv, NEW u \in Updater, NEW c \in Config, UpdateStarts(u, c),
         loaded' \in Config, UNCHANGED managerVars
  PROVE  ManagerInv'
<1>1. NoChange(c) \in Change
  BY DEF NoChange, Change
<1>2. /\ update' \in [Updater -> [pc : {"idle", "reading", "writing", "saving", "announcing"},
                                  change : Change]]
      /\ \A v \in Updater : Replacing(v)' <=> Replacing(v)
      /\ \A v \in Updater : Replacing(v)' => update'[v] = update[v]
  BY <1>1 DEF ManagerInv, ManagerTypes, UpdateStarts, Free, Replacing
<1>3. ManagerTypes'
  BY <1>2 DEF ManagerInv, ManagerTypes, managerVars
<1>4. OneAtATime => OneAtATime'
  BY <1>2 DEF OneAtATime, SettledManager, Replacing, managerVars
<1>5. QED
  BY <1>3, <1>4 DEF ManagerInv, managerVars

LEMMA ChangedTypes ==
  ASSUME ManagerTypes, NEW u \in Updater, NEW c \in Change,
         NEW pc \in {"idle", "reading", "writing", "saving", "announcing"}, Changed(u, pc, c)
  PROVE  /\ update' \in [Updater -> [pc : {"idle", "reading", "writing", "saving", "announcing"},
                                     change : Change]]
         /\ update'[u].pc = pc /\ update'[u].change = c
         /\ \A v \in Updater \ {u} : update'[v] = update[v]
BY DEF ManagerTypes, Changed

LEMMA ReadsKeepsManager ==
  ASSUME ManagerInv, NEW u \in Updater, UpdateReads(u)
  PROVE  ManagerInv'
<1> DEFINE c == [update[u].change EXCEPT !.old = current]
           pc == IF c.new \in Valid THEN "writing" ELSE "idle"
<1>1. c \in Change /\ c.old = current /\ pc \in {"idle", "writing"}
  BY DEF ManagerInv, ManagerTypes, Change
<1>2. Changed(u, pc, c) /\ UNCHANGED <<current, history, announced, loaded>>
  BY DEF UpdateReads
<1> HIDE DEF c, pc
<1>3. /\ update' \in [Updater -> [pc : {"idle", "reading", "writing", "saving", "announcing"},
                                  change : Change]]
      /\ update'[u].pc = pc /\ update'[u].change = c
      /\ \A v \in Updater \ {u} : update'[v] = update[v]
  BY <1>1, <1>2, ChangedTypes DEF ManagerInv
<1>4. overlapped' = (overlapped \/ \E v \in Updater \ {u} : Replacing(v))
  BY DEF UpdateReads, Overlaps, Replacing
<1>5. ManagerTypes'
  BY <1>2, <1>3, <1>4 DEF ManagerInv, ManagerTypes
<1>6. ASSUME ~overlapped' PROVE OneAtATime'
  <2>1. OneAtATime /\ \A v \in Updater \ {u} : ~Replacing(v)
    BY <1>4, <1>6 DEF ManagerInv
  <2>2. ~Replacing(u)
    BY DEF UpdateReads, Replacing
  <2>3. announced.new = current /\ history[Len(history)] = current
    BY <2>1, <2>2 DEF OneAtATime, SettledManager
  <2>4. \A v \in Updater \ {u} : ~Replacing(v)'
    BY <1>3, <2>1 DEF Replacing
  <2>5. QED
    BY <1>1, <1>2, <1>3, <2>3, <2>4 DEF OneAtATime, SettledManager, Replacing
<1>7. QED
  BY <1>5, <1>6 DEF ManagerInv

\* The three steps of the update that is the only one.
LEMMA WritesKeepsManager ==
  ASSUME ManagerInv, NEW u \in Updater, UpdateWrites(u)
  PROVE  ManagerInv'
<1> DEFINE c == update[u].change
<1>1. c \in Change /\ c.new \in Config /\ update[u].pc = "writing" /\ Replacing(u)
  BY DEF ManagerInv, ManagerTypes, UpdateWrites, Replacing, Change
<1>2. /\ Changed(u, "saving", c) /\ current' = c.new
      /\ UNCHANGED <<history, announced, loaded, overlapped>>
  BY DEF UpdateWrites
<1>3. /\ update' \in [Updater -> [pc : {"idle", "reading", "writing", "saving", "announcing"},
                                  change : Change]]
      /\ update'[u].pc = "saving" /\ update'[u].change = c
      /\ \A v \in Updater \ {u} : update'[v] = update[v]
  BY <1>1, <1>2, ChangedTypes DEF ManagerInv
<1>4. ManagerTypes'
  BY <1>1, <1>2, <1>3 DEF ManagerInv, ManagerTypes
<1>5. ASSUME OneAtATime PROVE OneAtATime'
  <2>1. \A v \in Updater \ {u} : ~Replacing(v)'
    BY <1>1, <1>3, <1>5 DEF OneAtATime, Replacing
  <2>2. c.old = announced.new
    BY <1>1, <1>5 DEF OneAtATime
  <2> HIDE DEF c
  <2>3. QED
    BY <1>2, <1>3, <2>1, <2>2 DEF OneAtATime, SettledManager, Replacing
<1>6. QED
  BY <1>2, <1>4, <1>5 DEF ManagerInv

LEMMA SnapshotIsLast ==
  ASSUME history \in Seq(Config), history # <<>>, NEW c \in Config, SaveSnapshot(c)
  PROVE  history' \in Seq(Config) /\ history' # <<>> /\ history'[Len(history')] = c
<1>1. Tail(history) \in Seq(Config)
  OBVIOUS
<1>2. PICK s \in Seq(Config) : history' = Append(s, c)
  BY <1>1 DEF SaveSnapshot
<1>3. QED
  BY <1>2

LEMMA SavesKeepsManager ==
  ASSUME ManagerInv, NEW u \in Updater, UpdateSaves(u)
  PROVE  ManagerInv'
<1> DEFINE c == update[u].change
<1>1. c \in Change /\ c.new \in Config /\ update[u].pc = "saving" /\ Replacing(u)
  BY DEF ManagerInv, ManagerTypes, UpdateSaves, Replacing, Change
<1>2. /\ Changed(u, "announcing", c) /\ SaveSnapshot(c.new)
      /\ UNCHANGED <<current, announced, loaded, overlapped>>
  BY DEF UpdateSaves
<1>3. /\ update' \in [Updater -> [pc : {"idle", "reading", "writing", "saving", "announcing"},
                                  change : Change]]
      /\ update'[u].pc = "announcing" /\ update'[u].change = c
      /\ \A v \in Updater \ {u} : update'[v] = update[v]
  BY <1>1, <1>2, ChangedTypes DEF ManagerInv
<1>4. history' \in Seq(Config) /\ history' # <<>> /\ history'[Len(history')] = c.new
  BY <1>1, <1>2, SnapshotIsLast DEF ManagerInv, ManagerTypes
<1>5. ManagerTypes'
  BY <1>2, <1>3, <1>4 DEF ManagerInv, ManagerTypes
<1>6. ASSUME OneAtATime PROVE OneAtATime'
  <2>1. \A v \in Updater \ {u} : ~Replacing(v)'
    BY <1>1, <1>3, <1>6 DEF OneAtATime, Replacing
  <2>2. c.old = announced.new /\ c.new = current
    BY <1>1, <1>6 DEF OneAtATime
  <2> HIDE DEF c
  <2>3. QED
    BY <1>2, <1>3, <1>4, <2>1, <2>2 DEF OneAtATime, SettledManager, Replacing
<1>7. QED
  BY <1>2, <1>5, <1>6 DEF ManagerInv

LEMMA AnnouncesKeepsManager ==
  ASSUME ManagerInv, NEW u \in Updater, UpdateAnnounces(u)
  PROVE  ManagerInv'
<1> DEFINE c == update[u].change
<1>1. c \in Change /\ update[u].pc = "announcing" /\ Replacing(u)
  BY DEF ManagerInv, ManagerTypes, UpdateAnnounces, Replacing
<1>2. /\ Changed(u, "idle", c) /\ announced' = c
      /\ UNCHANGED <<current, history, loaded, overlapped>>
  BY DEF UpdateAnnounces
<1>3. /\ update' \in [Updater -> [pc : {"idle", "reading", "writing", "saving", "announcing"},
                                  change : Change]]
      /\ update'[u].pc = "idle" /\ update'[u].change = c
      /\ \A v \in Updater \ {u} : update'[v] = update[v]
  BY <1>1, <1>2, ChangedTypes DEF ManagerInv
<1>4. ManagerTypes'
  BY <1>1, <1>2, <1>3 DEF ManagerInv, ManagerTypes
<1>5. ASSUME OneAtATime PROVE OneAtATime'
  <2>1. \A v \in Updater : ~Replacing(v)'
    BY <1>1, <1>3, <1>5 DEF OneAtATime, Replacing
  <2>2. c.new = current /\ history[Len(history)] = current
    BY <1>1, <1>5 DEF OneAtATime
  <2> HIDE DEF c
  <2>3. QED
    BY <1>2, <2>1, <2>2 DEF OneAtATime, SettledManager, Replacing
<1>6. QED
  BY <1>2, <1>4, <1>5 DEF ManagerInv

LEMMA NextManager ==
  ASSUME ManagerInv, [ReloadNext]_reloadVars
  PROVE  ManagerInv'
<1>1. CASE WatchStarts \/ WatcherWakes \/ WatcherReads \/ NoticeDelivered \/ TriggerReload
           \/ UNCHANGED reloadVars
  BY <1>1, QuietKeepsManager
  DEF WatchStarts, WatcherWakes, WatcherReads, NoticeDelivered, TriggerReload, reloadVars, managerVars
<1>2. ASSUME NEW c \in Config \cup {Broken}, Edit(c)
      PROVE  ManagerInv'
  BY <1>2, QuietKeepsManager DEF Edit
<1>3. ASSUME NEW u \in Updater, WatcherLoads(u)
      PROVE  ManagerInv'
  <2>1. CASE read \in Valid
    <3>1. read \in Config /\ UpdateStarts(u, read) /\ loaded' = read /\ UNCHANGED managerVars
      BY <1>3, <2>1, ConfigAssumption DEF WatcherLoads
    <3>2. QED
      BY <3>1, StartKeepsManager
  <2>2. CASE read \notin Valid
    BY <1>3, <2>2, QuietKeepsManager DEF WatcherLoads
  <2>3. QED
    BY <2>1, <2>2
<1>4. ASSUME NEW u \in Updater, RollbackStarts(u)
      PROVE  ManagerInv'
  <2>1. history[Len(history) - 1] \in Config /\ loaded \in Config
    BY <1>4 DEF RollbackStarts, ManagerInv, ManagerTypes
  <2>2. QED
    BY <1>4, <2>1, StartKeepsManager DEF RollbackStarts
<1>5. QED
  BY <1>1, <1>2, <1>3, <1>4, ReadsKeepsManager, WritesKeepsManager, SavesKeepsManager,
     AnnouncesKeepsManager DEF ReloadNext, WatcherStep, UpdateStep

LEMMA AlwaysManager == ReloadSpec => []ManagerInv
BY InitManager, NextManager, PTL DEF ReloadSpec

\* A subscriber that missed no event can follow the configuration, whatever the watcher,
\* the rollbacks and the refused files do: only updates that overlapped break the chain
\* (config/manager.rs: update_config, rollback_to_previous).
THEOREM EventsChain == ReloadSpec => ChangesChain
<1>1. ASSUME ManagerInv, [ReloadNext]_reloadVars
      PROVE  announced' = announced \/ announced'.old = announced.new \/ overlapped
  <2>1. ASSUME NEW u \in Updater, UpdateAnnounces(u), ~overlapped
        PROVE  announced'.old = announced.new
    BY <1>1, <2>1 DEF UpdateAnnounces, ManagerInv, OneAtATime, Replacing
  <2>2. ASSUME NEW u \in Updater, UpdateReads(u) \/ UpdateWrites(u) \/ UpdateSaves(u)
        PROVE  announced' = announced
    BY <2>2 DEF UpdateReads, UpdateWrites, UpdateSaves
  <2>3. ASSUME NEW c, Edit(c) PROVE announced' = announced
    BY <2>3 DEF Edit, managerVars
  <2>4. ASSUME NEW u, WatcherLoads(u) \/ RollbackStarts(u) PROVE announced' = announced
    BY <2>4 DEF WatcherLoads, RollbackStarts, managerVars
  <2>5. CASE WatchStarts \/ WatcherWakes \/ WatcherReads \/ NoticeDelivered \/ TriggerReload
             \/ UNCHANGED reloadVars
    BY <2>5
    DEF WatchStarts, WatcherWakes, WatcherReads, NoticeDelivered, TriggerReload, reloadVars,
        managerVars
  <2>6. QED
    BY <1>1, <2>1, <2>2, <2>3, <2>4, <2>5 DEF ReloadNext, WatcherStep, UpdateStep
<1>2. ManagerInv /\ [ReloadNext]_reloadVars =>
        [announced' = announced \/ announced'.old = announced.new \/ overlapped]_reloadVars
  BY <1>1
<1>3. QED
  BY <1>2, AlwaysManager, PTL DEF ReloadSpec, ChangesChain

\* When no update is under way and none ever overlapped another, the configuration in
\* force is the one the last event announced and the last snapshot of the history
\* (config/manager.rs: update_config, save_snapshot).
THEOREM ManagerSettles == ReloadSpec => [](overlapped \/ SettledManager)
<1>1. ManagerInv => overlapped \/ SettledManager
  BY DEF ManagerInv, OneAtATime
<1>2. QED
  BY <1>1, AlwaysManager, PTL
=============================================================================
