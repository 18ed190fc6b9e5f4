------------------------------- MODULE Tunnel -------------------------------
(***************************************************************************)
(* A tunnel: two sockets of the proxy, one to a client and one to a target, *)
(* and two pumps that copy what arrives at one to the other, run together   *)
(* by try_join!, which returns when both are done or when one fails.  Then   *)
(* both sockets are dropped.  The program has several such loops, and they  *)
(* treat an end of stream and an error differently:                        *)
(*   "splice"   forward_bidirectional: TCP engine without a timeout         *)
(*   "timed"    the same inside timeout(request_timeout, ...)               *)
(*   "connect"  handle_connect of the forward proxy, and the converter of    *)
(*              upstream.rs                                                 *)
(*   "uds"      forward_uds_to_tcp and forward_uds_to_uds                   *)
(*   "bridge"   tokio's copy_bidirectional, for an upgraded WebSocket       *)
(*                                                                         *)
(* The bytes a side sends are numbered.                                     *)
(***************************************************************************)
EXTENDS Naturals, Sequences, SequencesExt

CONSTANTS
  Kinds,    \* the kinds of tunnel considered
  MaxBytes  \* bound on the bytes a side sends

Side == {"client", "target"}
Other(s) == IF s = "client" THEN "target" ELSE "client"

VARIABLES
  kind,    \* which loop runs the tunnel
  peer,    \* peer[s]: open, half (has sent FIN), gone (has closed its socket)
  sent,    \* sent[s]: the number of bytes s has sent
  lost,    \* lost[s]: how many of them, its first, were read and dropped before the
           \* tunnel was there
  inbox,   \* inbox[s]: bytes of s the proxy's socket has received
  pump,    \* pump[s]: the copy of what s sends: reading, writing, shutting, done
  held,    \* held[s]: the bytes in that pump's buffer
  got,     \* got[s]: the bytes s has been sent by the proxy
  told,    \* sides that have seen the end of the other side's stream
  outcome  \* of try_join!, which handle_connect discards: running, ok, error,
           \* timeout

vars == <<kind, peer, sent, lost, inbox, pump, held, got, told, outcome>>

Running == outcome = "running"

\* The loops that shut the write half of the other socket at the end of stream.
PassesEof == kind \in {"uds", "bridge"}

Init ==
  /\ kind \in Kinds
  /\ peer = [s \in Side |-> "open"]
  /\ sent = [s \in Side |-> 0]
  /\ lost = [s \in Side |-> 0]
  /\ inbox = [s \in Side |-> <<>>]
  /\ pump = [s \in Side |-> "reading"]
  /\ held = [s \in Side |-> <<>>]
  /\ got = [s \in Side |-> <<>>]
  /\ told = {}
  /\ outcome = "running"

-----------------------------------------------------------------------------
(* The client and the target.                                               *)

Sends(s) ==
  /\ Running
  /\ peer[s] = "open"
  /\ sent[s] < MaxBytes
  /\ sent' = [sent EXCEPT ![s] = @ + 1]
  /\ inbox' = [inbox EXCEPT ![s] = Append(@, sent[s] + 1)]
  /\ UNCHANGED <<kind, peer, lost, pump, held, got, told, outcome>>

Finishes(s) ==
  /\ peer[s] = "open"
  /\ peer' = [peer EXCEPT ![s] = "half"]
  /\ UNCHANGED <<kind, sent, lost, inbox, pump, held, got, told, outcome>>

Leaves(s) ==
  /\ peer[s] # "gone"
  /\ peer' = [peer EXCEPT ![s] = "gone"]
  /\ UNCHANGED <<kind, sent, lost, inbox, pump, held, got, told, outcome>>

-----------------------------------------------------------------------------
(* The pumps.                                                               *)

\* Both sockets are dropped: each side sees the end of the stream.
Over(result) ==
  /\ outcome' = result
  /\ told' = Side

\* A read returns some of the bytes there are.
PumpReads(s) ==
  /\ Running
  /\ pump[s] = "reading"
  /\ \E n \in 1 .. Len(inbox[s]) :
       /\ held' = [held EXCEPT ![s] = SubSeq(inbox[s], 1, n)]
       /\ inbox' = [inbox EXCEPT ![s] = SubSeq(@, n + 1, Len(@))]
  /\ pump' = [pump EXCEPT ![s] = "writing"]
  /\ UNCHANGED <<kind, peer, sent, lost, got, told, outcome>>

\* A loop that takes Ok(0) for a read of nothing and reads again.
PumpReadsEofSpinning(s) ==
  /\ Running
  /\ pump[s] = "reading"
  /\ inbox[s] = <<>>
  /\ peer[s] # "open"
  /\ UNCHANGED vars

\* Ok(0): the pump is done, after a shutdown() in the loops that have one.
PumpReadsEof(s) ==
  /\ Running
  /\ pump[s] = "reading"
  /\ inbox[s] = <<>>
  /\ peer[s] # "open"
  /\ pump' = [pump EXCEPT ![s] = IF PassesEof THEN "shutting" ELSE "done"]
  /\ UNCHANGED <<kind, peer, sent, lost, inbox, held, got, told, outcome>>

\* A connection reset.
PumpReadFails(s) ==
  /\ Running
  /\ pump[s] = "reading"
  /\ peer[s] = "gone"
  /\ Over("error")
  /\ UNCHANGED <<kind, peer, sent, lost, inbox, pump, held, got>>

\* A loop that reads again before it has written all it read.
PumpWritesSome(s) ==
  /\ Running
  /\ pump[s] = "writing"
  /\ peer[Other(s)] # "gone"
  /\ got' = [got EXCEPT ![Other(s)] = Append(@, Head(held[s]))]
  /\ held' = [held EXCEPT ![s] = <<>>]
  /\ pump' = [pump EXCEPT ![s] = "reading"]
  /\ UNCHANGED <<kind, peer, sent, lost, inbox, told, outcome>>

\* write_all to a side that reads.
PumpWrites(s) ==
  /\ Running
  /\ pump[s] = "writing"
  /\ peer[Other(s)] # "gone"
  /\ got' = [got EXCEPT ![Other(s)] = @ \o held[s]]
  /\ held' = [held EXCEPT ![s] = <<>>]
  /\ pump' = [pump EXCEPT ![s] = "reading"]
  /\ UNCHANGED <<kind, peer, sent, lost, inbox, told, outcome>>

\* A write to a closed socket: the kernel takes it, until the reset has come
\* back and write_all fails.
PumpWritesToNobody(s) ==
  /\ Running
  /\ pump[s] = "writing"
  /\ peer[Other(s)] = "gone"
  /\ held' = [held EXCEPT ![s] = <<>>]
  /\ \/ /\ pump' = [pump EXCEPT ![s] = "reading"]
        /\ UNCHANGED <<told, outcome>>
     \/ /\ kind = "connect"
        /\ pump' = [pump EXCEPT ![s] = "done"]
        /\ UNCHANGED <<told, outcome>>
     \/ /\ kind # "connect"
        /\ Over("error")
        /\ UNCHANGED pump
  /\ UNCHANGED <<kind, peer, sent, lost, inbox, got>>

PumpShutsDown(s) ==
  /\ Running
  /\ pump[s] = "shutting"
  /\ pump' = [pump EXCEPT ![s] = "done"]
  /\ told' = told \cup {Other(s)}
  /\ UNCHANGED <<kind, peer, sent, lost, inbox, held, got, outcome>>

\* try_join! returns when either pump has finished: a select.
FirstDone ==
  /\ Running
  /\ \E s \in Side : pump[s] = "done"
  /\ Over("ok")
  /\ UNCHANGED <<kind, peer, sent, lost, inbox, pump, held, got>>

\* try_join! returns when both pumps have finished.
BothDone ==
  /\ Running
  /\ \A s \in Side : pump[s] = "done"
  /\ Over("ok")
  /\ UNCHANGED <<kind, peer, sent, lost, inbox, pump, held, got>>

TimesOut ==
  /\ Running
  /\ kind = "timed"
  /\ Over("timeout")
  /\ UNCHANGED <<kind, peer, sent, lost, inbox, pump, held, got>>

-----------------------------------------------------------------------------
PeerStep(s) == Sends(s) \/ Finishes(s) \/ Leaves(s)

PumpStep(s) ==
  \/ PumpReads(s) \/ PumpReadsEof(s) \/ PumpReadFails(s)
  \/ PumpWrites(s) \/ PumpWritesToNobody(s) \/ PumpShutsDown(s)

Next == BothDone \/ TimesOut \/ \E s \in Side : PeerStep(s) \/ PumpStep(s)

Spec == Init /\ [][Next]_vars

-----------------------------------------------------------------------------
\* Whatever the reads and writes are cut into, a side receives a prefix of what
\* the other sent, but for the bytes dropped before the tunnel was there; and while
\* nobody has closed its socket, nothing else is missing: what is not yet delivered is
\* in the pump's buffer or at the proxy's socket.
StreamsAreIntact ==
  \A s \in Side :
    LET all == [i \in 1 .. sent[s] - lost[s] |-> lost[s] + i] IN
    /\ IsPrefix(got[Other(s)], all)
    /\ peer[Other(s)] # "gone" => got[Other(s)] \o held[s] \o inbox[s] = all

\* A tunnel that ended with Ok has delivered everything it was there for to a side that
\* kept its socket open: the byte counts in the log are of bytes delivered.
OkMeansDelivered ==
  outcome = "ok" =>
    \A s \in Side : peer[s] # "gone" => Len(got[s]) = sent[Other(s)] - lost[Other(s)]

\* When both sides have finished, the tunnel ends and its sockets are released.
FinishedTunnelsEnd == (\A s \in Side : peer[s] # "open") ~> ~Running
=============================================================================
