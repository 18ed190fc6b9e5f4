-------------------------------- MODULE Outbox --------------------------------
(***************************************************************************)
(* What the offline queue of a proxy promises about the operations handed   *)
(* to it: each reaches the central service at most once, and those that had *)
(* to wait leave in the order they came.  It does not promise that an       *)
(* operation arrives: it may be given up.                                  *)
(***************************************************************************)
EXTENDS Sequences

CONSTANT Op  \* operations: one change of one configuration each

VARIABLES
  fate,    \* fate[o]: what has become of operation o
  waiting  \* the operations that wait for the central service, oldest first

outboxVars == <<fate, waiting>>

End == {"delivered", "lost"}

Init ==
  /\ fate = [o \in Op |-> "new"]
  /\ waiting = <<>>

\* An operation sent at once.
Direct(o) ==
  /\ fate[o] = "new"
  /\ \E end \in End : fate' = [fate EXCEPT ![o] = end]
  /\ UNCHANGED waiting

Wait(o) ==
  /\ fate[o] = "new"
  /\ fate' = [fate EXCEPT ![o] = "waiting"]
  /\ waiting' = Append(waiting, o)

\* Only the oldest waiting operation leaves.
Leave ==
  /\ waiting # <<>>
  /\ fate[Head(waiting)] = "waiting"
  /\ \E end \in End : fate' = [fate EXCEPT ![Head(waiting)] = end]
  /\ waiting' = Tail(waiting)

Next == Leave \/ \E o \in Op : Direct(o) \/ Wait(o)

Spec == Init /\ [][Next]_outboxVars
=============================================================================
