-------------------------------- MODULE Fleet --------------------------------
(***************************************************************************)
(* The instances registered with the central service: proxies register,     *)
(* send heartbeats and leave; the console pushes to one or to all of them.  *)
(* The calls interleave between their statements, and a push waits for the  *)
(* instance's answer in between.                                            *)
(***************************************************************************)
EXTENDS Naturals, FiniteSets

CONSTANTS
  Inst,      \* the ids of instances
  NoInst,    \* no instance
  Name,      \* the names they register under
  NoName,    \* no name
  Call,      \* calls served at a time
  ListLimit  \* the instances a list holds

ASSUME FleetConstants == NoInst \notin Inst /\ NoName \notin Name /\ ListLimit \in Nat \ {0}

VARIABLES
  instances,  \* the row of each id; name NoName where the table has no row
  registered, \* the ids given out
  call,       \* what each call is doing
  mixed       \* history: some call wrote on a copy, or a check, that was out of date

fleetVars == <<instances, registered, call, mixed>>

InstanceRows == [name : Name \cup {NoName}, status : {"connected", "error"}, synced : BOOLEAN]
Gone == [name |-> NoName, status |-> "error", synced |-> FALSE]
Here(i) == instances[i].name # NoName

\* A call: the statement or answer it waits for, its instance, the name it
\* registers, the row it has read, what it still has to push to, what the
\* instance answered; and, history, whether what it has read is out of date.
CallSteps == {"idle", "lookup", "insert", "get", "save", "delete", "list", "pick",
              "post", "record"}
Calls == [step : CallSteps, id : Inst \cup {NoInst}, name : Name \cup {NoName},
          read : InstanceRows, todo : SUBSET Inst, accepted : BOOLEAN, outdated : BOOLEAN]
NoCall == [step |-> "idle", id |-> NoInst, name |-> NoName, read |-> Gone, todo |-> {},
           accepted |-> FALSE, outdated |-> FALSE]

FleetInit ==
  /\ instances = [i \in Inst |-> Gone]
  /\ registered = {}
  /\ call = [c \in Call |-> NoCall]
  /\ mixed = FALSE

-----------------------------------------------------------------------------
(* Calls begin.                                                             *)

Starts(c, r) ==
  /\ call[c] = NoCall
  /\ call' = [call EXCEPT ![c] = r]
  /\ UNCHANGED <<instances, registered, mixed>>

Register(c, n) == Starts(c, [NoCall EXCEPT !.step = "lookup", !.name = n])
Heartbeat(c, i) == i \in registered /\ Starts(c, [NoCall EXCEPT !.step = "get", !.id = i])
Unregister(c, i) == i \in registered /\ Starts(c, [NoCall EXCEPT !.step = "delete", !.id = i])
PushTo(c, i) == i \in registered /\ Starts(c, [NoCall EXCEPT !.step = "pick", !.todo = {i}])
PushToAll(c) == Starts(c, [NoCall EXCEPT !.step = "list"])

-----------------------------------------------------------------------------
(* Statements.                                                              *)

GoesOnAs(c, r) ==
  /\ call' = [call EXCEPT ![c] = r]
  /\ UNCHANGED <<instances, registered, mixed>>

\* What another call has read is out of date when the row it read changes, or
\* when a row of the name it looked up appears.
Outdates(i, row, r) ==
  \/ r.step = "save" /\ r.id = i /\ row # instances[i]
  \/ r.step = "insert" /\ r.name = row.name /\ row.name # instances[i].name

Saves(c, i, row, next) ==
  /\ instances' = [instances EXCEPT ![i] = row]
  /\ call' = [d \in Call |->
                IF d = c THEN next
                ELSE [call[d] EXCEPT !.outdated = @ \/ Outdates(i, row, call[d])]]
  /\ mixed' = (mixed \/ call[c].outdated)

\* The answers without effect: a name that is taken, a row that is not there, an
\* error of the database, a client that hangs up.  Only a push goes on after an
\* error of the statement that records its outcome.
CallEnds(c) ==
  /\ call[c].step # "idle"
  /\ GoesOnAs(c, NoCall)

\* A registration that leaves names to the database.
LooksUpNothing(c) ==
  /\ call[c].step = "lookup"
  /\ GoesOnAs(c, [call[c] EXCEPT !.step = "insert"])

LooksUpName(c) ==
  /\ call[c].step = "lookup"
  /\ \A i \in Inst : instances[i].name # call[c].name
  /\ GoesOnAs(c, [call[c] EXCEPT !.step = "insert"])

InsertsInstance(c) ==
  /\ call[c].step = "insert"
  /\ \E i \in Inst \ registered :
       /\ registered' = registered \cup {i}
       /\ Saves(c, i, [name |-> call[c].name, status |-> "connected", synced |-> FALSE], NoCall)

GetsInstance(c) ==
  /\ call[c].step = "get"
  /\ Here(call[c].id)
  /\ GoesOnAs(c, [call[c] EXCEPT !.step = "save", !.read = instances[call[c].id]])

\* The row as it was read, with a heartbeat; inserted again if it is gone.
Beaten(row) == [row EXCEPT !.status = "connected"]

SavesInstance(c) ==
  /\ call[c].step = "save"
  /\ Saves(c, call[c].id, Beaten(call[c].read), NoCall)
  /\ UNCHANGED registered

DeletesInstance(c) ==
  /\ call[c].step = "delete"
  /\ Here(call[c].id)
  /\ Saves(c, call[c].id, Gone, NoCall)
  /\ UNCHANGED registered

-----------------------------------------------------------------------------
(* Pushing.                                                                 *)

\* The list has a page of the instances, the latest first; which those are is left
\* open.
ListsInstances(c) ==
  /\ call[c].step = "list"
  /\ \E page \in SUBSET {i \in Inst : Here(i)} :
       /\ Cardinality(page) <= ListLimit
       /\ page # {i \in Inst : Here(i)} => Cardinality(page) = ListLimit
       /\ GoesOnAs(c, IF page = {} THEN NoCall
                      ELSE [call[c] EXCEPT !.step = "pick", !.todo = page])

\* One after the other; an instance that has left since ends the call (CallEnds).
PicksInstance(c) ==
  /\ call[c].step = "pick"
  /\ \E i \in call[c].todo :
       /\ Here(i)
       /\ GoesOnAs(c, [call[c] EXCEPT !.step = "post", !.id = i, !.todo = @ \ {i}])

PushAnswered(c) ==
  /\ call[c].step = "post"
  /\ \E ok \in BOOLEAN : GoesOnAs(c, [call[c] EXCEPT !.step = "record", !.accepted = ok])

\* A client without a timeout.
PushWaits(c) == call[c].step = "post" /\ GoesOnAs(c, call[c])

\* The client's three seconds are over.
PushTimesOut(c) ==
  /\ call[c].step = "post"
  /\ GoesOnAs(c, [call[c] EXCEPT !.step = "record", !.accepted = FALSE])

Recorded(row, ok) ==
  IF ok THEN [row EXCEPT !.status = "connected", !.synced = TRUE]
  ELSE [row EXCEPT !.status = "error"]

NextPush(r) ==
  IF r.todo = {} THEN NoCall
  ELSE [r EXCEPT !.step = "pick", !.id = NoInst, !.accepted = FALSE]

RecordsOutcome(c) ==
  LET i == call[c].id IN
  /\ call[c].step = "record"
  /\ Here(i)
  /\ Saves(c, i, Recorded(instances[i], call[c].accepted), NextPush(call[c]))
  /\ UNCHANGED registered

\* The row is gone, or the statement's error is dropped.
RecordsNothing(c) ==
  /\ call[c].step = "record"
  /\ GoesOnAs(c, NextPush(call[c]))

Statement(c) ==
  \/ LooksUpName(c) \/ InsertsInstance(c) \/ GetsInstance(c) \/ SavesInstance(c)
  \/ DeletesInstance(c) \/ ListsInstances(c) \/ PicksInstance(c)
  \/ RecordsOutcome(c) \/ RecordsNothing(c) \/ CallEnds(c)

-----------------------------------------------------------------------------
\* Rows and calls have their types; only ids given out have a row.
FleetTypeOK ==
  /\ instances \in [Inst -> InstanceRows]
  /\ registered \subseteq Inst
  /\ \A i \in Inst : Here(i) => i \in registered
  /\ call \in [Call -> Calls]
  /\ mixed \in BOOLEAN

\* Two instances have one name only if some call wrote on a copy, or after a
\* check, that was out of date: there is no UNIQUE on the name.
NamesAreUniqueUnlessMixed ==
  \A i, j \in Inst : i # j /\ Here(i) /\ Here(j) => mixed \/ instances[i].name # instances[j].name

\* A push ends, whatever the instances it calls do.
PushesEnd == \A c \in Call : call[c].step = "pick" ~> call[c].step = "idle"
=============================================================================
