------------------------------ MODULE Sync_proofs ------------------------------
(***************************************************************************)
(* The two halves of a proxy's synchronisation.  The watermark of the        *)
(* incremental pulls misses only what is excused, for any configurations,    *)
(* pullers, page size, skew of the clocks and number of saves.  The offline   *)
(* queue is an outbox, for any operations, callers and queue length.         *)
(***************************************************************************)
EXTENDS IncrementalPull, SyncClient, SequenceTheorems, TLAPS

-----------------------------------------------------------------------------
(* The incremental pulls.                                                  *)

Fields == {"pc", "since", "todo", "hidden"}

\* The version the proxy has, or may have without breaking its promise.
Held(c) == copy[c] = row[c].ver

\* What a pull under way still has to save is all that separates the copies from its
\* page, and it is what the table holds, unless the table was written meanwhile.
Underway(p) ==
  puller[p].pc = "applying" =>
    \A c \in Rows \ excused :
      /\ \/ row[c].at <= puller[p].since
         \/ c \in puller[p].hidden
         \/ <<c, row[c].ver>> \in puller[p].todo
         \/ Held(c)
      /\ \A item \in puller[p].todo : item[1] = c => item[2] = row[c].ver

Shapes ==
  /\ now \in Nat /\ 1 <= now
  /\ lastSync \in Nat
  /\ lastSync <= now + Skew
  /\ DOMAIN row = Config
  /\ DOMAIN copy = Config
  /\ \A c \in Rows : row[c].at \in Nat /\ 1 <= row[c].at
  /\ DOMAIN puller = Puller
  /\ \A p \in Puller :
       /\ DOMAIN puller[p] = Fields
       /\ puller[p].since \in Nat
       /\ puller[p].pc # "resting" => puller[p].since <= lastSync
       /\ \A item \in puller[p].todo : item[1] \in Config

\* The watermark alone is not inductive: what a pull will have saved when it moves the
\* watermark has to be known while it is under way.
PullInv ==
  /\ Shapes
  /\ \A p \in Puller : Underway(p)
  /\ WatermarkMissesNothingElse

-----------------------------------------------------------------------------
LEMMA PullInitInv == ASSUME Init PROVE PullInv
<1>1. Rows = {}
  BY DEF Init, Rows
<1>2. \A p \in Puller : puller[p] = Resting
  BY DEF Init
<1>3. DOMAIN Resting = Fields /\ Resting.pc = "resting" /\ Resting.since = 0
      /\ Resting.todo = {}
  BY DEF Resting, Fields
<1>4. Shapes
  BY <1>1, <1>2, <1>3, ClockAssumption DEF Init, Shapes
<1>5. \A p \in Puller : Underway(p)
  BY <1>2, <1>3 DEF Underway
<1> QED BY <1>1, <1>4, <1>5 DEF PullInv, WatermarkMissesNothingElse

\* The clock.
LEMMA TickKeeps == ASSUME PullInv, Tick PROVE PullInv'
<1>1. now' = now + 1 /\ UNCHANGED <<row, copy, lastSync, puller, excused>>
  BY DEF Tick
<1>2. Rows' = Rows
  BY <1>1 DEF Rows
<1>3. lastSync <= now' + Skew /\ now' \in Nat
  BY <1>1, ClockAssumption DEF PullInv, Shapes
<1>4. Shapes'
  BY <1>1, <1>2, <1>3 DEF PullInv, Shapes
<1> QED BY <1>1, <1>2, <1>4 DEF PullInv, Underway, Held, WatermarkMissesNothingElse

\* A save excuses its configuration or is dated after every watermark in use.
LEMMA SaveKeeps ==
  ASSUME PullInv, NEW c \in Config, NEW created, NEW at \in Nat, 1 <= at, Save(c, created, at)
  PROVE  PullInv'
<1>1. /\ row' = [row EXCEPT ![c] = [ver |-> saves + 1, created |-> created, at |-> at]]
      /\ UNCHANGED <<now, copy, lastSync, puller>>
      /\ excused' = IF InFlight \/ at <= lastSync THEN excused \cup {c} ELSE excused \ {c}
  BY DEF Save
<1>2. row'[c].at = at /\ \A d \in Config \ {c} : row'[d] = row[d]
  BY <1>1 DEF PullInv, Shapes
<1>3. \A d \in Rows' : d \in Rows \/ d = c
  BY <1>2 DEF Rows
<1>4. Shapes'
  BY <1>1, <1>2, <1>3 DEF PullInv, Shapes, Rows
<1>5. \A d \in Rows' \ excused' :
        \/ d = c /\ ~InFlight /\ ~(at <= lastSync)
        \/ d # c /\ d \in Rows \ excused /\ row'[d] = row[d]
  BY <1>1, <1>2, <1>3 DEF Rows
<1>6. ASSUME NEW p \in Puller
      PROVE  Underway(p)'
  <2>1. CASE puller[p].pc = "applying"
    <3>1. InFlight
      BY <2>1 DEF InFlight
    <3>2. \A d \in Rows' \ excused' : d \in Rows \ excused /\ row'[d] = row[d]
      BY <1>5, <3>1
    <3> QED BY <1>1, <3>2 DEF PullInv, Underway, Held
  <2>2. CASE puller[p].pc # "applying"
    BY <1>1, <2>2 DEF Underway
  <2> QED BY <2>1, <2>2
<1>7. WatermarkMissesNothingElse'
  BY <1>1, <1>2, <1>5 DEF PullInv, WatermarkMissesNothingElse
<1> QED BY <1>4, <1>6, <1>7 DEF PullInv

LEMMA DeleteKeeps == ASSUME PullInv, NEW c \in Config, Delete(c) PROVE PullInv'
<1>1. row' = [row EXCEPT ![c] = Absent] /\ UNCHANGED <<now, copy, lastSync, puller, excused>>
  BY DEF Delete
<1>2. \A d \in Rows' : d \in Rows /\ row'[d] = row[d]
  BY <1>1 DEF PullInv, Shapes, Rows
<1>3. Shapes'
  BY <1>1, <1>2 DEF PullInv, Shapes
<1>4. \A p \in Puller : Underway(p)'
  BY <1>1, <1>2 DEF PullInv, Underway, Held
<1>5. WatermarkMissesNothingElse'
  BY <1>1, <1>2 DEF PullInv, WatermarkMissesNothingElse
<1> QED BY <1>3, <1>4, <1>5 DEF PullInv

-----------------------------------------------------------------------------
(* The steps of a pull.                                                     *)

\* A step of puller p that leaves the table, the copies and the watermark alone.
LEMMA PullerStep ==
  ASSUME PullInv, NEW p \in Puller, NEW new, puller' = [puller EXCEPT ![p] = new],
         UNCHANGED <<now, row, copy, lastSync, excused>>,
         DOMAIN new = Fields, new.since \in Nat,
         new.pc # "resting" => new.since <= lastSync,
         \A item \in new.todo : item[1] \in Config,
         new.pc = "applying" =>
           \A c \in Rows \ excused :
             /\ \/ row[c].at <= new.since
                \/ c \in new.hidden
                \/ <<c, row[c].ver>> \in new.todo
                \/ Held(c)
             /\ \A item \in new.todo : item[1] = c => item[2] = row[c].ver
  PROVE  PullInv'
<1>1. puller'[p] = new /\ \A q \in Puller \ {p} : puller'[q] = puller[q]
  BY DEF PullInv, Shapes
<1>2. Rows' = Rows
  BY DEF Rows
<1>3. Shapes'
  BY <1>1, <1>2 DEF PullInv, Shapes
<1>4. ASSUME NEW q \in Puller
      PROVE  Underway(q)'
  BY <1>1, <1>2 DEF PullInv, Underway, Held
<1>5. WatermarkMissesNothingElse'
  BY <1>2 DEF PullInv, WatermarkMissesNothingElse
<1> QED BY <1>3, <1>4, <1>5 DEF PullInv

LEMMA PullStartsKeeps == ASSUME PullInv, NEW p \in Puller, PullStarts(p) PROVE PullInv'
<1> DEFINE new == [Resting EXCEPT !.pc = "asking", !.since = lastSync]
<1>1. DOMAIN new = Fields /\ new.pc = "asking" /\ new.since = lastSync /\ new.todo = {}
  BY DEF Resting, Fields
<1>2. puller' = [puller EXCEPT ![p] = new]
      /\ UNCHANGED <<now, row, copy, lastSync, excused>>
  BY DEF PullStarts
<1>3. new.since \in Nat /\ new.since <= lastSync
  BY <1>1 DEF PullInv, Shapes
<1> HIDE DEF new
<1> QED BY <1>1, <1>2, <1>3, PullerStep

LEMMA PullFailsKeeps == ASSUME PullInv, NEW p \in Puller, PullFails(p) PROVE PullInv'
<1>1. DOMAIN Resting = Fields /\ Resting.pc = "resting" /\ Resting.since = 0
      /\ Resting.todo = {}
  BY DEF Resting, Fields
<1>2. puller' = [puller EXCEPT ![p] = Resting]
      /\ UNCHANGED <<now, row, copy, lastSync, excused>>
  BY DEF PullFails
<1>3. /\ Resting.since \in Nat
      /\ Resting.pc # "applying"
      /\ ~(Resting.pc # "resting")
      /\ \A item \in Resting.todo : item[1] \in Config
  BY <1>1
<1> QED BY <1>1, <1>2, <1>3, PullerStep

\* The rows found are on the page, beyond it, or dated before the watermark asked for.
LEMMA PullAnsweredKeeps ==
  ASSUME PullInv, NEW p \in Puller, NEW page \in Pages, PullAnswered(p, page)
  PROVE  PullInv'
<1> DEFINE old == puller[p]
           newer == {c \in Rows : row[c].at > old.since}
           found == {<<c, row[c].ver>> : c \in newer \cap page}
           new == [old EXCEPT !.pc = "applying", !.todo = found, !.hidden = newer \ page]
<1>1. puller' = [puller EXCEPT ![p] = new]
      /\ UNCHANGED <<now, row, copy, lastSync, excused>>
  BY DEF PullAnswered, PullInv, Shapes
<1>2. DOMAIN old = Fields /\ old.since \in Nat /\ old.since <= lastSync
  BY DEF PullAnswered, PullInv, Shapes
<1>3. \A c \in Rows : row[c].at <= old.since \/ c \in newer
  BY <1>2 DEF PullInv, Shapes
<1>4. \A c \in newer : c \in newer \ page \/ <<c, row[c].ver>> \in found
  OBVIOUS
<1>5. \A item \in found : item[1] \in Config /\ item[2] = row[item[1]].ver
  BY DEF Rows
<1> HIDE DEF old, newer, found
<1>6. /\ DOMAIN new = Fields
      /\ new.pc = "applying"
      /\ new.since = old.since
      /\ new.todo = found
      /\ new.hidden = newer \ page
  BY <1>2 DEF Fields
<1> HIDE DEF new
<1> QED BY <1>1, <1>2, <1>3, <1>4, <1>5, <1>6, PullerStep

\* Saving an item of the page makes the copy the row, if the row is not excused.
LEMMA PullSavesKeeps ==
  ASSUME PullInv, NEW p \in Puller, NEW item \in puller[p].todo, PullSaves(p, item)
  PROVE  PullInv'
<1> DEFINE old == puller[p]
           new == [old EXCEPT !.todo = @ \ {item}]
<1>1. /\ copy' = [copy EXCEPT ![item[1]] = item[2]]
      /\ puller' = [puller EXCEPT ![p] = new]
      /\ UNCHANGED <<now, row, lastSync, excused>>
      /\ old.pc = "applying" /\ item[1] \in Config
  BY DEF PullSaves, PullInv, Shapes
<1>2. DOMAIN old = Fields
  BY DEF PullInv, Shapes
<1>3. /\ DOMAIN new = Fields
      /\ new.pc = old.pc
      /\ new.since = old.since
      /\ new.hidden = old.hidden
      /\ new.todo = old.todo \ {item}
  BY <1>2 DEF Fields
<1> HIDE DEF new
<1>4. puller'[p] = new /\ \A q \in Puller \ {p} : puller'[q] = puller[q]
  BY <1>1 DEF PullInv, Shapes
<1>5. Rows' = Rows
  BY <1>1 DEF Rows
<1>6. Shapes'
  BY <1>1, <1>3, <1>4, <1>5 DEF PullInv, Shapes
<1>7. \A c \in Rows \ excused : item[1] = c => item[2] = row[c].ver
  BY <1>1 DEF PullInv, Underway
<1>8. \A c \in Rows \ excused : (Held(c) \/ c = item[1]) => Held(c)'
  BY <1>1, <1>7 DEF Held, PullInv, Shapes, Rows
<1>9. ASSUME NEW q \in Puller, puller'[q].pc = "applying", NEW c \in Rows \ excused
      PROVE  /\ \/ row[c].at <= puller'[q].since
                \/ c \in puller'[q].hidden
                \/ <<c, row[c].ver>> \in puller'[q].todo
                \/ Held(c)'
             /\ \A i \in puller'[q].todo : i[1] = c => i[2] = row[c].ver
  <2>1. /\ puller[q].pc = "applying"
        /\ puller'[q].since = puller[q].since
        /\ puller'[q].hidden = puller[q].hidden
        /\ puller'[q].todo \subseteq puller[q].todo
        /\ \A i \in puller[q].todo : i \in puller'[q].todo \/ i = item
    BY <1>1, <1>3, <1>4, <1>9
  <2>2. /\ \/ row[c].at <= puller[q].since
           \/ c \in puller[q].hidden
           \/ <<c, row[c].ver>> \in puller[q].todo
           \/ Held(c)
        /\ \A i \in puller[q].todo : i[1] = c => i[2] = row[c].ver
    BY <2>1, <1>9 DEF PullInv, Underway
  <2>3. <<c, row[c].ver>> = item => c = item[1]
    OBVIOUS
  <2> QED BY <2>1, <2>2, <2>3, <1>8, <1>9
<1>10. \A q \in Puller : Underway(q)'
  BY <1>1, <1>5, <1>9 DEF Underway
<1>11. WatermarkMissesNothingElse'
  BY <1>1, <1>5, <1>8 DEF PullInv, WatermarkMissesNothingElse, Held
<1> QED BY <1>6, <1>10, <1>11 DEF PullInv

\* A pull that has saved all it found has every row that is not excused.
LEMMA PullEndsKeeps == ASSUME PullInv, NEW p \in Puller, PullEnds(p) PROVE PullInv'
<1>1. /\ puller[p].pc = "applying" /\ puller[p].todo = {}
      /\ lastSync' = now + Skew
      /\ excused' = excused \cup puller[p].hidden
      /\ puller' = [puller EXCEPT ![p] = Resting]
      /\ UNCHANGED <<now, row, copy>>
  BY DEF PullEnds
<1>2. DOMAIN Resting = Fields /\ Resting.pc = "resting" /\ Resting.since = 0
      /\ Resting.todo = {}
  BY DEF Resting, Fields
<1>3. puller'[p] = Resting /\ \A q \in Puller \ {p} : puller'[q] = puller[q]
  BY <1>1 DEF PullInv, Shapes
<1>4. Rows' = Rows
  BY <1>1 DEF Rows
<1>5. lastSync' \in Nat /\ lastSync <= lastSync' /\ lastSync' <= now + Skew
      /\ lastSync \in Nat
  BY <1>1, ClockAssumption DEF PullInv, Shapes
<1>6. \A q \in Puller : puller[q].pc # "resting" => puller[q].since <= lastSync'
  <2>1. ASSUME NEW q \in Puller, puller[q].pc # "resting"
        PROVE  puller[q].since <= lastSync'
    <3>1. puller[q].since \in Nat /\ puller[q].since <= lastSync
      BY <2>1 DEF PullInv, Shapes
    <3> QED BY <3>1, <1>5
  <2> QED BY <2>1
<1>7. Shapes'
  BY <1>1, <1>2, <1>3, <1>4, <1>5, <1>6 DEF PullInv, Shapes
<1>8. \A q \in Puller : Underway(q)'
  BY <1>1, <1>2, <1>3, <1>4 DEF PullInv, Underway, Held
<1>9. ASSUME NEW c \in Rows \ excused, c \notin puller[p].hidden
      PROVE  Held(c)
  <2>1. row[c].at <= puller[p].since \/ Held(c)
    BY <1>1, <1>9 DEF PullInv, Underway
  <2>2. row[c].at <= puller[p].since => row[c].at <= lastSync
    <3>1. row[c].at \in Nat /\ puller[p].since \in Nat /\ puller[p].since <= lastSync
      BY <1>1 DEF PullInv, Shapes
    <3> QED BY <3>1, <1>5
  <2> QED BY <2>1, <2>2 DEF PullInv, WatermarkMissesNothingElse, Held
<1>10. WatermarkMissesNothingElse'
  BY <1>1, <1>4, <1>9 DEF WatermarkMissesNothingElse, Held
<1> QED BY <1>7, <1>8, <1>10 DEF PullInv

\* After a restart nothing is dated at or before the watermark.
LEMMA RestartKeeps == ASSUME PullInv, Restart PROVE PullInv'
<1>1. /\ lastSync' = 0 /\ puller' = [p \in Puller |-> Resting]
      /\ UNCHANGED <<now, row, copy>>
  BY DEF Restart
<1>2. DOMAIN Resting = Fields /\ Resting.pc = "resting" /\ Resting.since = 0
      /\ Resting.todo = {}
  BY DEF Resting, Fields
<1>3. Rows' = Rows
  BY <1>1 DEF Rows
<1>4. lastSync' \in Nat /\ lastSync' <= now + Skew
  BY <1>1, ClockAssumption DEF PullInv, Shapes
<1>5. Shapes'
  BY <1>1, <1>2, <1>3, <1>4 DEF PullInv, Shapes
<1>6. \A p \in Puller : Underway(p)'
  BY <1>1, <1>2 DEF Underway
<1>7. \A c \in Rows : ~(row[c].at <= 0)
  BY DEF PullInv, Shapes
<1>8. WatermarkMissesNothingElse'
  BY <1>1, <1>3, <1>7 DEF WatermarkMissesNothingElse
<1> QED BY <1>5, <1>6, <1>8 DEF PullInv

-----------------------------------------------------------------------------
LEMMA PullNextInv == ASSUME PullInv, [Next]_vars PROVE PullInv'
<1>1. ASSUME NEW c \in Config, Update(c)
      PROVE  PullInv'
  <2>1. now \in Nat /\ 1 <= now
    BY DEF PullInv, Shapes
  <2> QED BY <1>1, <2>1, SaveKeeps DEF Update
<1>2. ASSUME NEW c \in Config, NEW made \in 1 .. now, Insert(c, made)
      PROVE  PullInv'
  <2>1. made \in Nat /\ 1 <= made
    BY DEF PullInv, Shapes
  <2> QED BY <1>2, <2>1, SaveKeeps DEF Insert
<1>3. CASE CentralStep
  BY <1>1, <1>2, <1>3, DeleteKeeps DEF CentralStep
<1>4. ASSUME NEW p \in Puller, PullStep(p)
      PROVE  PullInv'
  BY <1>4, PullStartsKeeps, PullEndsKeeps, PullFailsKeeps, PullAnsweredKeeps,
     PullSavesKeeps DEF PullStep
<1>5. CASE UNCHANGED vars
  BY <1>5 DEF vars, PullInv, Shapes, Rows, Underway, Held, WatermarkMissesNothingElse
<1> QED BY <1>3, <1>4, <1>5, TickKeeps, RestartKeeps DEF Next

\* A row dated at or before last_sync is the proxy's copy, but for the rows the protocol
\* can miss: one saved while a pull was between its read and its watermark, one dated
\* before the watermark, one beyond the page (perform_periodic_sync, sync_pull).
THEOREM PullsMissNothingElse == Spec => []WatermarkMissesNothingElse
<1>1. PullInv => WatermarkMissesNothingElse
  BY DEF PullInv
<1> QED BY <1>1, PullInitInv, PullNextInv, PTL DEF Spec

-----------------------------------------------------------------------------
(* The client's queue implements an outbox.                                *)

CallPC == {"idle", "push", "queueing", "posting", "clashing", "pulling", "looking", "writing"}

\* A call that has an operation in hand which is neither queued nor sent.
InHand(k) == k.pc \in {"push", "posting"}

ClientTypes ==
  /\ line \in Seq(Op)
  /\ consumer = [pc |-> consumer.pc, op |-> consumer.op]
  /\ consumer.pc \in {"off", "recv", "checking", "posting"}
  /\ IF consumer.pc \in {"checking", "posting"} THEN consumer.op \in Op ELSE consumer.op = None
  /\ starter \in {"idle", "registering", "done", "failed"}
  /\ starter # "done" => consumer.pc = "off"
  /\ caller \in [Caller -> [pc : CallPC, op : Op \cup {None},
                            seen : {"Disconnected", "Syncing", "Connected", "Conflict"}]]
  /\ status \in {"Disconnected", "Syncing", "Connected", "Conflict"}
  /\ \A c \in Caller : InHand(caller[c]) => caller[c].op \in Op

\* An operation is in one place: in the hand of one call, waiting once, received
\* or lost.  Every operation anywhere is one that push() was called with.
OnePlace ==
  /\ \A c \in Caller : InHand(caller[c]) =>
       /\ caller[c].op \in called
       /\ caller[c].op \notin received \cup lost
       /\ \A i \in DOMAIN line : line[i] # caller[c].op
       /\ consumer.op # caller[c].op
       /\ \A d \in Caller : InHand(caller[d]) /\ caller[d].op = caller[c].op => d = c
  /\ \A i \in DOMAIN line :
       /\ line[i] \in called
       /\ line[i] \notin received \cup lost
       /\ line[i] # consumer.op
       /\ \A j \in DOMAIN line : line[j] = line[i] => j = i
  /\ consumer.op # None => consumer.op \in called /\ consumer.op \notin received \cup lost
  /\ received \cap lost = {}
  /\ received \cup lost \subseteq called

ClientInv == ClientTypes /\ OnePlace

LEMMA ClientInitInv == ClientInit => ClientInv
BY DEF ClientInit, ClientInv, ClientTypes, OnePlace, NoEntry, NoCall, InHand, CallPC

LEMMA CallType ==
  ASSUME ClientTypes, NEW c \in Caller, NEW k,
         k \in [pc : CallPC, op : Op \cup {None},
                seen : {"Disconnected", "Syncing", "Connected", "Conflict"}],
         Call(c, k)
  PROVE  /\ caller' \in [Caller -> [pc : CallPC, op : Op \cup {None},
                            seen : {"Disconnected", "Syncing", "Connected", "Conflict"}]]
         /\ caller'[c] = k
         /\ \A d \in Caller \ {c} : caller'[d] = caller[d]
BY DEF ClientTypes, Call

\* A call that ends, or goes on without an operation in hand.
LEMMA CallKeepsInv ==
  ASSUME ClientInv, NEW c \in Caller, NEW k,
         k \in [pc : CallPC, op : Op \cup {None},
                seen : {"Disconnected", "Syncing", "Connected", "Conflict"}],
         ~InHand(k) \/ (InHand(caller[c]) /\ k.op = caller[c].op),
         Call(c, k), status' \in {"Disconnected", "Syncing", "Connected", "Conflict"},
         UNCHANGED <<starter, consumer, line, called, received, lost>>
  PROVE  ClientInv'
<1>1. /\ caller' \in [Caller -> [pc : CallPC, op : Op \cup {None},
                            seen : {"Disconnected", "Syncing", "Connected", "Conflict"}]]
      /\ caller'[c] = k
      /\ \A d \in Caller \ {c} : caller'[d] = caller[d]
  BY CallType DEF ClientInv
<1>2. \A d \in Caller : InHand(caller'[d]) => InHand(caller[d]) /\ caller'[d].op = caller[d].op
  BY <1>1
<1>3. ClientTypes'
  BY <1>1, <1>2 DEF ClientInv, ClientTypes
<1>4. OnePlace'
  BY <1>2 DEF ClientInv, OnePlace
<1>5. QED
  BY <1>3, <1>4 DEF ClientInv

LEMMA NoCallType ==
  NoCall \in [pc : CallPC, op : Op \cup {None},
              seen : {"Disconnected", "Syncing", "Connected", "Conflict"}] /\ ~InHand(NoCall)
BY DEF NoCall, CallPC, InHand

LEMMA PushCalledKeepsInv ==
  ASSUME ClientInv, NEW c \in Caller, NEW o \in Op, PushCalled(c, o)
  PROVE  ClientInv'
<1> DEFINE k == [NoCall EXCEPT !.pc = "push", !.op = o]
<1>1. /\ k.pc = "push" /\ k.op = o
      /\ k \in [pc : CallPC, op : Op \cup {None},
                seen : {"Disconnected", "Syncing", "Connected", "Conflict"}]
  BY DEF NoCall, CallPC
<1>2. Call(c, k) /\ o \notin called /\ called' = called \cup {o}
  BY DEF PushCalled
<1> HIDE DEF k
<1>3. /\ caller' \in [Caller -> [pc : CallPC, op : Op \cup {None},
                            seen : {"Disconnected", "Syncing", "Connected", "Conflict"}]]
      /\ caller'[c] = k
      /\ \A d \in Caller \ {c} : caller'[d] = caller[d]
  BY <1>1, <1>2, CallType DEF ClientInv
<1>4. ClientTypes'
  BY <1>1, <1>3 DEF PushCalled, ClientInv, ClientTypes
<1>5. OnePlace'
  <2>1. UNCHANGED <<consumer, line, received, lost>>
    BY DEF PushCalled
  <2>2. \A d \in Caller : InHand(caller'[d]) =>
          (d = c /\ caller'[d].op = o)
          \/ (d # c /\ caller'[d] = caller[d] /\ caller[d].op \in called)
    BY <1>1, <1>3 DEF ClientInv, OnePlace
  <2>3. /\ o \notin received \cup lost
        /\ \A i \in DOMAIN line : line[i] # o
        /\ consumer.op # o
    BY <1>2, NoneAssumption DEF ClientInv, OnePlace
  <2>4. QED
    BY <1>2, <2>1, <2>2, <2>3 DEF ClientInv, OnePlace
<1>6. QED
  BY <1>4, <1>5 DEF ClientInv

LEMMA PushReadsStatusKeepsInv ==
  ASSUME ClientInv, NEW c \in Caller, PushReadsStatus(c)
  PROVE  ClientInv'
<1> DEFINE o == caller[c].op
<1>1. /\ caller[c] \in [pc : CallPC, op : Op \cup {None},
                seen : {"Disconnected", "Syncing", "Connected", "Conflict"}]
      /\ InHand(caller[c]) /\ o \in Op
  BY DEF PushReadsStatus, InHand, ClientInv, ClientTypes
<1>2. CASE line' = Append(line, o) /\ Call(c, [caller[c] EXCEPT !.pc = "queueing"])
  <2> DEFINE k == [caller[c] EXCEPT !.pc = "queueing"]
  <2>1. ~InHand(k) /\ k \in [pc : CallPC, op : Op \cup {None},
                seen : {"Disconnected", "Syncing", "Connected", "Conflict"}]
    BY <1>1 DEF InHand, CallPC
  <2> HIDE DEF k
  <2>2. /\ caller' \in [Caller -> [pc : CallPC, op : Op \cup {None},
                            seen : {"Disconnected", "Syncing", "Connected", "Conflict"}]]
        /\ caller'[c] = k
        /\ \A d \in Caller \ {c} : caller'[d] = caller[d]
    BY <1>2, <2>1, CallType DEF ClientInv, k
  <2>3. /\ line \in Seq(Op) /\ line' \in Seq(Op)
        /\ DOMAIN line' = DOMAIN line \cup {Len(line) + 1}
        /\ Len(line) + 1 \notin DOMAIN line
        /\ \A i \in DOMAIN line : line'[i] = line[i]
        /\ line'[Len(line) + 1] = o
    BY <1>1, <1>2 DEF ClientInv, ClientTypes
  <2>4. UNCHANGED <<status, starter, consumer, called, received, lost>>
    BY DEF PushReadsStatus
  <2>5. ClientTypes'
    BY <2>1, <2>2, <2>3, <2>4 DEF ClientInv, ClientTypes
  <2>6. \A d \in Caller : InHand(caller'[d]) =>
          d # c /\ caller'[d] = caller[d] /\ caller[d].op # o
    BY <1>1, <2>1, <2>2 DEF ClientInv, OnePlace
  <2>7. /\ o \in called /\ o \notin received \cup lost /\ o # consumer.op
        /\ \A i \in DOMAIN line : line[i] # o
    BY <1>1 DEF ClientInv, OnePlace
  <2> HIDE DEF o
  <2>8. OnePlace'
    <3>1. \A d \in Caller : InHand(caller'[d]) =>
            /\ caller'[d].op \in called
            /\ caller'[d].op \notin received \cup lost
            /\ \A i \in DOMAIN line' : line'[i] # caller'[d].op
            /\ consumer.op # caller'[d].op
            /\ \A e \in Caller : InHand(caller'[e]) /\ caller'[e].op = caller'[d].op => e = d
      BY <2>3, <2>6 DEF ClientInv, OnePlace
    <3>2. \A i \in DOMAIN line' :
            /\ line'[i] \in called
            /\ line'[i] \notin received \cup lost
            /\ line'[i] # consumer.op
            /\ \A j \in DOMAIN line' : line'[j] = line'[i] => j = i
      BY <2>3, <2>7 DEF ClientInv, OnePlace
    <3>3. QED
      BY <2>4, <3>1, <3>2 DEF ClientInv, OnePlace
  <2>9. QED
    BY <2>5, <2>8 DEF ClientInv
<1>3. CASE line' = line /\ Call(c, [caller[c] EXCEPT !.pc = "posting"])
  <2> DEFINE k == [caller[c] EXCEPT !.pc = "posting"]
  <2>1. k.op = o /\ k \in [pc : CallPC, op : Op \cup {None},
                seen : {"Disconnected", "Syncing", "Connected", "Conflict"}]
    BY <1>1 DEF CallPC
  <2> HIDE DEF k
  <2>2. UNCHANGED <<starter, consumer, line, called, received, lost>> /\ status' = status
    BY <1>3 DEF PushReadsStatus
  <2>3. Call(c, k)
    BY <1>3 DEF k
  <2>4. status' \in {"Disconnected", "Syncing", "Connected", "Conflict"}
    BY <2>2 DEF ClientInv, ClientTypes
  <2>5. QED
    BY <1>1, <2>1, <2>2, <2>3, <2>4, CallKeepsInv
<1>4. QED
  BY <1>2, <1>3 DEF PushReadsStatus

LEMMA PushAnsweredKeepsInv ==
  ASSUME ClientInv, NEW c \in Caller, NEW answer, NEW served \in BOOLEAN,
         PushAnswered(c, answer, served)
  PROVE  ClientInv'
<1> DEFINE o == caller[c].op
           k == IF answer = "409" THEN [caller[c] EXCEPT !.pc = "clashing"] ELSE NoCall
<1>1. /\ caller[c] \in [pc : CallPC, op : Op \cup {None},
                seen : {"Disconnected", "Syncing", "Connected", "Conflict"}]
      /\ InHand(caller[c]) /\ o \in Op
  BY DEF PushAnswered, InHand, ClientInv, ClientTypes
<1>2. ~InHand(k) /\ k \in [pc : CallPC, op : Op \cup {None},
                seen : {"Disconnected", "Syncing", "Connected", "Conflict"}]
  BY <1>1, NoCallType DEF InHand, CallPC
<1>3. Call(c, k)
  BY DEF PushAnswered
<1> HIDE DEF k
<1>4. /\ caller' \in [Caller -> [pc : CallPC, op : Op \cup {None},
                            seen : {"Disconnected", "Syncing", "Connected", "Conflict"}]]
      /\ caller'[c] = k
      /\ \A d \in Caller \ {c} : caller'[d] = caller[d]
  BY <1>2, <1>3, CallType DEF ClientInv
<1>5. \/ received' = received \cup {o} /\ lost' = lost
      \/ lost' = lost \cup {o} /\ received' = received
  BY DEF PushAnswered, Settle
<1>6. UNCHANGED <<status, starter, consumer, line, called>>
  BY DEF PushAnswered
<1>7. \A d \in Caller : InHand(caller'[d]) =>
        d # c /\ caller'[d] = caller[d] /\ caller[d].op # o
  BY <1>1, <1>2, <1>4 DEF ClientInv, OnePlace
<1>8. /\ o \in called /\ o \notin received \cup lost /\ o # consumer.op
      /\ \A i \in DOMAIN line : line[i] # o
  BY <1>1 DEF ClientInv, OnePlace
<1>9. ClientTypes'
  BY <1>4, <1>6, <1>7 DEF ClientInv, ClientTypes
<1> HIDE DEF o
<1>10. OnePlace'
  BY <1>5, <1>6, <1>7, <1>8 DEF ClientInv, OnePlace
<1>11. QED
  BY <1>9, <1>10 DEF ClientInv

\* Steps that touch neither the operations nor the consumer.
LEMMA QuietKeepsInv ==
  ASSUME ClientInv, starter' \in {"idle", "registering", "done", "failed"},
         starter' = "done" \/ starter # "done",
         status' \in {"Disconnected", "Syncing", "Connected", "Conflict"},
         UNCHANGED <<consumer, line, caller, called, received, lost>>
  PROVE  ClientInv'
BY DEF ClientInv, ClientTypes, OnePlace

LEMMA StarterKeepsInv ==
  ASSUME ClientInv, StarterStep
  PROVE  ClientInv'
<1>1. CASE StartRegisters
  BY <1>1, QuietKeepsInv DEF StartRegisters
<1>2. ASSUME NEW a \in Answers, StartAnswered(a)
      PROVE  ClientInv'
  <2>1. CASE consumer' = consumer
    BY <1>2, <2>1, QuietKeepsInv DEF StartAnswered
  <2>2. CASE consumer' = NoEntry("recv") /\ starter' = "done"
    <3>1. consumer.op = None /\ consumer'.op = None /\ consumer'.pc = "recv"
      BY <1>2, <2>2 DEF StartAnswered, ClientInv, ClientTypes, NoEntry
    <3>2. UNCHANGED <<line, caller, called, received, lost>>
          /\ status' \in {"Disconnected", "Syncing", "Connected", "Conflict"}
      BY <1>2 DEF StartAnswered
    <3>3. ClientTypes'
      BY <2>2, <3>1, <3>2 DEF ClientInv, ClientTypes, NoEntry
    <3>4. OnePlace'
      BY <3>1, <3>2 DEF ClientInv, OnePlace
    <3>5. QED
      BY <3>3, <3>4 DEF ClientInv
  <2>3. QED
    BY <1>2, <2>1, <2>2 DEF StartAnswered
<1>3. QED
  BY <1>1, <1>2 DEF StarterStep

LEMMA PeriodicKeepsInv ==
  ASSUME ClientInv, PeriodicStep
  PROVE  ClientInv'
<1>1. status' \in {"Disconnected", "Syncing", "Connected", "Conflict"}
  BY DEF PeriodicStep, PeriodicStarts, PeriodicAnswered, ClientInv, ClientTypes
<1>2. UNCHANGED <<starter, consumer, line, caller, called, received, lost>>
  BY DEF PeriodicStep, PeriodicStarts, PeriodicAnswered
<1>3. starter \in {"idle", "registering", "done", "failed"}
  BY DEF ClientInv, ClientTypes
<1>4. QED
  BY <1>1, <1>2, <1>3, QuietKeepsInv

LEMMA ConsumerTakesKeepsInv ==
  ASSUME ClientInv, ConsumerTakes
  PROVE  ClientInv'
<1> DEFINE o == Head(line)
<1>1. /\ line \in Seq(Op) /\ line' \in Seq(Op) /\ o = line[1] /\ o \in Op
      /\ 1 \in DOMAIN line
      /\ \A i \in DOMAIN line' : i + 1 \in DOMAIN line /\ i + 1 # 1 /\ line'[i] = line[i + 1]
      /\ \A i, j \in DOMAIN line' : i + 1 = j + 1 => i = j
  BY DEF ConsumerTakes, ClientInv, ClientTypes
<1>2. consumer'.op = o /\ consumer' = [pc |-> "checking", op |-> o] /\ consumer.op = None
  BY DEF ConsumerTakes, ClientInv, ClientTypes
<1> HIDE DEF o
<1>3. UNCHANGED <<status, starter, caller, called, received, lost>> /\ consumer.pc = "recv"
  BY DEF ConsumerTakes
<1>4. ClientTypes'
  BY <1>1, <1>2, <1>3 DEF ClientInv, ClientTypes
<1>5. OnePlace'
  <2>1. o \in called /\ o \notin received \cup lost
    BY <1>1 DEF ClientInv, OnePlace
  <2>2. \A d \in Caller : InHand(caller[d]) =>
          /\ caller[d].op # o
          /\ \A i \in DOMAIN line' : line'[i] # caller[d].op
    BY <1>1 DEF ClientInv, OnePlace
  <2>3. \A i \in DOMAIN line' :
          /\ line'[i] \in called
          /\ line'[i] \notin received \cup lost
          /\ line'[i] # o
          /\ \A j \in DOMAIN line' : line'[j] = line'[i] => j = i
    BY <1>1 DEF ClientInv, OnePlace
  <2>4. QED
    BY <1>2, <1>3, <2>1, <2>2, <2>3 DEF ClientInv, OnePlace
<1>6. QED
  BY <1>4, <1>5 DEF ClientInv

LEMMA ConsumerLeavesKeepsInv ==
  ASSUME ClientInv, consumer.pc \in {"checking", "posting"}, consumer' = NoEntry("recv"),
         \/ received' = received \cup {consumer.op} /\ lost' = lost
         \/ lost' = lost \cup {consumer.op} /\ received' = received,
         UNCHANGED <<status, starter, caller, called, line>>
  PROVE  ClientInv'
<1>1. /\ consumer.op \in Op /\ consumer.op # None
      /\ consumer'.op = None /\ consumer'.pc = "recv" /\ starter = "done"
  BY NoneAssumption DEF ClientInv, ClientTypes, NoEntry
<1>2. \A i \in DOMAIN line : line[i] # None
  BY NoneAssumption DEF ClientInv, ClientTypes
<1>3. \A d \in Caller : InHand(caller[d]) => caller[d].op # None /\ caller[d].op # consumer.op
  BY NoneAssumption DEF ClientInv, ClientTypes, OnePlace
<1>4. ClientTypes'
  BY <1>1 DEF ClientInv, ClientTypes, NoEntry
<1>5. OnePlace'
  BY <1>1, <1>2, <1>3 DEF ClientInv, OnePlace
<1>6. QED
  BY <1>4, <1>5 DEF ClientInv

LEMMA ConsumerKeepsInv ==
  ASSUME ClientInv, ConsumerStep
  PROVE  ClientInv'
<1>1. CASE ConsumerTakes
  BY <1>1, ConsumerTakesKeepsInv
<1>2. CASE ConsumerChecks
  <2>1. CASE status = "Disconnected"
    BY <1>2, <2>1, ConsumerLeavesKeepsInv DEF ConsumerChecks
  <2>2. CASE status # "Disconnected"
    <3>1. consumer'.op = consumer.op /\ consumer'.pc = "posting"
          /\ consumer' = [pc |-> "posting", op |-> consumer.op] /\ consumer.pc = "checking"
      BY <1>2, <2>2 DEF ConsumerChecks, ClientInv, ClientTypes
    <3>2. UNCHANGED <<status, starter, line, caller, called, received, lost>>
      BY <1>2, <2>2 DEF ConsumerChecks
    <3>3. ClientTypes'
      BY <3>1, <3>2 DEF ClientInv, ClientTypes
    <3>4. OnePlace'
      BY <3>1, <3>2 DEF ClientInv, OnePlace
    <3>5. QED
      BY <3>3, <3>4 DEF ClientInv
  <2>3. QED
    BY <2>1, <2>2
<1>3. ASSUME NEW a \in PushAnswers, NEW served \in BOOLEAN, ConsumerAnswered(a, served)
      PROVE  ClientInv'
  BY <1>3, ConsumerLeavesKeepsInv DEF ConsumerAnswered, Settle
<1>4. QED
  BY <1>1, <1>2, <1>3 DEF ConsumerStep

LEMMA CallerKeepsInv ==
  ASSUME ClientInv, NEW c \in Caller, CallerStep(c) \/ NewCall(c)
  PROVE  ClientInv'
<1> DEFINE Calls == [pc : CallPC, op : Op \cup {None},
                     seen : {"Disconnected", "Syncing", "Connected", "Conflict"}]
<1>1. status \in {"Disconnected", "Syncing", "Connected", "Conflict"} /\ caller[c] \in Calls
  BY DEF ClientInv, ClientTypes
<1>2. CASE PushReadsStatus(c)
  BY <1>2, PushReadsStatusKeepsInv
<1>3. CASE PushQueued(c)
  BY <1>1, <1>3, NoCallType, CallKeepsInv DEF PushQueued
<1>4. CASE PushClashes(c)
  BY <1>4, NoCallType, CallKeepsInv DEF PushClashes
<1>5. ASSUME NEW a \in PushAnswers, NEW served \in BOOLEAN, PushAnswered(c, a, served)
      PROVE  ClientInv'
  BY <1>5, PushAnsweredKeepsInv
<1>6. ASSUME NEW a \in Answers, ForceAnswered(c, a)
      PROVE  ClientInv'
  <2> DEFINE k == IF a = "success" THEN [NoCall EXCEPT !.pc = "looking"] ELSE NoCall
  <2>1. k \in Calls /\ ~InHand(k)
    BY DEF NoCall, CallPC, InHand
  <2>2. Call(c, k) /\ UNCHANGED <<status, starter, consumer, line, called, received, lost>>
    BY <1>6 DEF ForceAnswered
  <2> HIDE DEF k
  <2>3. QED
    BY <1>1, <2>1, <2>2, CallKeepsInv
<1>7. CASE ForceReadsStatus(c)
  <2> DEFINE k == [NoCall EXCEPT !.pc = "writing", !.seen = status]
  <2>1. k \in Calls /\ ~InHand(k)
    BY <1>1 DEF NoCall, CallPC, InHand
  <2>2. Call(c, k) /\ UNCHANGED <<status, starter, consumer, line, called, received, lost>>
    BY <1>7 DEF ForceReadsStatus
  <2> HIDE DEF k
  <2>3. QED
    BY <1>1, <2>1, <2>2, CallKeepsInv
<1>8. CASE ForceWritesStatus(c)
  BY <1>8, NoCallType, CallKeepsInv DEF ForceWritesStatus
<1>9. CASE ForceCalled(c)
  <2> DEFINE k == [NoCall EXCEPT !.pc = "pulling"]
  <2>1. k \in Calls /\ ~InHand(k)
    BY DEF NoCall, CallPC, InHand
  <2>2. Call(c, k) /\ UNCHANGED <<starter, consumer, line, called, received, lost>>
        /\ status' = "Syncing"
    BY <1>9 DEF ForceCalled
  <2> HIDE DEF k
  <2>3. QED
    BY <2>1, <2>2, CallKeepsInv
<1>10. ASSUME NEW o \in Op, PushCalled(c, o)
       PROVE  ClientInv'
  BY <1>10, PushCalledKeepsInv
<1>11. QED
  BY <1>2, <1>3, <1>4, <1>5, <1>6, <1>7, <1>8, <1>9, <1>10 DEF CallerStep, NewCall

LEMMA ClientNextInv ==
  ASSUME ClientInv, [ClientNext]_clientVars
  PROVE  ClientInv'
<1>1. ClientInv => starter \in {"idle", "registering", "done", "failed"}
                   /\ status \in {"Disconnected", "Syncing", "Connected", "Conflict"}
  BY DEF ClientInv, ClientTypes
<1>2. CASE Outage
  BY <1>1, <1>2, QuietKeepsInv DEF Outage
<1>3. CASE UNCHANGED clientVars
  BY <1>1, <1>3, QuietKeepsInv DEF clientVars
<1>4. QED
  BY <1>2, <1>3, StarterKeepsInv, PeriodicKeepsInv, ConsumerKeepsInv, CallerKeepsInv
  DEF ClientNext

LEMMA ClientAlwaysInv == ClientSpec => []ClientInv
BY ClientInitInv, ClientNextInv, PTL DEF ClientSpec

-----------------------------------------------------------------------------
\* What waits is the consumer's operation, if it has one, and then the line.
LEMMA WaitingIs ==
  ASSUME ClientInv
  PROVE  /\ Waiting \in Seq(Op)
         /\ consumer.op = None => Waiting = line
         /\ consumer.op # None => /\ Waiting # <<>>
                                  /\ Head(Waiting) = consumer.op
                                  /\ Tail(Waiting) = line
         /\ \A o \in Op : o \in ToSet(Waiting) <=>
              o = consumer.op \/ \E i \in DOMAIN line : line[i] = o
<1>1. line \in Seq(Op) /\ consumer.op \in Op \cup {None} /\ None \notin Op
  BY NoneAssumption DEF ClientInv, ClientTypes
<1>2. CASE consumer.op = None
  <2>1. Waiting = line
    BY <1>1, <1>2 DEF Waiting
  <2>2. QED
    BY <1>1, <1>2, <2>1 DEF ToSet
<1>3. CASE consumer.op # None
  <2>1. Waiting = <<consumer.op>> \o line
    BY <1>3 DEF Waiting
  <2>2. /\ Waiting \in Seq(Op) /\ Len(Waiting) = 1 + Len(line)
        /\ Waiting[1] = consumer.op
        /\ \A i \in 1 .. Len(line) : Waiting[i + 1] = line[i]
    BY <1>1, <1>3, <2>1
  <2>3. Waiting # <<>> /\ Head(Waiting) = consumer.op
    BY <2>2
  <2>4. Tail(Waiting) = line
    BY <1>1, <2>2
  <2>5. \A o \in Op : o \in ToSet(Waiting) <=>
              o = consumer.op \/ \E i \in DOMAIN line : line[i] = o
    <3> TAKE o \in Op
    <3>1. ToSet(Waiting) = {Waiting[i] : i \in 1 .. Len(Waiting)}
      BY <2>2 DEF ToSet
    <3>2. ASSUME o = consumer.op PROVE o \in ToSet(Waiting)
      BY <1>1, <2>2, <3>1, <3>2
    <3>3. ASSUME NEW i \in DOMAIN line, line[i] = o PROVE o \in ToSet(Waiting)
      <4>1. i + 1 \in 1 .. Len(Waiting) /\ Waiting[i + 1] = o
        BY <1>1, <2>2, <3>3
      <4>2. QED
        BY <3>1, <4>1
    <3>4. ASSUME o \in ToSet(Waiting), o # consumer.op
          PROVE  \E i \in DOMAIN line : line[i] = o
      <4>1. PICK j \in 1 .. Len(Waiting) : Waiting[j] = o
        BY <3>1, <3>4
      <4>2. j - 1 \in DOMAIN line /\ line[j - 1] = o
        BY <1>1, <2>2, <3>4, <4>1
      <4>3. QED
        BY <4>2
    <3>5. QED
      BY <3>2, <3>3, <3>4
  <2>6. QED
    BY <1>3, <2>2, <2>3, <2>4, <2>5
<1>4. QED
  BY <1>2, <1>3

\* A step that leaves what is received, lost and waiting alone is not one of the outbox.
LEMMA SameFates ==
  ASSUME UNCHANGED <<received, lost>>, ToSet(Waiting)' = ToSet(Waiting)
  PROVE  Fate' = Fate
BY DEF Fate, FateOf

FateFacts ==
  /\ Fate = [o \in Op |-> Fate[o]]
  /\ \A o \in Op :
       /\ o \in received => Fate[o] = "delivered"
       /\ o \in lost => Fate[o] = "lost"
       /\ o \in ToSet(Waiting) => Fate[o] = "waiting"
       /\ o \notin received \cup lost \cup ToSet(Waiting) => Fate[o] = "new"

LEMMA FatesAre == ClientInv => FateFacts
<1> SUFFICES ASSUME ClientInv, NEW o \in Op
             PROVE  /\ o \in received => Fate[o] = "delivered"
                    /\ o \in lost => Fate[o] = "lost"
                    /\ o \in ToSet(Waiting) => Fate[o] = "waiting"
                    /\ o \notin received \cup lost \cup ToSet(Waiting) => Fate[o] = "new"
  BY DEF FateFacts, Fate
<1>1. ~(o \in received /\ o \in lost)
  BY DEF ClientInv, OnePlace
<1>2. o \in ToSet(Waiting) => o \notin received \cup lost
  BY WaitingIs, NoneAssumption DEF ClientInv, OnePlace
<1>3. QED
  BY <1>1, <1>2 DEF Fate, FateOf

LEMMA FatesAreNext == ClientInv' => FateFacts'
BY FatesAre, PTL

\* How the fates move when one operation's does.
LEMMA FateMoves ==
  ASSUME FateFacts, FateFacts', NEW o \in Op, NEW f, Fate'[o] = f,
         \A e \in Op \ {o} : Fate'[e] = Fate[e]
  PROVE  Fate' = [Fate EXCEPT ![o] = f]
BY DEF FateFacts

LEMMA InitIsEmpty == ClientInit => OB!Init
<1> SUFFICES ASSUME ClientInit PROVE OB!Init
  OBVIOUS
<1>1. Waiting = <<>>
  BY DEF ClientInit, Waiting, NoEntry
<1>2. ToSet(Waiting) = {}
  BY <1>1 DEF ToSet
<1>3. \A o \in Op : FateOf(o) = "new"
  BY <1>2 DEF ClientInit, FateOf
<1>4. QED
  BY <1>1, <1>3 DEF OB!Init, Fate

LEMMA QuietStep ==
  ASSUME UNCHANGED <<consumer, line, received, lost>>
  PROVE  UNCHANGED <<Fate, Waiting>>
<1>1. Waiting' = Waiting
  BY DEF Waiting
<1>2. QED
  BY <1>1, SameFates

\* An operation in hand has not been heard of.
LEMMA InHandIsNew ==
  ASSUME ClientInv, NEW c \in Caller, InHand(caller[c])
  PROVE  /\ caller[c].op \in Op /\ Fate[caller[c].op] = "new"
         /\ caller[c].op \notin received \cup lost
         /\ caller[c].op \notin ToSet(Waiting)
<1>1. /\ caller[c].op \in Op /\ caller[c].op \notin received \cup lost
      /\ caller[c].op # consumer.op /\ \A i \in DOMAIN line : line[i] # caller[c].op
  BY DEF ClientInv, ClientTypes, OnePlace
<1>2. caller[c].op \notin ToSet(Waiting)
  BY <1>1, WaitingIs
<1>3. QED
  BY <1>1, <1>2 DEF Fate, FateOf

LEMMA QueueingWaits ==
  ASSUME ClientInv, ClientInv', NEW c \in Caller, PushReadsStatus(c)
  PROVE  [OB!Next]_<<Fate, Waiting>>
<1> DEFINE o == caller[c].op
<1>1. InHand(caller[c]) /\ UNCHANGED <<consumer, received, lost>>
  BY DEF PushReadsStatus, InHand
<1>2. CASE line' = line
  BY <1>1, <1>2, QuietStep
<1>3. CASE line' = Append(line, o)
  <2>1. /\ o \in Op /\ Fate[o] = "new" /\ o \notin received \cup lost
        /\ o \notin ToSet(Waiting)
    BY <1>1, InHandIsNew
  <2>2. line \in Seq(Op)
    BY DEF ClientInv, ClientTypes
  <2>3. Waiting' = Append(Waiting, o)
    BY <1>1, <1>3, <2>1, <2>2 DEF Waiting
  <2>4. Waiting \in Seq(Op)
    BY WaitingIs
  <2> HIDE DEF o
  <2>5. ToSet(Waiting)' = ToSet(Waiting) \cup {o}
    BY <2>1, <2>3, <2>4 DEF ToSet
  <2>6. Fate' = [Fate EXCEPT ![o] = "waiting"]
    <3>1. Fate'[o] = "waiting"
      BY <2>1, <2>5, FatesAreNext DEF FateFacts
    <3>2. \A e \in Op \ {o} : Fate'[e] = Fate[e]
      BY <1>1, <2>1, <2>5, FatesAre, FatesAreNext DEF FateFacts
    <3>3. QED
      BY <2>1, <3>1, <3>2, FateMoves, FatesAre, FatesAreNext
  <2>7. OB!Wait(o)
    BY <2>1, <2>3, <2>6 DEF OB!Wait
  <2>8. QED
    BY <2>1, <2>7 DEF OB!Next
<1>4. QED
  BY <1>2, <1>3 DEF PushReadsStatus

LEMMA PostingIsDirect ==
  ASSUME ClientInv, ClientInv', NEW c \in Caller, NEW answer, NEW served \in BOOLEAN,
         PushAnswered(c, answer, served)
  PROVE  OB!Next
<1> DEFINE o == caller[c].op
<1>1. InHand(caller[c]) /\ UNCHANGED <<consumer, line>>
  BY DEF PushAnswered, InHand
<1>2. /\ o \in Op /\ Fate[o] = "new" /\ o \notin received \cup lost
      /\ o \notin ToSet(Waiting)
  BY <1>1, InHandIsNew
<1>3. \/ received' = received \cup {o} /\ lost' = lost
      \/ lost' = lost \cup {o} /\ received' = received
  BY DEF PushAnswered, Settle
<1>4. Waiting' = Waiting
  BY <1>1 DEF Waiting
<1> HIDE DEF o
<1>5. CASE received' = received \cup {o} /\ lost' = lost
  <2>1. Fate' = [Fate EXCEPT ![o] = "delivered"]
    <3>1. Fate'[o] = "delivered"
      BY <1>2, <1>5, FatesAreNext DEF FateFacts
    <3>2. \A e \in Op \ {o} : Fate'[e] = Fate[e]
      BY <1>4, <1>5, FatesAre, FatesAreNext DEF FateFacts
    <3>3. QED
      BY <1>2, <3>1, <3>2, FateMoves, FatesAre, FatesAreNext
  <2>2. QED
    BY <1>2, <1>4, <2>1 DEF OB!Next, OB!Direct, OB!End
<1>6. CASE lost' = lost \cup {o} /\ received' = received
  <2>1. Fate' = [Fate EXCEPT ![o] = "lost"]
    <3>1. Fate'[o] = "lost"
      BY <1>2, <1>6, FatesAreNext DEF FateFacts
    <3>2. \A e \in Op \ {o} : Fate'[e] = Fate[e]
      BY <1>4, <1>6, FatesAre, FatesAreNext DEF FateFacts
    <3>3. QED
      BY <1>2, <3>1, <3>2, FateMoves, FatesAre, FatesAreNext
  <2>2. QED
    BY <1>2, <1>4, <2>1 DEF OB!Next, OB!Direct, OB!End
<1>7. QED
  BY <1>3, <1>5, <1>6

LEMMA TakingIsQuiet ==
  ASSUME ClientInv, ConsumerTakes
  PROVE  UNCHANGED <<Fate, Waiting>>
<1>1. consumer.op = None /\ line \in Seq(Op) /\ line # <<>>
      /\ consumer'.op = Head(line) /\ line' = Tail(line) /\ Head(line) \in Op
  BY DEF ConsumerTakes, ClientInv, ClientTypes
<1>2. Waiting = line
  BY <1>1, WaitingIs
<1>3. Waiting' = <<Head(line)>> \o Tail(line)
  BY <1>1, NoneAssumption DEF Waiting
<1>4. Waiting' = line
  BY <1>1, <1>3
<1>5. QED
  BY <1>2, <1>4, SameFates DEF ConsumerTakes

LEMMA DoneIsLeave ==
  ASSUME ClientInv, ClientInv', consumer.pc \in {"checking", "posting"},
         consumer' = NoEntry("recv"),
         \/ received' = received \cup {consumer.op} /\ lost' = lost
         \/ lost' = lost \cup {consumer.op} /\ received' = received,
         line' = line
  PROVE  OB!Next
<1> DEFINE o == consumer.op
<1>1. o \in Op /\ o # None /\ consumer'.op = None
  BY NoneAssumption DEF ClientInv, ClientTypes, NoEntry
<1>2. o \notin received \cup lost /\ \A i \in DOMAIN line : line[i] # o
  BY <1>1 DEF ClientInv, OnePlace
<1>3. /\ Waiting # <<>> /\ Head(Waiting) = o /\ Tail(Waiting) = line
      /\ \A e \in Op : e \in ToSet(Waiting) <=> e = o \/ \E i \in DOMAIN line : line[i] = e
  BY <1>1, WaitingIs
<1>4. /\ Waiting' = line
      /\ \A e \in Op : e \in ToSet(Waiting)' <=> \E i \in DOMAIN line : line[i] = e
  <2>1. line \in Seq(Op)
    BY DEF ClientInv, ClientTypes
  <2>2. Waiting' = line
    BY <1>1, <2>1 DEF Waiting
  <2>3. QED
    BY <2>1, <2>2 DEF ToSet
<1>5. Fate[o] = "waiting"
  BY <1>1, <1>2, <1>3 DEF Fate, FateOf
<1> HIDE DEF o
<1>6. CASE received' = received \cup {o} /\ lost' = lost
  <2>1. Fate' = [Fate EXCEPT ![o] = "delivered"]
    <3>1. Fate'[o] = "delivered"
      BY <1>1, <1>6, FatesAreNext DEF FateFacts
    <3>2. \A e \in Op \ {o} : Fate'[e] = Fate[e]
      BY <1>3, <1>4, <1>6, FatesAre, FatesAreNext DEF FateFacts
    <3>3. QED
      BY <1>1, <3>1, <3>2, FateMoves, FatesAre, FatesAreNext
  <2>2. QED
    BY <1>3, <1>4, <1>5, <2>1 DEF OB!Next, OB!Leave, OB!End
<1>7. CASE lost' = lost \cup {o} /\ received' = received
  <2>1. Fate' = [Fate EXCEPT ![o] = "lost"]
    <3>1. Fate'[o] = "lost"
      BY <1>1, <1>7, FatesAreNext DEF FateFacts
    <3>2. \A e \in Op \ {o} : Fate'[e] = Fate[e]
      BY <1>3, <1>4, <1>7, FatesAre, FatesAreNext DEF FateFacts
    <3>3. QED
      BY <1>1, <3>1, <3>2, FateMoves, FatesAre, FatesAreNext
  <2>2. QED
    BY <1>3, <1>4, <1>5, <2>1 DEF OB!Next, OB!Leave, OB!End
<1>8. QED
  BY <1>6, <1>7 DEF o

LEMMA ConsumerStepIsOutbox ==
  ASSUME ClientInv, ClientInv', ConsumerStep
  PROVE  [OB!Next]_<<Fate, Waiting>>
<1>1. CASE ConsumerTakes
  BY <1>1, TakingIsQuiet
<1>2. CASE ConsumerChecks
  <2>1. CASE status = "Disconnected"
    BY <1>2, <2>1, DoneIsLeave DEF ConsumerChecks
  <2>2. CASE status # "Disconnected"
    <3>1. consumer'.op = consumer.op /\ UNCHANGED <<line, received, lost>>
      BY <1>2, <2>2 DEF ConsumerChecks, ClientInv, ClientTypes
    <3>2. Waiting' = Waiting
      BY <3>1 DEF Waiting
    <3>3. QED
      BY <3>1, <3>2, SameFates
  <2>3. QED
    BY <2>1, <2>2
<1>3. ASSUME NEW a \in PushAnswers, NEW served \in BOOLEAN, ConsumerAnswered(a, served)
      PROVE  OB!Next
  BY <1>3, DoneIsLeave DEF ConsumerAnswered, Settle
<1>4. QED
  BY <1>1, <1>2, <1>3 DEF ConsumerStep

LEMMA CallerStepIsOutbox ==
  ASSUME ClientInv, ClientInv', NEW c \in Caller, CallerStep(c) \/ NewCall(c)
  PROVE  [OB!Next]_<<Fate, Waiting>>
<1>1. CASE PushReadsStatus(c)
  BY <1>1, QueueingWaits
<1>2. ASSUME NEW a \in PushAnswers, NEW served \in BOOLEAN, PushAnswered(c, a, served)
      PROVE  OB!Next
  BY <1>2, PostingIsDirect
<1>3. CASE PushQueued(c) \/ PushClashes(c) \/ ForceReadsStatus(c) \/ ForceWritesStatus(c)
           \/ ForceCalled(c)
  BY <1>3, QuietStep
  DEF PushQueued, PushClashes, ForceReadsStatus, ForceWritesStatus, ForceCalled
<1>4. ASSUME NEW a \in Answers, ForceAnswered(c, a)
      PROVE  UNCHANGED <<Fate, Waiting>>
  BY <1>4, QuietStep DEF ForceAnswered
<1>5. ASSUME NEW o \in Op, PushCalled(c, o)
      PROVE  UNCHANGED <<Fate, Waiting>>
  BY <1>5, QuietStep DEF PushCalled
<1>6. QED
  BY <1>1, <1>2, <1>3, <1>4, <1>5 DEF CallerStep, NewCall

LEMMA ClientStepIsOutbox ==
  ASSUME ClientInv, ClientInv', [ClientNext]_clientVars
  PROVE  [OB!Next]_<<Fate, Waiting>>
<1>1. CASE Outage \/ StarterStep \/ PeriodicStep \/ UNCHANGED clientVars
  <2>1. CASE Outage \/ PeriodicStep \/ StartRegisters \/ UNCHANGED clientVars
    BY <2>1, QuietStep
    DEF Outage, PeriodicStep, PeriodicStarts, PeriodicAnswered, StartRegisters, clientVars
  <2>2. ASSUME NEW a \in Answers, StartAnswered(a)
        PROVE  UNCHANGED <<Fate, Waiting>>
    <3>1. consumer.op = None /\ consumer'.op = None /\ UNCHANGED <<line, received, lost>>
      BY <2>2 DEF StartAnswered, ClientInv, ClientTypes, NoEntry
    <3>2. Waiting' = Waiting
      BY <3>1 DEF Waiting
    <3>3. QED
      BY <3>1, <3>2, SameFates
  <2>3. QED
    BY <1>1, <2>1, <2>2 DEF StarterStep
<1>2. QED
  BY <1>1, ConsumerStepIsOutbox, CallerStepIsOutbox DEF ClientNext

\* Whatever fails, in whatever order the tasks run and however many there are, the
\* client's queue is an outbox: push() and the consumer never hand an operation to the
\* central service twice, and queued ones leave in the order they came
\* (management/sync.rs: push, queue_offline_operation, process_queue_entry).
THEOREM QueueIsOutbox == ClientSpec => KeepsOutboxPromise
<1>1. ClientSpec => OB!Init
  BY InitIsEmpty DEF ClientSpec
<1>2. ClientInv /\ ClientInv' /\ [ClientNext]_clientVars => [OB!Next]_OB!outboxVars
  BY ClientStepIsOutbox DEF OB!outboxVars
<1>3. QED
  BY <1>1, <1>2, ClientAlwaysInv, PTL DEF ClientSpec, KeepsOutboxPromise, OB!Spec
=============================================================================
