------------------------------ MODULE SyncClient ------------------------------
(***************************************************************************)
(* The SyncClient of a proxy (management/sync.rs): the tasks that share its *)
(* status behind a RwLock and its bounded offline queue.  They are the task *)
(* that runs start(), the periodic sync it spawns, the consumer of the      *)
(* offline queue it spawns, and the callers of push() and force_sync().     *)
(* Every await lets the others run: each action below is the code between   *)
(* two awaits that matter to the shared state.                             *)
(*                                                                         *)
(* The central service and the local database are the environment, up or   *)
(* down.  A request whose answer is lost may have been served.              *)
(***************************************************************************)
EXTENDS Sequences, Naturals, SequencesExt

CONSTANTS
  Op,           \* operations: one change of one configuration each
  Caller,       \* tasks that call push and force_sync
  None,         \* no operation
  MaxQueue,     \* SyncConfig.max_queue_size
  QueueEnabled, \* SyncConfig.offline_queue_enabled
  MaxOutages,   \* bound on the changes of up
  MaxForced     \* bound on the calls of force_sync

ASSUME NoneAssumption == None \notin Op
ASSUME QueueAssumption == MaxQueue \in Nat \ {0} /\ QueueEnabled \in BOOLEAN
ASSUME BoundAssumption == MaxOutages \in Nat /\ MaxForced \in Nat

VARIABLES
  status,    \* Arc<RwLock<SyncStatus>>
  guarded,   \* a write guard of status is held across an await
  starter,   \* the task of start(): idle, registering, done, failed
  periodic,  \* the periodic task: off, resting, pulling; manual: none is wanted
  consumer,  \* the consumer task: [pc, op]
  line,      \* offline operations: those in the channel, then those of blocked senders
  caller,    \* caller[c]: [pc, op, seen], the call c is in
  called,    \* operations push() has been called with
  received,  \* operations the central service has received
  lost,      \* operations given up
  up,        \* the central service and the local database work
  outages,   \* changes of up so far
  forced     \* calls of force_sync so far

clientVars == <<status, guarded, starter, periodic, consumer, line, caller, called, received,
          lost, up, outages, forced>>

NoCall == [pc |-> "idle", op |-> None, seen |-> "Disconnected"]
NoEntry(pc) == [pc |-> pc, op |-> None]

\* What a request can end with: the code's three branches on the response.  409
\* is an answer to a push; "failed" is an error of send(), of the database or
\* of reading the body.
Answers == IF up THEN {"success"} ELSE {"refused", "failed"}
PushAnswers == IF up THEN {"success", "409"} ELSE {"refused", "failed"}

\* The task is spawned unless SyncConfig.sync_interval_secs is 0.
Scheduled == IF periodic = "off" THEN "resting" ELSE periodic

\* The channel's capacity counts: a sender is blocked while its entry is
\* further back.  Senders are served in the order they came.
Blocked(o) == \E i \in DOMAIN line : i > MaxQueue /\ line[i] = o

ClientInit ==
  /\ status = "Disconnected"
  /\ guarded = FALSE
  /\ starter = "idle"
  /\ periodic \in {"off", "manual"}
  /\ consumer = NoEntry("off")
  /\ line = <<>>
  /\ caller = [c \in Caller |-> NoCall]
  /\ called = {}
  /\ received = {}
  /\ lost = {}
  /\ up \in BOOLEAN
  /\ outages = 0
  /\ forced = 0

-----------------------------------------------------------------------------
(* start() and register_with_central().                                    *)

\* The write guard taken here lives until register_with_central returns.
StartRegisters ==
  /\ starter = "idle"
  /\ status' = "Syncing"
  /\ guarded' = TRUE
  /\ starter' = "registering"
  /\ UNCHANGED <<periodic, consumer, line, caller, called, received, lost, up, outages,
                 forced>>

\* An early return that leaks the guard.
StartAnsweredLeaking(answer) ==
  /\ starter = "registering"
  /\ IF answer = "success"
     THEN /\ status' = "Connected"
          /\ guarded' = FALSE
          /\ starter' = "done"
          /\ periodic' = Scheduled
          /\ consumer' = IF QueueEnabled THEN NoEntry("recv") ELSE consumer
     ELSE /\ status' = "Disconnected"
          /\ starter' = "failed"
          /\ UNCHANGED <<guarded, periodic, consumer>>
  /\ UNCHANGED <<line, caller, called, received, lost, up, outages, forced>>

\* Success spawns the periodic task, if there is to be one, and the consumer, if
\* the offline queue is enabled.  Anything else ends start() with an error, and
\* nothing calls it again.
StartAnswered(answer) ==
  /\ starter = "registering"
  /\ guarded' = FALSE
  /\ IF answer = "success"
     THEN /\ status' = "Connected"
          /\ starter' = "done"
          /\ periodic' = Scheduled
          /\ consumer' = IF QueueEnabled THEN NoEntry("recv") ELSE consumer
     ELSE /\ status' = "Disconnected"
          /\ starter' = "failed"
          /\ UNCHANGED <<periodic, consumer>>
  /\ UNCHANGED <<line, caller, called, received, lost, up, outages, forced>>

(* The periodic task: interval.tick(), then perform_periodic_sync().       *)

PeriodicStarts ==
  /\ periodic = "resting"
  /\ ~guarded
  /\ status' = "Syncing"
  /\ periodic' = "pulling"
  /\ UNCHANGED <<guarded, starter, consumer, line, caller, called, received, lost, up,
                 outages, forced>>

\* A loop that ends with its first failed round.
PeriodicAnsweredOnce(answer) ==
  /\ periodic = "pulling"
  /\ ~guarded
  /\ periodic' = IF answer = "success" THEN "resting" ELSE "off"
  /\ status' = CASE answer = "success" -> "Connected"
                 [] answer = "refused" -> "Disconnected"
                 [] OTHER              -> status
  /\ UNCHANGED <<guarded, starter, consumer, line, caller, called, received, lost, up,
                 outages, forced>>

\* A refusal sets Disconnected; an error leaves the status as it is.
PeriodicAnswered(answer) ==
  /\ periodic = "pulling"
  /\ ~guarded
  /\ periodic' = "resting"
  /\ status' = CASE answer = "success" -> "Connected"
                 [] answer = "refused" -> "Disconnected"
                 [] OTHER              -> status
  /\ UNCHANGED <<guarded, starter, consumer, line, caller, called, received, lost, up,
                 outages, forced>>

-----------------------------------------------------------------------------
(* push() and queue_offline_operation().                                   *)

Call(c, fields) == caller' = [caller EXCEPT ![c] = fields]

PushCalled(c, o) ==
  /\ caller[c] = NoCall
  /\ o \notin called
  /\ Call(c, [NoCall EXCEPT !.pc = "push", !.op = o])
  /\ called' = called \cup {o}
  /\ UNCHANGED <<status, guarded, starter, periodic, consumer, line, received, lost, up,
                 outages, forced>>

\* The status is read once; the branch is taken on what it was.
PushReadsStatus(c) ==
  /\ caller[c].pc = "push"
  /\ ~guarded
  /\ IF status = "Disconnected" /\ QueueEnabled
     THEN /\ line' = Append(line, caller[c].op)
          /\ Call(c, [caller[c] EXCEPT !.pc = "queueing"])
     ELSE /\ Call(c, [caller[c] EXCEPT !.pc = "posting"])
          /\ UNCHANGED line
  /\ UNCHANGED <<status, guarded, starter, periodic, consumer, called, received, lost, up,
                 outages, forced>>

\* offline_queue_tx.send() returns when the entry is in the channel.
PushQueued(c) ==
  /\ caller[c].pc = "queueing"
  /\ ~Blocked(caller[c].op)
  /\ Call(c, NoCall)
  /\ UNCHANGED <<status, guarded, starter, periodic, consumer, line, called, received, lost,
                 up, outages, forced>>

\* The operation has reached the central service on every answer, and may have
\* on an error.
Settle(o, answer, served) ==
  IF answer \in {"success", "409"} \/ (answer = "failed" /\ served)
  THEN received' = received \cup {o} /\ UNCHANGED lost
  ELSE lost' = lost \cup {o} /\ UNCHANGED received

PushAnswered(c, answer, served) ==
  /\ caller[c].pc = "posting"
  /\ Settle(caller[c].op, answer, served)
  /\ Call(c, IF answer = "409" THEN [caller[c] EXCEPT !.pc = "clashing"] ELSE NoCall)
  /\ UNCHANGED <<status, guarded, starter, periodic, consumer, line, called, up, outages,
                 forced>>

PushClashes(c) ==
  /\ caller[c].pc = "clashing"
  /\ ~guarded
  /\ status' = "Conflict"
  /\ Call(c, NoCall)
  /\ UNCHANGED <<guarded, starter, periodic, consumer, line, called, received, lost, up,
                 outages, forced>>

(* force_sync().                                                           *)

ForceCalled(c) ==
  /\ caller[c] = NoCall
  /\ forced < MaxForced
  /\ ~guarded
  /\ status' = "Syncing"
  /\ forced' = forced + 1
  /\ Call(c, [NoCall EXCEPT !.pc = "pulling"])
  /\ UNCHANGED <<guarded, starter, periodic, consumer, line, called, received, lost, up,
                 outages>>

\* pull()? : any failure returns, with the status left at Syncing.
ForceAnswered(c, answer) ==
  /\ caller[c].pc = "pulling"
  /\ Call(c, IF answer = "success" THEN [NoCall EXCEPT !.pc = "looking"] ELSE NoCall)
  /\ UNCHANGED <<status, guarded, starter, periodic, consumer, line, called, received, lost,
                 up, outages, forced>>

ForceReadsStatus(c) ==
  /\ caller[c].pc = "looking"
  /\ ~guarded
  /\ Call(c, [NoCall EXCEPT !.pc = "writing", !.seen = status])
  /\ UNCHANGED <<status, guarded, starter, periodic, consumer, line, called, received, lost,
                 up, outages, forced>>

\* The read guard is gone when the write guard is asked for.
ForceWritesStatus(c) ==
  /\ caller[c].pc = "writing"
  /\ ~guarded
  /\ status' = IF caller[c].seen = "Conflict" THEN "Conflict" ELSE "Connected"
  /\ Call(c, NoCall)
  /\ UNCHANGED <<guarded, starter, periodic, consumer, line, called, received, lost, up,
                 outages, forced>>

-----------------------------------------------------------------------------
(* The consumer: while let Some(entry) = rx.recv().await { process(entry) } *)

ConsumerTakes ==
  /\ consumer.pc = "recv"
  /\ line # <<>>
  /\ consumer' = [pc |-> "checking", op |-> Head(line)]
  /\ line' = Tail(line)
  /\ UNCHANGED <<status, guarded, starter, periodic, caller, called, received, lost, up,
                 outages, forced>>

\* While the client is Disconnected the entry is dropped.
ConsumerChecks ==
  /\ consumer.pc = "checking"
  /\ ~guarded
  /\ IF status = "Disconnected"
     THEN /\ consumer' = NoEntry("recv")
          /\ lost' = lost \cup {consumer.op}
     ELSE /\ consumer' = [consumer EXCEPT !.pc = "posting"]
          /\ UNCHANGED lost
  /\ UNCHANGED <<status, guarded, starter, periodic, line, caller, called, received, up,
                 outages, forced>>

\* A consumer that holds on to its entry when the answer is an error.
ConsumerAnsweredRetrying(answer, served) ==
  /\ consumer.pc = "posting"
  /\ IF answer \in {"success", "409"} \/ served
     THEN received' = received \cup {consumer.op}
     ELSE UNCHANGED received
  /\ consumer' = IF answer = "success" THEN NoEntry("recv") ELSE consumer
  /\ UNCHANGED <<status, guarded, starter, periodic, line, caller, called, lost, up,
                 outages, forced>>

\* The task that runs the loop ends with its first error.
ConsumerAnsweredOnce(answer, served) ==
  /\ consumer.pc = "posting"
  /\ Settle(consumer.op, answer, served)
  /\ consumer' = NoEntry(IF answer = "success" THEN "recv" ELSE "off")
  /\ UNCHANGED <<status, guarded, starter, periodic, line, caller, called, up, outages,
                 forced>>

\* Whatever the answer, the entry is done with: an error is only logged.
ConsumerAnswered(answer, served) ==
  /\ consumer.pc = "posting"
  /\ Settle(consumer.op, answer, served)
  /\ consumer' = NoEntry("recv")
  /\ UNCHANGED <<status, guarded, starter, periodic, line, caller, called, up, outages,
                 forced>>

-----------------------------------------------------------------------------
Outage ==
  /\ outages < MaxOutages
  /\ up' = ~up
  /\ outages' = outages + 1
  /\ UNCHANGED <<status, guarded, starter, periodic, consumer, line, caller, called,
                 received, lost, forced>>

StarterStep == StartRegisters \/ \E a \in Answers : StartAnswered(a)
PeriodicStep == PeriodicStarts \/ \E a \in Answers : PeriodicAnswered(a)
ConsumerStep ==
  \/ ConsumerTakes \/ ConsumerChecks
  \/ \E a \in PushAnswers, served \in BOOLEAN : ConsumerAnswered(a, served)
CallerStep(c) ==
  \/ PushReadsStatus(c) \/ PushQueued(c) \/ PushClashes(c)
  \/ \E a \in PushAnswers, served \in BOOLEAN : PushAnswered(c, a, served)
  \/ \E a \in Answers : ForceAnswered(c, a)
  \/ ForceReadsStatus(c) \/ ForceWritesStatus(c)
NewCall(c) == ForceCalled(c) \/ \E o \in Op : PushCalled(c, o)

ClientNext ==
  \/ Outage \/ StarterStep \/ PeriodicStep \/ ConsumerStep
  \/ \E c \in Caller : CallerStep(c) \/ NewCall(c)

\* tokio runs every task that can run, the interval ticks for ever, and every
\* request ends within the client's timeout of 30 s.  Calls and outages need
\* not happen.
ClientFairness ==
  /\ WF_clientVars(StarterStep)
  /\ WF_clientVars(PeriodicStep)
  /\ WF_clientVars(ConsumerStep)
  /\ \A c \in Caller : WF_clientVars(CallerStep(c))

ClientSpec == ClientInit /\ [][ClientNext]_clientVars
FairClientSpec == ClientSpec /\ ClientFairness

-----------------------------------------------------------------------------
\* The operations that wait, oldest first: the consumer's entry, then the line.
Waiting == (IF consumer.op = None THEN <<>> ELSE <<consumer.op>>) \o line

FateOf(o) ==
  CASE o \in received       -> "delivered"
    [] o \in lost           -> "lost"
    [] o \in ToSet(Waiting) -> "waiting"
    [] OTHER                -> "new"

Fate == [o \in Op |-> FateOf(o)]

OB == INSTANCE Outbox WITH fate <- Fate, waiting <- Waiting

\* The client keeps the promise of an outbox: no operation reaches the central
\* service twice, and queued ones go out in order, whatever fails.
KeepsOutboxPromise == OB!Spec

\* Every call of push and force_sync returns, whatever the queue and the status
\* lock are doing; only a client whose registration failed, so that nobody drains
\* its queue, may keep the sender of an offline operation waiting.
CallsReturn ==
  \A c \in Caller :
    caller[c] # NoCall ~>
      \/ caller[c] = NoCall
      \/ caller[c].pc = "queueing" /\ starter = "failed"

\* Nothing stays in the offline queue of a client that registered.
QueueDrains ==
  \A o \in Op : o \in ToSet(Waiting) ~> o \notin ToSet(Waiting) \/ starter = "failed"

\* When the central service is back for good, a client that has registered and
\* synchronises at an interval is Connected again and again, whatever the outages
\* did to its status and the callers still do.  With sync_interval_secs = 0 nothing
\* would: a failed force_sync leaves Syncing until somebody calls it again.
ReconnectsAfterOutages ==
  (<>[]up /\ <>(starter = "done") /\ periodic # "manual") => []<>(status = "Connected")
=============================================================================
