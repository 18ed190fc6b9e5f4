---------------------------- MODULE IncrementalPull ----------------------------
(***************************************************************************)
(* One proxy's incremental pulls of the central mock configurations:        *)
(* perform_periodic_sync and force_sync of the proxy, sync_pull of the       *)
(* central service.  A pull names last_sync, the proxy's watermark; the      *)
(* service answers with the rows of its first page saved after it; the      *)
(* proxy saves them one by one and moves last_sync to its own clock.        *)
(* The periodic task and a caller of force_sync may pull at the same time:   *)
(* they share last_sync and the SQLite file, and nothing orders them.        *)
(*                                                                         *)
(* now is the database's clock.  A row's version is the number of the save   *)
(* that made it.                                                           *)
(***************************************************************************)
EXTENDS Naturals, FiniteSets, FiniteSetsExt

CONSTANTS
  Config,    \* configuration ids
  Puller,    \* the periodic task and the callers of force_sync
  Absent,    \* no row, no copy
  Page,      \* MockFilter::limit() of a default filter: the rows one pull can see
  Skew,      \* how far the proxy's clock is ahead of the database's
  MaxTime,   \* bound on now
  MaxSaves   \* bound on the saves

ASSUME PageAssumption == Page \in Nat \ {0}
ASSUME ClockAssumption == Skew \in Nat /\ MaxTime \in Nat /\ MaxSaves \in Nat
ASSUME AbsentAssumption == Absent \notin Nat

VARIABLES
  now,       \* the database's clock
  row,       \* row[c]: [ver, created, at] of table mock_configurations, or Absent
  saves,     \* saves made so far
  copy,      \* copy[c]: the version in the proxy's SQLite file, or Absent
  lastSync,  \* SyncClient.last_sync, 0 before the first pull
  puller,    \* puller[p]: [pc, since, todo, hidden]
  excused    \* configurations whose last save a pull is allowed to miss

vars == <<now, row, saves, copy, lastSync, puller, excused>>

Resting == [pc |-> "resting", since |-> 0, todo |-> {}, hidden |-> {}]
Rows == {c \in Config : row[c] # Absent}

\* The pulls that have read the table and have not moved last_sync yet.
InFlight == \E p \in Puller : puller[p].pc = "applying"

Init ==
  /\ now = 1
  /\ row = [c \in Config |-> Absent]
  /\ saves = 0
  /\ copy = [c \in Config |-> Absent]
  /\ lastSync = 0
  /\ puller = [p \in Puller |-> Resting]
  /\ excused = {}

Tick ==
  /\ now < MaxTime
  /\ now' = now + 1
  /\ UNCHANGED <<row, saves, copy, lastSync, puller, excused>>

\* PostgresMockRepository::save.  An INSERT keeps the dates the version carries,
\* which are those of the proxy that made it when it was pushed; on UPDATE the
\* trigger update_updated_at_column moves updated_at to the clock.
Save(c, created, at) ==
  /\ saves < MaxSaves
  /\ saves' = saves + 1
  /\ row' = [row EXCEPT ![c] = [ver |-> saves + 1, created |-> created, at |-> at]]
  /\ excused' = IF InFlight \/ at <= lastSync THEN excused \cup {c} ELSE excused \ {c}
  /\ UNCHANGED <<now, copy, lastSync, puller>>

Insert(c, made) ==
  /\ row[c] = Absent
  /\ made <= now
  /\ Save(c, made, made)

Update(c) ==
  /\ row[c] # Absent
  /\ Save(c, row[c].created, now)

Delete(c) ==
  /\ row[c] # Absent
  /\ row' = [row EXCEPT ![c] = Absent]
  /\ UNCHANGED <<now, saves, copy, lastSync, puller, excused>>

-----------------------------------------------------------------------------
PullStarts(p) ==
  /\ puller[p].pc = "resting"
  /\ puller' = [puller EXCEPT ![p] = [Resting EXCEPT !.pc = "asking", !.since = lastSync]]
  /\ UNCHANGED <<now, row, saves, copy, lastSync, excused>>

\* The pages find_all may return: the rows created last.
Pages ==
  {w \in SUBSET Rows :
     /\ Cardinality(w) = Min({Page, Cardinality(Rows)})
     /\ \A c \in w, d \in Rows \ w : row[c].created >= row[d].created}

\* sync_pull: one page of the table, then those of its rows saved after since.
\* deleted_ids is always empty.
PullAnswered(p, page) ==
  /\ puller[p].pc = "asking"
  /\ LET newer == {c \in Rows : row[c].at > puller[p].since}
     IN puller' = [puller EXCEPT ![p] =
                     [@ EXCEPT !.pc = "applying",
                               !.todo = {<<c, row[c].ver>> : c \in newer \cap page},
                               !.hidden = newer \ page]]
  /\ UNCHANGED <<now, row, saves, copy, lastSync, excused>>

PullSaves(p, item) ==
  /\ puller[p].pc = "applying"
  /\ item \in puller[p].todo
  /\ copy' = [copy EXCEPT ![item[1]] = item[2]]
  /\ puller' = [puller EXCEPT ![p].todo = @ \ {item}]
  /\ UNCHANGED <<now, row, saves, lastSync, excused>>

\* A pull that goes on to the watermark when a save fails.
PullEndsAnyway(p) ==
  /\ puller[p].pc = "applying"
  /\ lastSync' = now + Skew
  /\ excused' = excused \cup puller[p].hidden
  /\ puller' = [puller EXCEPT ![p] = Resting]
  /\ UNCHANGED <<now, row, saves, copy>>

\* *last_sync = Some(Utc::now()), after every configuration was saved.
PullEnds(p) ==
  /\ puller[p].pc = "applying"
  /\ puller[p].todo = {}
  /\ lastSync' = now + Skew
  /\ excused' = excused \cup puller[p].hidden
  /\ puller' = [puller EXCEPT ![p] = Resting]
  /\ UNCHANGED <<now, row, saves, copy>>

\* No answer, a refusal, or a failing save: what was saved stays, the watermark
\* does not move.
PullFails(p) ==
  /\ puller[p].pc # "resting"
  /\ puller' = [puller EXCEPT ![p] = Resting]
  /\ UNCHANGED <<now, row, saves, copy, lastSync, excused>>

\* A new process: the SQLite file is what was saved, last_sync is None again.
Restart ==
  /\ lastSync' = 0
  /\ puller' = [p \in Puller |-> Resting]
  /\ excused' = {}
  /\ UNCHANGED <<now, row, saves, copy>>

PullStep(p) ==
  \/ PullStarts(p) \/ PullEnds(p) \/ PullFails(p)
  \/ \E page \in Pages : PullAnswered(p, page)
  \/ \E item \in puller[p].todo : PullSaves(p, item)

CentralStep ==
  \E c \in Config : Update(c) \/ Delete(c) \/ \E made \in 1 .. now : Insert(c, made)

Next == Tick \/ Restart \/ CentralStep \/ \E p \in Puller : PullStep(p)

Spec == Init /\ [][Next]_vars

-----------------------------------------------------------------------------
\* The watermark is sound but for the rows the protocol can miss: a row dated at
\* or before last_sync is the proxy's copy unless it was saved while a pull was
\* between its read of the table and its watermark, was saved with a date the
\* proxy had already passed (a pushed mock of an older date, a clock behind the
\* proxy's), or was beyond the first page.  Failed pulls, overlapping pulls,
\* deletions and restarts open no other hole.
WatermarkMissesNothingElse ==
  \A c \in Rows \ excused : row[c].at <= lastSync => copy[c] = row[c].ver
=============================================================================
