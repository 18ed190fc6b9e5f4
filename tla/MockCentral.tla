----------------------------- MODULE MockCentral -----------------------------
(***************************************************************************)
(* mysticentral's mock configurations and its queue of sync conflicts, as   *)
(* the HTTP handlers change them.  Every handler runs as a task of its own:  *)
(* a task is suspended at each database call, and no handler opens a         *)
(* transaction, so two tasks interleave between any two of their calls.      *)
(*                                                                         *)
(* The proxies are the environment: each holds versions of configurations   *)
(* in its SQLite file, edits them with its own instance id, and its copies    *)
(* reach the central handlers whenever somebody posts them.                 *)
(*                                                                         *)
(* A version carries hist, the set of the edits its content contains, which  *)
(* the program does not store: it is what the version vector claims to       *)
(* summarise.  An edit is a number, used once; the UUID a central handler     *)
(* draws with Uuid::new_v4() for its bump is the number of its edit.         *)
(***************************************************************************)
EXTENDS VersionVector, FiniteSets

CONSTANTS
  Config,    \* configuration ids
  Proxy,     \* instance ids of the proxies
  Task,      \* handler tasks the server runs at a time
  Absent,    \* no row, no record, no argument
  MaxEdits,  \* bound on the edits drawn, reused, over all sites
  MaxBatch   \* bound on the configurations of one push or import

ASSUME AbsentAssumption == Absent \notin Config
ASSUME IdAssumption ==
  /\ Config \cap Proxy = {}
  /\ (Config \cup Proxy) \cap Nat = {}
ASSUME BoundAssumption == MaxEdits \in Nat /\ MaxBatch \in Nat

VARIABLES
  mocks,      \* mocks[c]: the row of table mock_configurations, or Absent
  conflicts,  \* conflicts[c]: the row of table sync_conflicts, or Absent
  task,       \* task[t]: the handler task t runs, with what it has read
  held,       \* held[p][c]: proxy p's SQLite row, or Absent
  drafts,     \* pairs <<p, v>>: an update of proxy p has made v and not saved it yet
  drawn,      \* triples <<p, c, k>>: p has used counter k for an edit of c
  reused,     \* those of them it has used for two
  edits,      \* number of edits made so far
  born        \* ids that have been given to a configuration

vars == <<mocks, conflicts, task, held, drafts, drawn, reused, edits, born>>

\* Everything a version vector may have an entry for.
Replica == Config \cup Proxy \cup Nat

\* A version whose content is made of the edits 1 .. n.
IsVersion(v, n) ==
  /\ v = [id |-> v.id, vv |-> v.vv, hist |-> v.hist]
  /\ v.id \in Config
  /\ IsVector(v.vv, Replica)
  /\ v.hist \subseteq 1 .. n

IsRow(v, n) == v = Absent \/ IsVersion(v, n)

\* A touch that records the edit and forgets the version vector.
TouchedWithoutBump(v, replica) == [v EXCEPT !.hist = v.hist \cup {edits + 1}]

\* A version as MockConfiguration::new makes it: its vector starts at its own id.
NewVersion(c) == [id |-> c, vv |-> WithInstance(c), hist |-> {edits + 1}]

\* MockConfiguration::touch, and the bump every central handler does by hand.
Touched(v, replica) ==
  [v EXCEPT !.vv = Increment(v.vv, replica), !.hist = v.hist \cup {edits + 1}]

\* A fresh UUID of the central handlers.
FreshId == edits + 1

CanEdit == edits < MaxEdits
CountEdit == edits' = edits + 1

Idle ==
  [pc |-> "idle", id |-> Absent, ver |-> Absent, row |-> Absent, seen |-> Absent,
   how |-> "none", todo |-> {}]

Become(t, fields) == task' = [task EXCEPT ![t] = fields]

\* PostgresMockRepository::save: insert, or overwrite every column, of the row
\* v.id.
SaveRow(v) == mocks' = [mocks EXCEPT ![v.id] = v]

\* Versions that exist somewhere: rows, records, proxies' copies, requests.
Live ==
  (({mocks[c] : c \in Config})
     \cup (UNION {{conflicts[c].local, conflicts[c].central} :
                    c \in {d \in Config : conflicts[d] # Absent}})
     \cup ({held[p][c] : p \in Proxy, c \in Config})
     \cup (UNION {{task[t].ver, task[t].row, task[t].seen} \cup task[t].todo : t \in Task}))
  \ {Absent}

LiveOf(c) == {v \in Live : v.id = c}

-----------------------------------------------------------------------------
Init ==
  /\ mocks = [c \in Config |-> Absent]
  /\ conflicts = [c \in Config |-> Absent]
  /\ task = [t \in Task |-> Idle]
  /\ held = [p \in Proxy |-> [c \in Config |-> Absent]]
  /\ drafts = {}
  /\ drawn = {}
  /\ reused = {}
  /\ edits = 0
  /\ born = {}

(***************************************************************************)
(* The proxies' side: management/repository.rs on the SQLite file.          *)
(***************************************************************************)
\* An edit of p gives counter k of c to its version: the next one after that of
\* the copy it edits, whether or not an earlier edit had it.
Draw(p, c, k) ==
  /\ drawn' = drawn \cup {<<p, c, k>>}
  /\ reused' = reused \cup ({<<p, c, k>>} \cap drawn)

\* LocalMockRepository::create: a new id, touched with the instance id.
LocalCreate(p, c) ==
  /\ CanEdit
  /\ c \notin born
  /\ held' = [held EXCEPT ![p][c] =
                [NewVersion(c) EXCEPT !.vv = Increment(WithInstance(c), p)]]
  /\ Draw(p, c, 1)
  /\ born' = born \cup {c}
  /\ CountEdit
  /\ UNCHANGED <<mocks, conflicts, task, drafts>>

\* LocalMockRepository::update: find, apply, touch; the save is an await later,
\* and brings back a row that was deleted meanwhile.
LocalUpdateRead(p, c) ==
  /\ CanEdit
  /\ held[p][c] # Absent
  /\ drafts' = drafts \cup {<<p, Touched(held[p][c], p)>>}
  /\ Draw(p, c, Get(held[p][c].vv, p) + 1)
  /\ CountEdit
  /\ UNCHANGED <<mocks, conflicts, task, held, born>>

LocalUpdateSave(d) ==
  /\ held' = [held EXCEPT ![d[1]][d[2].id] = d[2]]
  /\ drafts' = drafts \ {d}
  /\ UNCHANGED <<mocks, conflicts, task, drawn, reused, edits, born>>

LocalDelete(p, c) ==
  /\ held[p][c] # Absent
  /\ held' = [held EXCEPT ![p][c] = Absent]
  /\ UNCHANGED <<mocks, conflicts, task, drafts, drawn, reused, edits, born>>

\* One configuration of a pull: a row saved since the last pull, and any row after
\* a restart, whose first pull is from the epoch, replaces the copy, whatever the
\* copy holds: an edit that was not sent is overwritten, and its counter is drawn
\* again by the next one.
LocalPull(p, c) ==
  /\ mocks[c] # Absent
  /\ held' = [held EXCEPT ![p][c] = mocks[c]]
  /\ UNCHANGED <<mocks, conflicts, task, drafts, drawn, reused, edits, born>>

(***************************************************************************)
(* mysticentral: create, update, delete of /api/v1/mocks.                   *)
(***************************************************************************)
CreateMock(c) ==
  /\ CanEdit
  /\ c \notin born
  /\ SaveRow(NewVersion(c))
  /\ born' = born \cup {c}
  /\ CountEdit
  /\ UNCHANGED <<conflicts, task, held, drafts, drawn, reused>>

\* MockService::update up to its save: the row is read, a request that names
\* the version its client saw is refused when that one is concurrent with the
\* row, and the row is bumped with a fresh id.  seen is Absent for a request
\* without a version_vector.
UpdateRead(t, c, seen) ==
  /\ CanEdit
  /\ task[t] = Idle
  /\ mocks[c] # Absent
  /\ seen # Absent => ~ConcurrentWith(mocks[c].vv, seen.vv)
  /\ Become(t, [Idle EXCEPT !.pc = "save", !.id = c, !.how = "update", !.seen = seen,
                            !.ver = Touched(mocks[c], FreshId), !.row = mocks[c]])
  /\ CountEdit
  /\ UNCHANGED <<mocks, conflicts, held, drafts, drawn, reused, born>>

\* The save that ends update, and the resolutions of the public endpoint.
SaveAndReply(t) ==
  /\ task[t].pc = "save"
  /\ SaveRow(task[t].ver)
  /\ Become(t, Idle)
  /\ UNCHANGED <<conflicts, held, drafts, drawn, reused, edits, born>>

DeleteMock(c) ==
  /\ mocks[c] # Absent
  /\ mocks' = [mocks EXCEPT ![c] = Absent]
  /\ UNCHANGED <<conflicts, task, held, drafts, drawn, reused, edits, born>>

(***************************************************************************)
(* POST /api/v1/sync/push, routes.rs: for every configuration of the body,  *)
(* in the order the sender listed them, get, then record or save.           *)
(***************************************************************************)
PushStart(t, p, cs) ==
  /\ task[t] = Idle
  /\ Cardinality(cs) <= MaxBatch
  /\ \A c \in cs : held[p][c] # Absent
  /\ Become(t, [Idle EXCEPT !.pc = "push", !.todo = {held[p][c] : c \in cs}])
  /\ UNCHANGED <<mocks, conflicts, held, drafts, drawn, reused, edits, born>>

\* A comparison that only looks for a newer pushed version.
PushIsConflictIfNotNewer(row, v) == ~Dominates(v.vv, row.vv) /\ v.vv # row.vv

PushIsConflict(row, v) == ConcurrentWith(row.vv, v.vv)

\* The service answers get(v.id) with the row, or with an error: there is no
\* row, or the query failed.  Both errors lead to the save.
PushRead(t, v, fails) ==
  /\ task[t].pc = "push"
  /\ v \in task[t].todo
  /\ LET row == IF fails THEN Absent ELSE mocks[v.id]
         clash == row # Absent /\ PushIsConflict(row, v)
     IN Become(t, [task[t] EXCEPT !.pc = IF clash THEN "pushConflict" ELSE "pushSave",
                                  !.id = v.id, !.ver = v, !.row = row,
                                  !.todo = task[t].todo \ {v}])
  /\ UNCHANGED <<mocks, conflicts, held, drafts, drawn, reused, edits, born>>

\* The task after one configuration of its batch.
NextOfBatch(t, pc) ==
  Become(t, IF task[t].todo = {} THEN Idle
            ELSE [Idle EXCEPT !.pc = pc, !.todo = task[t].todo])

\* The record is written best-effort: an error of upsert is discarded.
PushUpsertConflict(t, fails) ==
  /\ task[t].pc = "pushConflict"
  /\ conflicts' = IF fails THEN conflicts
                  ELSE [conflicts EXCEPT ![task[t].id] =
                          [local |-> task[t].ver, central |-> task[t].row]]
  /\ NextOfBatch(t, "push")
  /\ UNCHANGED <<mocks, held, drafts, drawn, reused, edits, born>>

\* A failing save is logged and the batch goes on.
PushSave(t, fails) ==
  /\ task[t].pc = "pushSave"
  /\ IF fails THEN UNCHANGED mocks ELSE SaveRow(task[t].ver)
  /\ NextOfBatch(t, "push")
  /\ UNCHANGED <<conflicts, held, drafts, drawn, reused, edits, born>>

(***************************************************************************)
(* The other writers of mock_configurations.                               *)
(***************************************************************************)
\* POST /api/v1/mocks/import: configurations of an export, saved one by one
\* without a look at the rows they replace.
ImportStart(t, vs) ==
  /\ task[t] = Idle
  /\ Cardinality(vs) <= MaxBatch
  /\ Become(t, [Idle EXCEPT !.pc = "import", !.todo = vs])
  /\ UNCHANGED <<mocks, conflicts, held, drafts, drawn, reused, edits, born>>

ImportSave(t, v, fails) ==
  /\ task[t].pc = "import"
  /\ v \in task[t].todo
  /\ IF fails THEN UNCHANGED mocks ELSE SaveRow(v)
  /\ LET rest == task[t].todo \ {v}
     IN Become(t, IF rest = {} THEN Idle ELSE [task[t] EXCEPT !.todo = rest])
  /\ UNCHANGED <<conflicts, held, drafts, drawn, reused, edits, born>>

\* POST /api/v1/sync/conflicts/:id/resolve, strategy keep_local: the version in
\* the body, bumped, overwrites its row.  (keep_central only reads.)  The record
\* in sync_conflicts stays.
PublicKeepLocal(v) ==
  /\ CanEdit
  /\ SaveRow(Touched(v, FreshId))
  /\ CountEdit
  /\ UNCHANGED <<conflicts, task, held, drafts, drawn, reused, born>>

\* The same endpoint, strategy merge: the central row with the fields of the
\* body, bumped.
PublicMergeRead(t, c) ==
  /\ CanEdit
  /\ task[t] = Idle
  /\ mocks[c] # Absent
  /\ Become(t, [Idle EXCEPT !.pc = "save", !.id = c, !.how = "publicMerge",
                            !.ver = Touched(mocks[c], FreshId), !.row = mocks[c]])
  /\ CountEdit
  /\ UNCHANGED <<mocks, conflicts, held, drafts, drawn, reused, born>>

(***************************************************************************)
(* PUT /api/v1/conflicts/:config_id/resolve, handlers/conflicts.rs: read    *)
(* the record, save the resolution, delete the record.                     *)
(***************************************************************************)
\* A merge that leaves out the central side's history.
MergeLocalOnly(k, body) ==
  [body EXCEPT !.vv = Merge(body.vv, k.local.vv),
               !.hist = body.hist \cup k.local.hist \cup k.central.hist]

\* The merged configuration of the body, with both sides' history merged in.
MergeBoth(k, body) ==
  [body EXCEPT !.vv = Merge(Merge(body.vv, k.local.vv), k.central.vv),
               !.hist = body.hist \cup k.local.hist \cup k.central.hist]

\* The configuration resolve_conflict saves for the record k; merge is refused
\* unless the body's id is the record's.
Resolution(k, how, body) ==
  CASE how = "keep_local"   -> Touched(k.local, FreshId)
    [] how = "keep_central" -> k.central
    [] how = "merge"        -> Touched(MergeBoth(k, body), FreshId)

ResolveRead(t, c, how, body) ==
  /\ task[t] = Idle
  /\ conflicts[c] # Absent
  /\ how = "merge" => body.id = c
  /\ IF how = "keep_central" THEN UNCHANGED edits ELSE CanEdit /\ CountEdit
  /\ Become(t, [Idle EXCEPT !.pc = "resolveSave", !.id = c, !.how = how,
                            !.ver = Resolution(conflicts[c], how, body),
                            !.row = conflicts[c].central])
  /\ UNCHANGED <<mocks, conflicts, held, drafts, drawn, reused, born>>

ResolveSave(t) ==
  /\ task[t].pc = "resolveSave"
  /\ SaveRow(task[t].ver)
  /\ Become(t, [Idle EXCEPT !.pc = "resolveDelete", !.id = task[t].id])
  /\ UNCHANGED <<conflicts, held, drafts, drawn, reused, edits, born>>

DropConflict(c) == conflicts' = [conflicts EXCEPT ![c] = Absent]

ResolveDelete(t) ==
  /\ task[t].pc = "resolveDelete"
  /\ DropConflict(task[t].id)
  /\ Become(t, Idle)
  /\ UNCHANGED <<mocks, held, drafts, drawn, reused, edits, born>>

\* DELETE /api/v1/conflicts/:config_id.
Dismiss(c) ==
  /\ conflicts[c] # Absent
  /\ DropConflict(c)
  /\ UNCHANGED <<mocks, task, held, drafts, drawn, reused, edits, born>>

\* A database error at any other call ends its handler with an error reply.
HandlerFails(t) ==
  /\ task[t].pc \in {"save", "resolveSave", "resolveDelete"}
  /\ Become(t, Idle)
  /\ UNCHANGED <<mocks, conflicts, held, drafts, drawn, reused, edits, born>>

-----------------------------------------------------------------------------
ProxyStep ==
  \/ \E p \in Proxy, c \in Config :
       LocalCreate(p, c) \/ LocalUpdateRead(p, c) \/ LocalDelete(p, c) \/ LocalPull(p, c)
  \/ \E d \in drafts : LocalUpdateSave(d)

RequestArrives ==
  \/ \E c \in Config : CreateMock(c) \/ DeleteMock(c) \/ Dismiss(c)
  \/ \E v \in Live : PublicKeepLocal(v)
  \/ \E t \in Task :
       \/ \E c \in Config : \E seen \in LiveOf(c) \cup {Absent} : UpdateRead(t, c, seen)
       \/ \E p \in Proxy, cs \in (SUBSET Config) \ {{}} : PushStart(t, p, cs)
       \/ \E vs \in (SUBSET Live) \ {{}} : ImportStart(t, vs)
       \/ \E c \in Config : PublicMergeRead(t, c)
       \/ \E c \in Config, how \in {"keep_local", "keep_central"} :
            ResolveRead(t, c, how, Absent)
       \/ \E c \in Config, body \in Live : ResolveRead(t, c, "merge", body)

HandlerStep(t) ==
  \/ SaveAndReply(t) \/ ResolveSave(t) \/ ResolveDelete(t) \/ HandlerFails(t)
  \/ \E v \in task[t].todo, fails \in BOOLEAN :
       PushRead(t, v, fails) \/ ImportSave(t, v, fails)
  \/ \E fails \in BOOLEAN : PushUpsertConflict(t, fails) \/ PushSave(t, fails)

Next == ProxyStep \/ RequestArrives \/ \E t \in Task : HandlerStep(t)

Spec == Init /\ [][Next]_vars

-----------------------------------------------------------------------------
PC == {"idle", "save", "push", "pushConflict", "pushSave", "import",
       "resolveSave", "resolveDelete"}

TaskField == {"pc", "id", "ver", "row", "seen", "how", "todo"}

TaskOK(k, n) ==
  /\ k = [f \in TaskField |-> k[f]]
  /\ k.pc \in PC
  /\ k.pc = "idle" => k = Idle
  /\ k.how \in {"none", "update", "publicMerge", "keep_local", "keep_central", "merge"}
  /\ k.pc \in {"idle", "push", "import"} \/ k.id \in Config
  /\ IF k.pc \in {"save", "pushConflict", "pushSave", "resolveSave"}
     THEN IsVersion(k.ver, n) ELSE k.ver = Absent
  /\ IsRow(k.row, n)
  /\ k.pc = "pushConflict" => k.row # Absent
  /\ IsRow(k.seen, n)
  /\ \A v \in k.todo : IsVersion(v, n)

ConflictOK(k, n) ==
  k = Absent \/ (/\ k = [local |-> k.local, central |-> k.central]
                 /\ IsVersion(k.local, n)
                 /\ IsVersion(k.central, n))

RowsOK(rows, n) ==
  /\ rows = [c \in Config |-> rows[c]]
  /\ \A c \in Config : IsRow(rows[c], n)

ConflictsOK(records, n) ==
  /\ records = [c \in Config |-> records[c]]
  /\ \A c \in Config : ConflictOK(records[c], n)

TasksOK(tasks, n) ==
  /\ tasks = [t \in Task |-> tasks[t]]
  /\ \A t \in Task : TaskOK(tasks[t], n)

HeldOK(copies, n) ==
  /\ copies = [p \in Proxy |-> copies[p]]
  /\ \A p \in Proxy : RowsOK(copies[p], n)

DraftsOK(ds, n) == \A d \in ds : d[1] \in Proxy /\ IsVersion(d[2], n)

\* The tables hold rows, the tasks what their program point says, and no edit
\* number is used before it is drawn.
TypeOK ==
  /\ edits \in Nat
  /\ RowsOK(mocks, edits)
  /\ ConflictsOK(conflicts, edits)
  /\ TasksOK(task, edits)
  /\ HeldOK(held, edits)
  /\ DraftsOK(drafts, edits)
  /\ drawn \subseteq Proxy \X Config \X Nat
  /\ reused \subseteq drawn
  /\ born \subseteq Config

\* Every row, copy and argument is filed under the id it carries, and a conflict
\* record pairs two concurrent versions of one configuration: nothing a resolver
\* chooses from is ordered, and a resolution cannot land on another mock.
ConflictRecordsAreForks ==
  \A c \in Config : conflicts[c] # Absent =>
    /\ conflicts[c].local.id = c
    /\ conflicts[c].central.id = c
    /\ ConcurrentWith(conflicts[c].local.vv, conflicts[c].central.vv)

\* Two versions that both have reached a counter their proxy has used for two
\* edits: an update read its row before another had saved (repository.rs), or a
\* pull overwrote an edit that was not sent.  Their vectors cannot tell which of
\* the two edits each of them contains.
Confusable(a, b) ==
  \E u \in reused : a.id = u[2] /\ u[3] <= Get(a.vv, u[1]) /\ u[3] <= Get(b.vv, u[1])

\* Of two versions of a configuration, wherever they are, one dominates exactly
\* when it contains every edit of the other and more, and equal vectors mean
\* equal content, unless the two are Confusable.  Every decision of sync_push and
\* update is made on vectors alone; nothing but a proxy that uses a counter twice
\* can mislead it: no handler, failure, deletion or delivery.
VectorsTrackHistory ==
  \A a, b \in Live : a.id = b.id /\ ~Confusable(a, b) =>
    /\ Dominates(a.vv, b.vv) <=> b.hist \subseteq a.hist /\ a.hist # b.hist
    /\ a.vv = b.vv <=> a.hist = b.hist

\* The edits that leave the row of c in this step.
Lost(c) == (IF mocks[c] = Absent THEN {} ELSE mocks[c].hist) \ mocks'[c].hist

Saves(t) == task[t].pc \in {"save", "pushSave", "resolveSave"} /\ task'[t] # task[t]
            /\ mocks'[task[t].id] = task[t].ver

\* What the save of task k loses from the row it overwrites, whatever that row
\* has become since k read it: of the edits k had seen, none, unless a resolver
\* chose the other side, or a push brought a version with nothing the row had not.
LosesNothingSeen(k) ==
  \/ Lost(k.id) \cap k.row.hist = {}
  \/ k.how = "keep_local"
  \/ k.pc = "pushSave" /\ (k.ver.hist \subseteq k.row.hist \/ Confusable(k.ver, k.row))

Comparable(a, b) == a.hist \subseteq b.hist \/ b.hist \subseteq a.hist

\* An update that names the version its client saw has found no fork of the row.
SawNoFork(k) ==
  k.seen # Absent => Comparable(k.row, k.seen) \/ Confusable(k.row, k.seen)

\* A save of an update, a push or a resolution that had a row (or the central side
\* of a record) before it never drops an edit of it against an edit the sender
\* made on the side.  What it can drop is what was saved between its read and its
\* save, what a resolver means to drop, and what an old pushed version is behind.
SavesAreCausal ==
  [][\A t \in Task : Saves(t) /\ task[t].row # Absent
       => LosesNothingSeen(task[t]) /\ SawNoFork(task[t])]_vars

ResolutionAbsorbs(t) ==
  task[t].pc = "idle" /\ task'[t].how = "merge" =>
    LET k == conflicts[task'[t].id]
    IN /\ Dominates(task'[t].ver.vv, k.local.vv)
       /\ Dominates(task'[t].ver.vv, k.central.vv)

\* A merge resolution is newer than both sides of the conflict it resolves, so a
\* proxy that still holds one of them is not in conflict with the outcome.
MergeAbsorbsBothSides == [][\A t \in Task : ResolutionAbsorbs(t)]_vars

=============================================================================
