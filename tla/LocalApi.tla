------------------------------ MODULE LocalApi ------------------------------
(***************************************************************************)
(* The local management API of a proxy: the axum handlers over the SQLite    *)
(* table mock_configurations, the file import and the pulls of the sync       *)
(* client, which write the same table.  A handler awaits one statement at a   *)
(* time and opens no transaction, so the calls of several clients interleave  *)
(* between any two statements; a batch is a loop over single calls.           *)
(*                                                                         *)
(* A name or a path is a sequence of parts, since the content hash runs over   *)
(* the two without a separator.  Times are the numbers of the writes; a row     *)
(* pulled from the central service brings its own time, which may be older.    *)
(***************************************************************************)
EXTENDS VersionVector, Integers, Sequences, FiniteSets

CONSTANTS
  Id,          \* ids of configurations
  Client,      \* clients of the API, one call at a time each
  Self,        \* instance id of this proxy
  None,        \* no row, no value in a request
  Rooted,      \* the parts that start with a slash
  Creates,     \* bodies of the create calls: sequences of contents
  Updates,     \* bodies of the update calls: sequences of [id, name, path, active]
  Deletes,     \* bodies of the delete calls: sequences of ids
  Imports,     \* import files: sequences of contents with a field parses
  Pulled,      \* contents of the rows a pull brings
  Queries,     \* filters of the list calls: [path, active, source]
  MaxCalls,    \* bound on the calls made
  MaxWrites,   \* bound on the writes of the table
  MaxPulls,    \* bound on the rows pulls save
  MaxFailures  \* bound on the statements that fail

ASSUME SelfAssumption == Self \notin Id
ASSUME NoneAssumption == None \notin Id \cup Client \cup Queries
ASSUME BodiesAssumption ==
  /\ \A body \in Creates \cup Updates : Len(body) \in Nat
  /\ \A body \in Updates : \A k \in 1 .. Len(body) : body[k].id \in Id

VARIABLES
  mocks,     \* mocks[i]: the row of configuration i, or None
  calls,     \* calls[c]: the call of client c
  born,      \* the ids given to a configuration so far
  clock,     \* number of writes of the table so far
  failures,  \* number of statements that have failed
  made,      \* number of calls made
  pulls      \* number of rows pulls have saved

vars == <<mocks, calls, born, clock, failures, made, pulls>>

Rows == {i \in Id : mocks[i] # None}

\* MockConfiguration::compute_content_hash: name, path, method, rules and answer one
\* after the other, without a separator and without the active flag.
HashOf(row) == row.name \o row.path

\* MockConfiguration::touch, for this instance.
Touched(row) ==
  [row EXCEPT !.at = clock + 1, !.vv = Increment(row.vv, Self), !.hash = HashOf(row)]

\* MockConfiguration::new for a new id, with the active flag of the request.
Fresh(i, body) ==
  [name |-> body.name, path |-> body.path, active |-> body.active,
   hash |-> HashOf(body), vv |-> WithInstance(i), source |-> "local", at |-> clock + 1]

\* UpdateMockRequest over a row: a field the request names replaces the row's.
Merged(row, body) ==
  [row EXCEPT !.name = IF body.name = None THEN row.name ELSE body.name,
              !.path = IF body.path = None THEN row.path ELSE body.path,
              !.active = IF body.active = None THEN row.active ELSE body.active]

\* The checks of the handlers.  An update may empty the name, not the path.
ValidPath(path) == path # <<>> /\ path[1] \in Rooted
ValidCreate(body) == body.name # <<>> /\ ValidPath(body.path)
ValidUpdate(body) == body.path # None => ValidPath(body.path)

(***************************************************************************)
(* Calls.  item is the number of the item at hand, read the row an update     *)
(* has loaded, changed tells whether another writer has touched that row      *)
(* since.  wrote lists the items that have reached the table; for a walk,      *)
(* seen are the rows the pages have shown, there the rows that were on the     *)
(* list all the time, unchanged, and shifted tells that rows have moved up.     *)
(***************************************************************************)
Idle == [op |-> "none", body |-> <<>>, item |-> 0, read |-> None, changed |-> FALSE,
         wrote |-> <<>>, status |-> "none", query |-> None, seen |-> {}, there |-> {},
         shifted |-> FALSE]

Body(c) == calls[c].body[calls[c].item]
Working(c, op) ==
  /\ calls[c].op = op
  /\ calls[c].status = "running"
  /\ calls[c].item <= Len(calls[c].body)
Reading(c) == Working(c, "update") /\ calls[c].read = None
Saving(c)  == Working(c, "update") /\ calls[c].read # None
Deleting(c) == Working(c, "delete") \/ Working(c, "delete all")

\* A client makes a call; the handler refuses the whole of it when one item is invalid.
Called(op, body, valid) ==
  [Idle EXCEPT !.op = op, !.body = body, !.item = 1,
               !.status = IF valid THEN "running" ELSE "invalid"]

Calls(c, op, bodies, Valid(_)) ==
  /\ calls[c].status # "running"
  /\ made < MaxCalls
  /\ \E body \in bodies :
       calls' = [calls EXCEPT ![c] = Called(op, body, \A k \in 1 .. Len(body) : Valid(body[k]))]
  /\ made' = made + 1
  /\ UNCHANGED <<mocks, born, clock, failures, pulls>>

CallsCreate(c) == Calls(c, "create", Creates, ValidCreate)
CallsUpdate(c) == Calls(c, "update", Updates, ValidUpdate)
CallsDelete(c) == Calls(c, "delete", {ids \in Deletes : Len(ids) = 1}, LAMBDA id : TRUE)
CallsDeleteAll(c) == Calls(c, "delete all", Deletes, LAMBDA id : TRUE)
CallsImport(c) == Calls(c, "import", Imports, LAMBDA entry : TRUE)

\* path LIKE '%p%'.
Contains(path, p) ==
  \E k \in 0 .. Len(path) - Len(p) : SubSeq(path, k + 1, k + Len(p)) = p

\* MockFilter as the WHERE clause of find_all.
Matches(row, query) ==
  /\ query.path # None => Contains(row.path, query.path)
  /\ query.active # None => row.active = query.active
  /\ query.source # None => row.source = query.source

Found(query) == {i \in Rows : Matches(mocks[i], query)}

\* A write of row i takes it off a list of the query or moves it back in it.
Withdraws(i, row, query) ==
  /\ query # None
  /\ i \in Found(query)
  /\ row # None => ~Matches(row, query) \/ row.at < mocks[i].at

\* What the other calls under way know of a write of row i: an update that has read it,
\* and a walk, for which the row is no longer the one it was and, if it leaves the list
\* or moves back, the rows after it have moved up.
Noticed(c, i, row) ==
  [d \in Client |->
     IF d = c THEN calls[d]
     ELSE [calls[d] EXCEPT
             !.changed = @ \/ (Saving(d) /\ Body(d).id = i),
             !.there = @ \ {i},
             !.shifted = @ \/ Withdraws(i, row, calls[d].query)]]

\* The item at hand has reached the table: the loop goes on to the next one.
Next1(call) ==
  [call EXCEPT !.item = @ + 1, !.read = None, !.changed = FALSE,
               !.wrote = Append(@, call.item),
               !.status = IF call.item = Len(call.body) THEN "ok" ELSE "running"]

\* The loop leaves the item out.
Skipped(call) == [Next1(call) EXCEPT !.wrote = call.wrote]

Write(c, i, row, call) ==
  /\ clock < MaxWrites
  /\ mocks' = [mocks EXCEPT ![i] = row]
  /\ clock' = clock + 1
  /\ calls' = [Noticed(c, i, row) EXCEPT ![c] = call]
  /\ UNCHANGED <<failures, made, pulls>>

\* An empty batch returns at once.
AnswersEmpty(c) ==
  /\ calls[c].status = "running"
  /\ calls[c].op # "walk"
  /\ calls[c].body = <<>>
  /\ calls' = [calls EXCEPT ![c].status = "ok"]
  /\ UNCHANGED <<mocks, born, clock, failures, made, pulls>>

\* LocalMockRepository::create: a configuration of its own id, touched and saved.
CreateSaves(c) ==
  /\ Working(c, "create")
  /\ \E i \in Id \ born :
       /\ Write(c, i, Touched(Fresh(i, Body(c))), Next1(calls[c]))
       /\ born' = born \cup {i}

\* A row that is not there is passed over by the loop.
UpdateReadsOn(c) ==
  /\ Reading(c)
  /\ LET row == mocks[Body(c).id] IN
       calls' = [calls EXCEPT ![c] =
                   IF row = None THEN Skipped(@) ELSE [@ EXCEPT !.read = row]]
  /\ UNCHANGED <<mocks, born, clock, failures, made, pulls>>

\* LocalMockRepository::update, the read: a missing row ends the call with a 404.
UpdateReads(c) ==
  /\ Reading(c)
  /\ LET row == mocks[Body(c).id] IN
       calls' = [calls EXCEPT ![c] =
                   IF row = None THEN [@ EXCEPT !.status = "not found"]
                   ELSE [@ EXCEPT !.read = row]]
  /\ UNCHANGED <<mocks, born, clock, failures, made, pulls>>

\* A save of the request over the row a first pass over the batch has read.
UpdateSavesFirstRead(c) ==
  /\ Saving(c)
  /\ Write(c, Body(c).id, Touched(Merged(calls[c].read, Body(c))),
           [Next1(calls[c]) EXCEPT !.read =
              IF calls[c].item < Len(calls[c].body)
                 /\ calls[c].body[calls[c].item + 1].id = Body(c).id
              THEN calls[c].read ELSE None])
  /\ UNCHANGED born

\* LocalMockRepository::update, the save: the fields of the request over the row that
\* was read, inserted again when it has gone in between (ON CONFLICT DO UPDATE).
UpdateSaves(c) ==
  /\ Saving(c)
  /\ Write(c, Body(c).id, Touched(Merged(calls[c].read, Body(c))), Next1(calls[c]))
  /\ UNCHANGED born

\* LocalMockRepository::delete: a single call of a missing row is a 404, a batch counts.
Erases(c) ==
  /\ Deleting(c)
  /\ mocks[Body(c)] # None
  /\ Write(c, Body(c), None, Next1(calls[c]))
  /\ UNCHANGED born

FindsNothing(c) ==
  /\ Deleting(c)
  /\ mocks[Body(c)] = None
  /\ calls' = [calls EXCEPT ![c] = IF @.op = "delete" THEN [@ EXCEPT !.status = "not found"]
                                   ELSE Skipped(@)]
  /\ UNCHANGED <<mocks, born, clock, failures, made, pulls>>

\* import_from_file: an entry becomes a configuration of its own id, not touched and
\* its path not checked; one whose method does not parse is left out.
ImportSaves(c) ==
  /\ Working(c, "import")
  /\ Body(c).parses
  /\ \E i \in Id \ born :
       /\ Write(c, i, Fresh(i, Body(c)), Next1(calls[c]))
       /\ born' = born \cup {i}

ImportSkips(c) ==
  /\ Working(c, "import")
  /\ ~Body(c).parses
  /\ calls' = [calls EXCEPT ![c] = Skipped(@)]
  /\ UNCHANGED <<mocks, born, clock, failures, made, pulls>>

\* A statement fails: the call ends with a 500 and the rest of its items is not tried;
\* an import goes on with the next entry.
StatementFails(c) ==
  /\ failures < MaxFailures
  /\ \/ calls[c].op \in {"create", "update", "delete", "delete all"} /\ Working(c, calls[c].op)
     \/ Working(c, "import") /\ Body(c).parses
     \/ calls[c].op = "walk" /\ calls[c].status = "running"
  /\ failures' = failures + 1
  /\ calls' = [calls EXCEPT ![c] = IF calls[c].op = "import" THEN Skipped(@)
                                   ELSE [@ EXCEPT !.status = "failed"]]
  /\ UNCHANGED <<mocks, born, clock, made, pulls>>

\* The sync client saves a row of the central service over what is there, with the
\* time of the central row.
PullSaves(i) ==
  /\ clock < MaxWrites
  /\ pulls < MaxPulls
  /\ \E body \in Pulled, at \in {clock + 1, -(clock + 1)} :
       LET row == [Fresh(i, body) EXCEPT !.source = "central", !.at = at] IN
         /\ mocks' = [mocks EXCEPT ![i] = row]
         /\ calls' = Noticed(None, i, row)
  /\ clock' = clock + 1
  /\ pulls' = pulls + 1
  /\ born' = born \cup {i}
  /\ UNCHANGED <<failures, made>>

-----------------------------------------------------------------------------
(* Lists.  A client walks a list page by page: limit 1, offset 0, 1, ...    *)

\* Rows listed from the one changed longest ago.
OldestFirst(i, query) ==
  Cardinality({j \in Found(query) : mocks[j].at < mocks[i].at})

PageOldestFirst(query, limit, offset) ==
  {i \in Found(query) : OldestFirst(i, query) \in offset .. offset + limit - 1}

\* ORDER BY updated_at DESC: how many rows come before row i.
NewestFirst(i, query) ==
  Cardinality({j \in Found(query) : mocks[j].at > mocks[i].at})

\* LIMIT limit OFFSET offset over the rows newest first.
Page(query, limit, offset) ==
  {i \in Found(query) : NewestFirst(i, query) \in offset .. offset + limit - 1}

\* list_mocks, the first call of a walk.  An offset without a limit is no SQL SQLite
\* takes, and the call ends with a 500.
CallsList(c) ==
  /\ calls[c].status # "running"
  /\ made < MaxCalls
  /\ \E query \in Queries, limited \in BOOLEAN :
       calls' = [calls EXCEPT ![c] =
                   [Idle EXCEPT !.op = "walk", !.query = query, !.there = Found(query),
                                !.status = IF limited THEN "running" ELSE "failed"]]
  /\ made' = made + 1
  /\ UNCHANGED <<mocks, born, clock, failures, pulls>>

\* One page; the statement that counts reads the whole table, whatever the filter, and
\* changes nothing here.  The walk ends with the first empty page.
ListPage(c) ==
  /\ calls[c].op = "walk"
  /\ calls[c].status = "running"
  /\ LET page == Page(calls[c].query, 1, calls[c].item) IN
       calls' = [calls EXCEPT ![c].seen = @ \cup page,
                              ![c].item = @ + 1,
                              ![c].status = IF page = {} THEN "ok" ELSE "running"]
  /\ UNCHANGED <<mocks, born, clock, failures, made, pulls>>

-----------------------------------------------------------------------------
Init ==
  /\ mocks = [i \in Id |-> None]
  /\ calls = [c \in Client |-> Idle]
  /\ born = {}
  /\ clock = 0
  /\ failures = 0
  /\ made = 0
  /\ pulls = 0

Next ==
  \/ \E c \in Client :
       \/ CallsCreate(c) \/ CallsUpdate(c) \/ CallsDelete(c) \/ CallsDeleteAll(c)
       \/ CallsImport(c) \/ CallsList(c)
       \/ AnswersEmpty(c) \/ CreateSaves(c) \/ UpdateReads(c) \/ UpdateSaves(c)
       \/ Erases(c) \/ FindsNothing(c) \/ ImportSaves(c) \/ ImportSkips(c)
       \/ StatementFails(c) \/ ListPage(c)
  \/ \E i \in Id : PullSaves(i)

Spec == Init /\ [][Next]_vars

-----------------------------------------------------------------------------
\* An update changes the fields its request names and no other, and does not bring a
\* configuration back, unless another writer came between its read and its save: also
\* when one batch names a configuration twice (repository.rs, update and batch_update).
UpdatesKeepTheRest ==
  [][\A c \in Client :
       (Saving(c) /\ calls'[c].wrote # calls[c].wrote /\ ~calls[c].changed)
         => LET i == Body(c).id IN
            /\ mocks[i] # None
            /\ Body(c).name = None => mocks'[i].name = mocks[i].name
            /\ Body(c).path = None => mocks'[i].path = mocks[i].path
            /\ Body(c).active = None => mocks'[i].active = mocks[i].active
            /\ mocks'[i].vv[Self] = Get(mocks[i].vv, Self) + 1]_vars

\* A batch that ends in an error has applied the items before the failing one and none
\* after it, and one that is answered has applied them all: the loops of batch_create
\* and batch_update leave at the first error, and a refused call has applied nothing.
BatchesStopAtTheFailure ==
  \A c \in Client : LET call == calls[c] IN
    call.op \in {"create", "update"} =>
      /\ call.wrote = [k \in 1 .. Len(call.wrote) |-> k]
      /\ call.status = "ok" => Len(call.wrote) = Len(call.body)
      /\ call.status \in {"not found", "failed"} => Len(call.wrote) < Len(call.body)
      /\ call.status = "invalid" => call.wrote = <<>>

\* A client that walks a list page by page sees every row that was on it when the walk
\* began and was not written since, unless some other row has left the list or moved
\* back in it meanwhile, as a delete, a deactivation or a pull of an older row does:
\* creates and updates put their row in front, so that the rows not yet seen only move
\* away from the pages already read (find_all, ORDER BY updated_at DESC).
WalksMissNoRow ==
  \A c \in Client :
    (calls[c].op = "walk" /\ calls[c].status = "ok" /\ ~calls[c].shifted)
      => calls[c].there \subseteq calls[c].seen
=============================================================================
