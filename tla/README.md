# MystiProxy in TLA+

MystiProxy is an HTTP/TCP proxy with a mock engine (`src/mystiproxy`), a
central service that stores the mock configurations of a team and looks after
the proxies that use them (`src/mysticentral`), the types the two share
(`src/mysti-common`) and a web console (`src/frontend`).  This directory models
the parts whose correctness depends on the order in which things happen (what
two requests do to one row, what is left when a task fails half way, who closes
which socket, what a timer cuts short) and the algorithms a request is served
by (ranges, locations, conditions, rewrites, address rules).

Contents: 1 inventory, 2 modules, 3 runs, 4 bounds, 5 fairness, 6 histories and
reservations, 7 proofs, 8 disagreements with the documents, 9 not modelled,
10 plan.

## 1 Inventory

### The central service

One process (axum on tokio) in front of one PostgreSQL database.  Every request
is a task; a handler is suspended at each database call and **no handler opens
a transaction**, so two handlers interleave between any two statements.  All
state is in tables; a restart loses requests, nothing else.

| component | state | operations | what is hard, what makes it correct |
|---|---|---|---|
| mock configurations and conflicts (`handlers/routes.rs`, `handlers/conflicts.rs`, `services/mock_service.rs`, `services/{postgres,conflict}_repository.rs`) | `mock_configurations`, `sync_conflicts` | create, update, delete, import, `sync_push`, `sync_pull`, resolve (two APIs), dismiss | get and save are separate calls; an error of get counts as "no row"; a resolution acts on the record, not on the row.  Correct: versions are compared rightly, a record pairs concurrent versions, a resolution is newer than both |
| version vectors (`mysti-common/src/models.rs`) | in each configuration | increment, merge, dominates, concurrent, get | comparison is on maps: a missing entry and a zero entry differ.  Correct: a strict partial order, bumps and merges go up |
| accounts (`handlers/{users,auth}.rs`, `middleware/auth.rs`, `services/{user_repository,bootstrap}.rs`) | `users` | authenticate, create, update, delete, change own password, bootstrap admin | the actor's row is a copy from the middleware; find and UPDATE are two statements.  Correct: an admin remains, deleted users stay deleted, nobody's password is set by another |
| instances and push (`services/{instance_service,instance_repository,push_service}.rs`) | `mystiproxy_instances` | register, heartbeat, unregister, push to one, push to all | look-up then insert without UNIQUE; heartbeat is read then upsert; a push waits for the instance.  Correct: one instance per name, a push ends |
| settings (`handlers/settings.rs`, `services/settings_repository.rs`) | the row of `system_settings` | get, patch | read, then write of all fields.  Correct: a patch touches only what it names |
| environments (`services/environment_*.rs`) | `environments` | create (from a template), update, delete | read, then upsert of the whole row, which brings a deleted row back; foreign key to the template without ON DELETE.  Correct: an update touches only what it names, a copy keeps its template |
| TLS, certificate reloader, websocket hub, conflict service in memory, sync service, schema | | | start-up, plumbing, code no handler reaches |

### The proxy

One tokio process; a configuration names engines, each a listener with a task
per connection.

| component | state | operations | what is hard, what makes it correct |
|---|---|---|---|
| sync client (`management/sync.rs`) | `SyncStatus` in a RwLock, bounded offline queue, `last_sync` | `start`, periodic sync, queue consumer, `push`, `force_sync`, `pull_configs` | a status guard is held across an await; a failed registration ends `start` for good; queued and direct operations race.  Correct: every call returns, the queue drains, nothing is sent twice, the client reconnects, the watermark misses nothing |
| local mocks and management API (`management/{repository,handlers}.rs`) | SQLite rows | create, update, delete, list, batches, file import, save of a pull | find, touch and save with awaits between; batches without a transaction; pages by offset.  Correct: a batch stops at its failure, an update keeps what it does not name, a walk misses no row |
| hot reload (`config/{loader,watcher,manager}.rs`, `main.rs`) | signal slot, current configuration, history, event channel | edit, signal, debounce, load, update, rollback | dropped signals, half-written files, updates that interleave.  Correct: the last content is loaded, each announced change starts where the last ended |
| HTTP engine (`http/{server,handler,client,websocket,auth}.rs`) | one connection: request, handler, socket to the target, two timers | authenticate, choose a location, mock, static, proxy, upgrade | the same `request_timeout` runs twice; errors return early; upgrades take their own path.  Correct: untrusted requests get a 401, counts match answers, silence ends, a bridge joins two sides that agreed |
| tunnels (`proxy/forward.rs`, `http/{proxy,websocket}.rs`, `proxy/unix.rs`) | two sockets, two copy loops | read, write, end of stream, error, timeout | five loops, three of which do not pass on an end of stream.  Correct: streams are intact, Ok means delivered, a finished tunnel is released |
| forward proxy, upstream CONNECT, NTLM (`http/{proxy,upstream,ntlm}.rs`) | one connection, what of its stream was read | read the head, check credentials and lists, connect, two NTLM rounds, relay | one read is taken for the whole head or answer; a message's lengths are the upstream's.  Correct: only admitted clients reach targets, the tunnel loses only what came early, an acceptor's connection settles |
| static files (`http/static_files.rs`) | a request between four system calls | resolve, check, stat, open and read | the tree changes between the calls; unsigned arithmetic of ranges.  Correct: the range served is the range asked, the file served is the one the URI names |
| locations and gateway (`router/mod.rs`, `gateway.rs`, `http/handler.rs`) | none | match, remaining path, target URI | four kinds of patterns over text.  Correct: matches are of whole names, the rest of the path is kept |
| mock engine (`mock/*.rs`, `http/handler.rs`) | none | conditions, templates | two decoders for one query.  Correct: a mock shows the value it was chosen for |
| rewriting (`http/{header,body}.rs`) | none | header actions, JSON actions | order of a HashMap; a failing action leaves what it did.  Correct: in any order the engine's actions come after the location's, and a header is as one of its own leaves it; only the named path changes |
| address filter (`ip_filter.rs`) | the rules of an engine | parse, ask | prefixes and shifts at their limits.  Correct: a peer is served if the rules say so |
| start and validation (`main.rs`, `engine.rs`, `config/{mod,validation}`, `management/{mod,db}.rs`) | engines, addresses, database files | load, validate, migrate, start each engine, bind, end, start again | one of several fails; killed in a migration; two judges of one configuration.  Correct: whole schemas, every startable engine runs, what passes the validation starts |
| TLS (`tls/mod.rs`) | | load files, build rustls configurations | only what the start asks of it |

### Who talks to whom

Proxies register with the central service and send heartbeats (`Fleet`), pull
mocks by date (`IncrementalPull`) and push them with version vectors
(`SyncClient`, `MockCentral`).  A developer edits the proxy's own rows through
its management API (`LocalApi`), which the pulls write too.  The console calls
the central service with a user's token (`Accounts`) to edit mocks, resolve
conflicts, push to proxies and edit settings; environments need no token.  `main` reads the configuration
and starts the engines (`Startup`); a client is a connection of an engine
(`DataPath`) that its filter lets in (`AddressFilter`), its requests are served
by `Serving`, and the ways to another host are `ForwardProxy`.  The
configuration is reloaded while running (`ConfigReload`); engines that run do
not follow a reload.

PROJECT.json lists every component with its sources, and the hazards, each at
its line with the properties that cover it.

## 2 Modules

| module | models | composed from |
|---|---|---|
| `VersionVector` | the vectors and their order | |
| `MockCentral` | the handlers on mocks and conflicts; the proxies as environment | extends `VersionVector` |
| `SyncClient` | the tasks that share one client | |
| `Outbox` | what an offline queue promises, abstractly | instantiated by `SyncClient` (refinement) |
| `IncrementalPull` | the pull by `last_sync`, over a table that changes meanwhile | |
| `LocalApi` | the management API over the SQLite rows, with a pull writing them | extends `VersionVector` |
| `ConfigReload` | file, notify thread, watcher task, manager | |
| `AddressFilter`, `EngineConfig` | the rules of a filter; what validation and start ask of an engine | `EngineConfig` extends `AddressFilter` |
| `Startup` | main, its engines, addresses and databases, over several starts | extends `EngineConfig` |
| `Tunnel` | the five copy loops, by their `kind` | |
| `HttpEngine` | one connection of an HTTP engine | |
| `DataPath` | a connection of any engine; an upgrade starts a tunnel | extends `HttpEngine`, instantiates `Tunnel` |
| `Ntlm` | the layout of the three messages | |
| `ForwardProxy` | a connection through one of the four doors to another host | extends `Ntlm` |
| `Texts` | a text and its parts | |
| `Ranges`, `StaticFiles` | range arithmetic; the static service over a tree that changes | `StaticFiles` extends `Ranges`, `Texts` |
| `Locations`, `JsonPaths`, `MockRules`, `Rewriting` | the other algorithms of a request | the last two extend `JsonPaths`, `MockRules` also `Texts` |
| `Serving` | a request from its location to its file, mock or forwarded form | extends `Locations`, `MockRules`, `Rewriting`, `StaticFiles` |
| `Accounts`, `Fleet`, `Settings`, `Environments` | the users, the instances, the settings, the environments | |
| `Console` | the process that serves the four, and its restarts | extends the four |
| `MockCentral_proofs`, `LocalApi_proofs`, `Startup_proofs`, `DataPath_proofs`, `Console_proofs`, `Serving_proofs` | theorems | each extends the module of its name |
| `Sync_proofs` | theorems about the two halves of the synchronisation | extends `IncrementalPull`, `SyncClient` |
| `Proxy_proofs` | theorems about the forward engine and the reload | extends `ForwardProxy`, `ConfigReload` |

The pattern is the same in all of them.  **One action is the code between two
awaits that matter**: a database statement, a lock, a socket read or write, a
timer.  A handler with two statements is two actions, and what it carries from
one to the other is a record (`task[t]`, `request[t]`, `call[c]`, `calls[c]`,
`edit[e]`, `visit[v]`, `puller[p]`, `update[u]`).  Failures are actions (`HandlerFails`,
`Ends`, `CallEnds`, `VisitEnds`, `PullFails`, `PumpReadFails`, `StatementFails`,
`EngineFails`) where the code has an early return.

* `MockCentral`.  A version is its id, its vector and `hist`, the set of edits
  its content contains.  The program does not store `hist`; it is what the
  vector claims to summarise, and the properties compare the two.  Fresh UUIDs
  are edit numbers.  `PushRead`/`PushUpsertConflict`/`PushSave` are the three
  statements of `sync_push`, for each configuration of the batch in any order;
  `fails` is the error the code swallows.  Proxies create, edit, delete and
  pull rows (`LocalCreate` … `LocalPull`), and whatever version exists may be
  posted.  Content, names, dates and teams are left out; so is the answer.
* `SyncClient`.  `guarded` is the write guard that
  `register_with_central` holds across its request: readers wait for it.
  `line` is the mpsc channel followed by its blocked senders.  The answers are
  the code's branches: 2xx, 409, another status, an error.
* `IncrementalPull`.  A row is a version number and two dates.  `Tick` is the
  clock, `Skew` the difference of the clocks.  A pull reads the page, filters by
  date, saves row by row and then sets `last_sync`, each a step.
* `LocalApi`.  A call is an operation with its body and the item its loop has
  come to.  `UpdateReads` and `UpdateSaves` are the two statements of an
  update; a list is walked page by page (`ListPage`), ordered by the time of the
  last write, which a pull brings from elsewhere.  `changed`, `there` and
  `shifted` are histories (section 6).
* `ConfigReload`.  A file has one of the configurations or cannot be parsed.
  `signal` is the slot of the channel of capacity 1.  `update_config` is four
  steps: read, write, snapshot, event.
* `AddressFilter`.  Addresses are numbers of `V4Bits` or `V6Bits` bits; the
  code widens both to one word and shifts, and so does `Contains`.  `Covers` is
  the definition by networks it is compared with.
* `EngineConfig`.  `Validates` is `validate_engine_config`; `Builds` and
  `Bindable` are what the constructors and the listener ask.  A pattern, a file
  or an address is one of the kinds the two tell apart.
* `Startup`.  `Begins` takes the next engine of the HashMap, `Opens`,
  `Migrates`, `Records` and `SpawnsApi` are its management module, then
  `EngineStarts`, `EngineFails` or `ForwardSpawns`; a forward engine, the API and
  the metrics server bind in tasks of their own.  `Ends` is any end of the
  process, at any step.  `holder` is who holds an address, or that the system refuses
  it (`Outside`); the file of a Unix socket stays.
* `Tunnel`.  Bytes are numbered; reads and writes take any number of them.
  `splice` is `forward_bidirectional`, `timed` its variant with a timeout,
  `connect` the forward proxy's CONNECT, `uds` the Unix engine, `bridge` the
  websocket.  Only the last two shut the write half on an end of stream.
* `HttpEngine`.  `connDue` is the server's timer over the connection, `stepDue`
  the handler's over a request.  `DataPath` joins it with `Tunnel`: its `Switches` is the
  handshake with a WebSocket target, which drops what came behind the head.  `Returns` is every return of the handler with
  a response and counts it; `HandlerFails` is the `?` that does not.
* `ForwardProxy`.  A stream is the lines of a head and then numbered bytes;
  `arrived` counts what is at the socket, `taken` what has been read of it.
  `HeadRead` is the one read a head is taken from, `Granted`, `Challenged` and
  `Denied` the one read of an upstream's answer.  The doors differ in what they
  check and in which timers run.
* `Serving`.  `Routes` is the loop of `handler.rs` over the locations; a static
  one then goes through `Resolves`, `Checks`, `Sizes` and `Reads` of
  `StaticFiles`, between which the tree may change (`Rearranges`); a mock is
  answered; anything else is rewritten and sent.  `TransformsHeaders`,
  `MapsPath`, `AnswersMock` and `AppliesRule` are calls of the library parts the
  binary itself does not use.  A path is a sequence of characters and escapes,
  because the properties are about where names begin and end; a JSON value is
  its type, fields and elements.  Each property holds the character-level
  algorithm against a reading name by name or path by path.
* `Accounts`, `Fleet`, `Settings`.  See the comments there; the rows keep the
  columns the properties need (role and password, name and push outcome, all
  fields).
* `Environments`.  A request is its statements (`FindsTemplate`,
  `InsertsEnvironment`; `FindsEnvironment`, `SavesEnvironment`;
  `RemovesEnvironment`).  What it wants of a row is chosen where the service
  first uses it, as in `Settings`: no guard looks at it before.  The API marks
  no environment as a template, so the templates are those somebody has marked
  in the database (`Templates`).  The name is one of the parts a request may
  name, and only an empty one is refused; mocks whose environment is deleted
  lose it by the table, which nothing modelled reads.

`SyncClient` and `ConfigReload` name their Init, Next and Spec after themselves
(`ClientSpec`, `ReloadSpec`), so that a module of theorems can extend them
beside another.

The correspondence definition by definition is the `map` of PROJECT.json.

## 3 Runs

| run | question | result |
|---|---|---|
| `central` | Do vectors summarise history (`VectorsTrackHistory`), do records pair forks (`ConflictRecordsAreForks`), are saves causal (`SavesAreCausal`), are merges newer (`MergeAbsorbsBothSides`)? | yes; the first and the third unless a proxy has used a counter twice; 2,123,187 states |
| `sync_client` | Is the client an outbox (`KeepsOutboxPromise`, the refinement)?  Do calls return, does the queue drain, does it reconnect? | yes, with the reservation of a failed registration; without a sync interval it does not reconnect; 63,770 |
| `incremental_pull` | Is what the watermark has passed the proxy's copy (`WatermarkMissesNothingElse`)? | yes, but for three kinds of rows (`excused`); 652,488 |
| `config_reload` | Is the last content loaded (`LastEditIsLoaded`), do events chain (`ChangesChain`)? | the first always, the second unless updates overlapped; 160,428 |
| `data_path` | Counting (`CountsMatchAnswers`), streams (`StreamsAreIntact`, `OkMeansDelivered`), timers and ends (`SilenceIsBounded`, `FinishedTunnelsEnd`) of a connection of each engine | yes; what came in one read with the 101 of a WebSocket target is lost; 53,743 |
| `console` | Accounts, instances, settings and environments under three interleaved requests, restarts and a bootstrap that may fail; `EditsKeepTheRest` is about the last two | yes, with reservations where a request commits on an old copy; 719,756 |
| `forward_proxy` | Who reaches which target (`OnlyAdmittedReachTargets`), what a tunnel carries (`TunnelsLoseOnlyWhatCameEarly`), the NTLM fields (`NtlmFieldsFit`), and whether a connection settles (`AcceptorSettles`) | yes; a tunnel loses what arrived with the CONNECT or with the upstream's answer; 555,646 |
| `serving` | Ranges, static files, locations, the gateway, mocks, headers and JSON rewrites, each against its reference reading | yes, but for the awkward inputs each property names; 181,708 |
| `management` | Batches that fail in the middle (`BatchesStopAtTheFailure`), walks over pages (`WalksMissNoRow`), updates (`UpdatesKeepTheRest`) | yes, with the reservation of other writers; 880,117 |
| `startup` | Migrations and crashes (`SchemasAreWhole`), filters (`FiltersFollowTheirRules`), validation against start (`ValidEnginesOnlyMissTheirAddress`), one failing engine (`StartableEnginesRun`) | yes, but for `::/0` and three gaps of the validation (`PassesUnbuilt`); 347,990 |
| `lockout` | Can the last administrator go? | yes: two demote each other |
| `forward_body` | Does a target get the body of a plain request? | no: it lacks two bytes at the front and all that came later |

In a passing run each property has a mutant in PROJECT.json, a plausible bug of
the code that makes the run fail: a forgotten bump, a comparison that forgets
missing entries, a guard leaked on an early return, a retry that delivers
twice, a watermark moved after a failed save, an end of stream that is not
passed on, an upsert instead of an update, a batch that goes on after its
failure, an allow list asked before the deny list, a version recorded before the
migration is done, an answer awaited under no timer.  The definitions of the
mutants stand beside the ones they replace, each with a sentence that says what
it is.

## 4 Bounds, and why they are enough

Each bound is a constant with a guard.

* `central`: one configuration, two proxies, one multi-step handler, four edits.
  A fork and its resolution take four (create, edit on each side, the
  resolution's bump), and so does a counter used twice that meets itself in the
  central service; the handlers of one statement interleave with the one
  that is suspended, and of two suspended ones the type invariant,
  `ConflictRecordsAreForks` and `MergeAbsorbsBothSides` are theorems, for any
  number of them (section 7).  Versions of different configurations never meet:
  every handler works by id.
* `sync_client`: two operations, two callers, a queue of one and two changes of
  the central service between up and down: one caller blocks on a full queue
  while another pushes directly, and an outage begins and ends around it.  The
  client has a sync interval or is manual only.
* `incremental_pull`: two rows, a page of one, two pullers, a skew of one: a row
  beyond the page, overlapping pulls, and a clock behind.  Here no run stops
  early: the deadlock check is on.
* `config_reload`: two valid and one invalid configuration, a history of two,
  two updaters.  A rollback needs two snapshots, and the limit drops one at the
  third.
* `data_path`: two requests on one connection (an upgrade, or a 401, after an
  answer), two bytes each way (one read, one in the buffer), of which none to two
  come in one read with a 101.
* `console`: three requests in all, two at a time of each kind, three user ids,
  two instances with one name, two fields with two values, one template and one
  other environment with two parts, one of which a copy inherits.  A lockout is two
  demotions after a creation; a resurrection or a lost update is two requests on
  one row; `ListLimit` stands for the 20 of the query.  Of the roles only
  "admin" matters to the handlers modelled, and "editor" stands for the others.
* `forward_proxy`: a host on each list, on both and on none; six challenges, at
  and beyond every limit the parser checks; three bytes after a head, so that
  some come with it, some later and one is under way.  Nothing repeats on a
  connection: it has one head, one handshake and one tunnel or answer.
* `serving`: words of 16 values, so that files of 0 to 3 bytes and ranges
  around them reach the wrap at zero; builds with and without overflow checks;
  one change of the tree, between any two steps, to one where a file is cut, is
  gone, or everything but the root is.  An escape stands for a character or a byte,
  with what each of the two decoders makes of it (`AsChars`, `AsUtf8`), and `NotWords` for
  the characters that are no `\w`.  The
  requests, mappings, rules and sets of header actions are lists in
  `MCServing`; each has the ordinary case, every branch, and the inputs on which
  a branch is entered by one character.
* `management`: three ids, two clients, three calls of at most two items, four
  writes, one row pulled, one statement that fails: a second writer between the
  two statements of an update, a failure at either item of a batch, a row that
  moves between two pages.
* `startup`: fifteen engines (every type, each rule of validation broken once,
  filters at the limits of their prefixes), alone or beside one of four, two TCP
  addresses and that of the metrics server, a Unix socket, no address taken from outside
  or one of them (two held by another program, two refused by the system, as a path without
  its directory is; either stays so over both starts), one database with two
  statements in its migration, two starts.  Addresses have 2 and 3 bits instead
  of 32 and 128: the arithmetic depends on the shift being 0, the width, or
  between, and all three occur for both families.

Symmetry is used for proxies, tasks, configurations, pullers and clients in
runs without liveness properties.

## 5 Fairness

Only what the runtime does of itself is fair; nothing a person, a client, a
target or another service does ever is.

* `SyncClient`: tokio runs a task that can run, the interval ticks, and
  a request ends within the client's 30 s.  Calls and the end of an outage are
  not fair: `ReconnectsAfterOutages` assumes the latter in its hypothesis.  With
  `sync_interval_secs` 0 no periodic task is spawned (`sync.rs:132`), and the property
  does not speak of such a client: after a `force_sync` that failed it is Syncing until
  somebody calls the next.
* `ConfigReload`: the notify thread delivers, and the watcher and the spawned
  updates are polled.  `main` sets up the watch (`WatchStarts`).
* `DataPath`: pumps that can read or write do, timers expire, a response that
  is ready is written, a closed client is noticed.  A peer need not send,
  finish or leave, a target need not answer.
* `Console`: the database answers the statements about instances, if with an
  error, and the push client's three seconds pass.
* `ForwardProxy`: the acceptor's three timers (for the head, the connection and
  the answer) expire.  Clients, targets and upstreams need not do anything, and
  the doors without a timer have no fairness: `AcceptorSettles` is about the
  acceptor only.
* `Startup`: `main` and the tasks it has spawned go on.  Nothing makes the
  process end or a database fail.

`CHECK_DEADLOCK FALSE` stands where the system may stop: all bounded work done,
a tunnel over, a request answered.  `IncrementalPull` never stops.

## 6 Histories and reservations

Where the code keeps a promise only as long as no read is outdated, the model
has a history variable that says when one was, and the property is stated with
that reservation; the run then shows that there is **no other way** to break
it.  The history variables are `raced` (a request committed although its
actor's or its target's role had changed since it read it), `mixed` (a fleet
call wrote a row, or a name, that had changed since), `late` (the settings, or the
environment, had changed since), `overlapped` (two updates of the manager were between their
read and their event), `excused` (a row was saved during a pull, dated by a
clock behind, or beyond the page), `missed` (the file was edited before the
watch), `changed` (another writer came between an update's read and its save),
`shifted` (a row left a list, or moved back in it, during a walk), `eager` and
`cut` (the client sent bytes beyond its head before the answer; the read that
was taken for the head ended within it), `reused` (a proxy gave a counter to a
second edit of a configuration), and `lost` (how many bytes of a side were read and
dropped before its tunnel was there).  No guard of an
action reads one of them.

In `Serving` the reservations are about inputs instead: `StopsWithinNames`,
`AwkwardMapping`, `AwkwardPath`, `AwkwardQuery` and `AwkwardKey` say
for which configurations or requests the code departs from the reading its
property states, and for all others in the run it does not.  They are the facts
of section 8 in precise form: `OpenEnded` includes the empty pattern, `AwkwardPath` a root with
"." or ".." in it or an empty one, `AwkwardKey` an empty part, `NamesAsked` the slash that a
PrefixRegex location loses, and `ParametersAreNames` leaves out a parameter that has
letters beside it.  `PassesUnbuilt` does the same for the validation.

Two properties of the console need no reservation, and that is their point:
an UPDATE never brings a deleted user back, and an administrator's write of a
whole user never touches the password, whatever was read when.

In `MockCentral` a proxy's updates overlap, and its pulls overwrite edits that were
not sent, as in the code.  Either way the counter of an edit is used again, and two
versions that both have reached it may differ in content and not in their vectors.
They are `Confusable`, and `VectorsTrackHistory` and `SavesAreCausal` except
them, and only them: a comparison is misled by nothing else.  `SavesAreCausal` looks at
the row as it is at the save.  What another handler saved since the read is lost, which
the code does not prevent (section 8); of what was there at the read nothing is, but
what a resolver gives up or an old push is behind.

Two readings that the code has twice are modelled twice.  A parameter of the router
stops at "/", one of the gateway (`[\w|-]+`) at every character that is no word's, "|" or "-".
The conditions of a mock decode an escape byte by byte into Latin-1 characters and give
up at a bad one; templates collect the bytes into UTF-8 and keep a bad one as it stands.
A condition on the path looks at what `Url::parse` makes of it, without dots and with some
characters escaped (`Parsed`), where the router looks at the path as it came.

## 7 Proofs

For every value of the constants that meets the `ASSUME`s of the modules
(which TLC evaluates in the runs):

* `MockCentral_proofs`, the vectors: dominance is a strict partial order on the
  vectors the program can build; a bump, and a merge that is bumped, are newer; a
  zero entry is concurrent with its absence.  The laws are about functions from
  replicas to naturals and use no induction.
* `MockCentral_proofs`, the handlers: `TypeOK` is inductive as it stands.
  `ConflictRecordsAreForks` is not: a record is inserted from what a task carries
  since an earlier statement.  The strengthening is
  `ForkInv == TypeOK /\ FiledById /\ PendingIsFork /\ ConflictRecordsAreForks`:
  every row is filed under its id (`PushRead` pairs a row with a version by
  id), and a task about to record a conflict holds two concurrent versions
  whatever has happened to the row since.  `MergeAbsorbsBothSides` follows
  for each step from `BumpedMergeDominates`.
* `MockCentral_proofs`, the history (`VectorsAlwaysTrack`, `SavesStayCausal`).  What a
  counter stands for is stored nowhere, so the invariant says that there is an
  explanation: a set `S` of stamps `<<configuration, replica, counter, edit>>` such that
  every version anywhere (rows, records, tasks, proxies, updates under way) contains
  exactly the edits its vector counts by `S`, where a counter in `reused` may have more
  than one.  Each edit adds one stamp, and a bump of the central service is always a new
  replica's.  Two explained versions of one configuration that no reused counter
  confuses are ordered as their contents are.
* `Sync_proofs`, the pulls: the property speaks of rows the watermark has passed;
  while a pull is under way the watermark has not moved yet.
  `PullInv == Shapes /\ Underway(p) /\ WatermarkMissesNothingElse`: outside
  `excused`, each row is old, hidden from the page, on the list still to be
  saved in its present version, or already the copy.  A save that changes a
  row during a pull excuses it, which is what keeps `Underway`.
* `Sync_proofs`, the outbox (`QueueIsOutbox`, the refinement
  `ClientSpec => KeepsOutboxPromise`): `OnePlace` says that an operation is in the
  hand of one call, waiting once, received or lost, and never in two of these
  places.  With it the fate of an operation, which `Outbox` knows, is a function
  of the state, the initial states map to initial states, and each of the
  client's steps moves the fate of at most one operation, by a step of
  `Outbox`, or of none.
* `LocalApi_proofs`: `Inv` has three parts: rows and calls are records of their
  fields; `Batched`: the items a batch wrote are exactly 1 .. n of those it has
  come by; `UpToDate`: what an update read is the row unless `changed` says
  otherwise.  The first two give `BatchesStop`, the third the action property
  `UpdatesKeep`.  `WalksAreWhole` needs that the times of writes differ (`Times`) and
  `Walking`: of the rows a walk must see, those it has not seen are still in the
  list, at its offset or behind.  The rank of a row is the number of newer
  ones; the ranks of the rows behind an offset begin with the offset, because
  the oldest of the rows newer than one comes right before it, so that a page
  of the next ranks skips none.
* `DataPath_proofs`: `HttpInv` adds to the type invariant and three properties
  (`OnlyTrustedAreServed`, `BridgesJoinAgreedSides`, `CountsMatchAnswers`; the first two
  are proved here and not run) what the handler's step says of the request, the
  reply and the bridge, and what of them outlives a drop.  `FlowInv` is about
  the tunnel: between two sides that keep their sockets, delivered, held and
  arrived bytes together are the numbers after those that were lost with a 101, up to
  the last one sent, and before a tunnel is there nothing has been read (`Unopened`); a
  pump is done only after its side has finished.  The numbers of a concatenation are its length, so no
  induction over sequences is needed.
* `Proxy_proofs`, the forward engine: `AdmissionInv` says that a handler beyond the head has
  admitted its request; `Answering`, that message 3 was made from one of the
  upstream's messages 2; `TunnelInv == Counted /\ Untold /\ property`, that until a
  tunnel stands nothing has been carried or heard, and that what has been read by
  then is the head alone if the client waits.  `FieldsFit`
  supposes names shorter than 65536 bytes: the code casts their lengths to 16 bits.
* `Proxy_proofs`, the reload: `ManagerInv == ManagerTypes /\ (overlapped \/ OneAtATime)`.
  While no two updates have overlapped, the one under way has read what was last
  announced, has written what it is about to save, and has saved what it is
  about to announce; that gives `EventsChain`, and that between updates the last
  event and the last snapshot are of the configuration in force
  (`ManagerSettles`, which no run checks).
* `Startup_proofs`: `Inv == Recorded /\ Known /\ Underway /\ Served`: a recorded
  version means a whole schema; the engines are those of the configuration; main at the
  step that records the version has run every statement, and at the step that
  serves, the version is recorded; an API that is spawned has such a database.  It
  survives `Ends` because only `Recorded` is about what stays on disk.
  `ValidEnginesStart` adds that under strict every engine of the configuration was
  validated (`Screened`) and that a validated engine outside `PassesUnbuilt` builds, so
  that an engine that fails lacks its address, which somebody holds or the system
  refuses.  `FiltersAreExact` is about the
  arithmetic: two addresses agree under a shift exactly when their networks are
  the same, by the laws of `\div`.  The provers have no rule for powers, so
  `AddressFilter` assumes that those of two are positive (`PowerAssumption`), and
  TLC evaluates it.
* `Serving_proofs` (`RepliesAreExact`): the arithmetic of u64 by `%`, then a lemma for
  each form of range: `Selected` gives the bytes the header asks for or none.  `ServingInv`
  adds that the size read is one a file can have, and that a request with a
  status 200 or 206 is over.  A tree that changes between the size and the read
  may make the reply shorter, which the property allows.  Files are shorter than a
  word and hold bytes (`TreesAssumption`), headers are those of `Ranges`
  (`CasesAssumption`).
* `Serving_proofs` (`NothingOutsideIsServed`): a file that is sent is one the step
  before found inside the root, and stays there unless a file changes; this half
  of `StaticFollowsTheUri` needs nothing of the names in between.
* `Serving_proofs` (`StaticFilesFollowTheUri`), the whole of that property, which compares a
  walk character by character with one name by name.  Four steps.  A text and its parts:
  `Split` is a fold, so what it does is proved by induction over the text (`SplitAtSeparator`,
  `SplitAlongPart`).  A pattern and its path: up to every cut of a match the path has as
  many names as the pattern (`CutsKeepTheCount`), so that what `Remaining` leaves are
  `NamesAfter` (`NamesLeft`).  The names and the file: without the bytes of
  `AwkwardPath` decoding and `canonicalize_path` change nothing (`PlainTexts`), and
  the real path of something below a directory is that below each of the real paths of the
  directory (`RealBelow`), so that the index file is found by either reading (`UriLeads`).
  And the steps: `FollowInv` says that the service was asked for what the chosen
  location left over, and what it has found so far of the file the names lead to, as
  long as no file changed.  `LocationsAssumption` says that paths, patterns, roots and index
  files are texts, and `LinksAssumption` that only directories have something
  in them and that the target of a link is no link.
* `Serving_proofs` (`LocationsFitByName`): the router compares characters; the property reads
  patterns and paths name by name.  Between them is `StillFits`, what is left of a path fits
  what is left of a pattern, and its laws for one more element in front of both: a
  character of the pattern is the same one of the path (`OneCharacterOn`,
  `OneCharacterBack`), a parameter is one name of it (`OneParameterOn`, `OneParameterBack`,
  where the parameter must be the whole name).  By induction from the end of the pattern to its
  beginning, the places from which its elements fit (`Fitting`) are those from which its names do
  (`NamesThenElements`, `ElementsThenNames`); for a plain pattern the induction is over its
  characters (`FullByNames`, `PrefixByNames`).  So a location that fits matches
  (`FitsThenMatches`), and one that matches fits (`MatchesThenFits`); what it leaves over is
  `Joined` of the names behind (`UriOfNames`), because splitting a text and joining it
  is the identity (`JoinedSegments`).  `LocationsAssumption` says where a parameter is one: in
  a pattern that becomes a regular expression, and never in a path.
* `Serving_proofs` (`MappingsKeepTheRest`): the gateway writes a target with what a regular
  expression captures and what is left behind it; the property, with the names of the path.
  `TargetIsMapped` says that both give the same set, of at most one path, in three cases.  A
  mapping with parameters matches where its names fit (`GatewayFits`, which rests on the
  router's laws above: a path with no other character that is not a word's stops the
  gateway where it stops the router);
  what a parameter captures is the name at its place (`CapturedIsAName`: the names of the
  mapping up to it are as many as those of the path up to its end), and the rest, with one
  slash in front, is `Joined` of the names behind (`RestByNames`).  One
  without parameters is replaced where it occurs, which is at the beginning and
  nowhere else (`ReplacedOnce`; `str::replace` is a function defined from the end of
  the path, whose existence is proved by `Induction`), and that it begins the path
  is that its names do (`BeginsWithSlash`).  And a mapping that is the path itself.
  `MappingsAssumption` says that both texts are texts, that a parameter is behind a slash
  (elsewhere `uri_variable` finds none), and that the characters of a mapping that
  becomes a regular expression stand for themselves.
* `Serving_proofs` (`TemplatesShowWhatConditionsAccept`): a condition and a template read the same
  request by different code.  In a body, `walk_json` goes part by part through a JSON path,
  and `get_value_by_path` field by field and index by index.  Both are folds (`WalkedTo`, `Gone`);
  a part that has at most one index, closed, and is not empty, takes both from
  the same value to the same value, or neither (`PartIsGone`, `BothWalksLead`).  In a
  query, a condition splits what it has decoded and a template decodes what it has
  split.  Decoding goes character by character, so that without an escaped "&" and
  escapes that the two decode differently it may come first or last (`SplitOfDecoded`, `PairDecoded`), and with one
  pair for each key the first reader's and the last reader's pair are the same
  (`BothReadersFind`).  The invariant is `Sleeping`: between the choice of a mock and its
  answer, which waits for the mock's delay, the conditions of the mock still hold of
  the request.  `ConditionsAssumption` says that queries are texts and that the keys of
  conditions on a body are JSON paths; nothing bounds either.
* `Serving_proofs` (`EngineActsAreLast`): `Acts` is a function defined by recursion over
  an order.  Its laws are proved by induction all the same: `Induction` (a set of
  naturals that has 0 and all successors is Nat) follows from the theorem
  of the library that `<` is well-founded, and that such a function exists, from `Induction`.
  The invariant of the induction is about one header: after the first k actions it has its
  own value, or what one of those among them that name it has made of it.  The last
  action of an order that surely acts on it settles it, and for two orders one after the
  other (`BothActLeave`) the second does.
* `Serving_proofs` (`RewritesAreLocal`): a path is a sequence of steps, and an edit goes
  down them (`Way`) and comes back (`Remade`), both functions defined by recursion over the
  steps.  One step is the algebra: going in again where an edit came back out
  finds what it left (`BackOnTheSameStep`), any other step finds what was there
  (`BackOnAnotherStep`).  `ReachFrom(v, steps, k)` is what the steps from the k-th on lead
  to.  `Kept(k)` says that another path leads to the same from there before and after; it
  holds where the two paths part, and `Downward`, an induction from there to the first
  step, carries it up (`KeptAlong`).  `ReadAlong` does the same for the path itself.  The edit
  may fail: where a step leads nowhere the values before it are kept, and what was
  made on the way is empty and leads nowhere (`MadeLeadsNowhere`), which is why a
  half-made path changes no other one.  The lemmas on `FlattenSeq` say that a path is such
  a sequence and that the field a delete takes comes last.  `JsonAssumption` closes the
  values of bodies under parts (`JsonValues`) and gives the paths of rules their form; the
  depth of a value and the length of a path have no bound.
* `Console_proofs`: `AccountsInv` adds to the type invariant that an unstale
  request's actor is still the administrator it was authenticated as, that what
  an update has read is still the row's role, and that a request has passed its
  anti-lockout check.  A commit can then remove an administrator only if the
  actor, another one, remains, or `raced` becomes true.  The action properties
  (`DeletedUsersStayDeleted`, `OnlyOwnersSetPasswords`) are proved from the same
  invariant.  `FleetInv == FleetTypeOK /\ Relies /\ NamesAreUniqueUnlessMixed`:
  what a call relies on (the name is free, the row is as read) is so unless the
  call is marked.  `SettingsInv` says the same of an edit, and `EnvironmentsInv` of
  an update of an environment.  The latter also says that a row under way, which may be
  written after its environment was deleted, refers to what the table refers to
  and what every other update of that environment has read (`Alike`), and that
  only those marked from the start are templates: with the check of the table,
  a copy cannot lose its template.  Each of the four leaves the others'
  variables alone.

Only model-checked:

* all liveness (`CallsReturn`, `QueueDrains`, `ReconnectsAfterOutages`,
  `LastEditIsLoaded`, `SilenceIsBounded`, `FinishedTunnelsEnd`, `PushesEnd`,
  `AcceptorSettles`, `StartableEnginesRun`): liveness under fairness and ENABLED
  are out of the proof system's reach.

Every other property of a passing run is stated by a theorem.

## 8 Disagreements with the documents

The two violation runs, with their lines, are the findings of PROJECT.json.
What follows was met while modelling and has no run of its own.

Of the central service and the synchronisation:

* A `keep_local` resolution saves the local version as it was, which covers only
  one side (`handlers/routes.rs:526-535`; `docs/OVERVIEW.md:154`).
* A central version is overwritten by a concurrent push when another handler
  comes between get and save (`routes.rs:451-484`; same line of OVERVIEW.md).
* A `force_sync` that fails leaves the status at Syncing, and on a client that is manual
  only (`sync_interval_secs` 0, `sync.rs:132`) nothing but the next call changes it
  (`sync.rs:378-383`).
* A pull replaces a local copy with unsent edits, and the next edit uses a
  counter again, so that two different versions have one vector
  (`management/sync.rs:285-287,451-453`, `repository.rs:400-428`; `OVERVIEW.md:137`).
* An operation the consumer takes while offline is dropped, not queued again as
  the comment says (`sync.rs:485-489`; `specs/001-mock-management/spec.md:242`).
* `services/push_service.rs:73` says "concurrently"; the pushes follow one
  another, at most 20 (the default page), and an instance that leaves
  meanwhile ends the rest with a 404.
* `max_request_history` is checked to be non-negative as `i64` and bound `as
  i32`: a value of 2^31 or more is stored negative (`settings_repository.rs:51,131`).
* Two updates of the `ConfigurationManager` that overlap leave a history that
  does not end with the current configuration, so that the next rollback goes
  to the wrong one.
* `SyncClient` treats a 409 as a conflict, which the central service never
  answers; a conflict is in the body of its 200.  It sends a body without the
  field `configs` that `sync_push` reads.  The two sides are modelled each as it
  is: `SyncClient` as tasks and requests, `MockCentral` with the versions a
  well-formed request carries.

Of connections:

* `proxy/forward.rs:31` says data is forwarded until either side closes
  ("直到任一端关闭连接"); `try_join!` ends when **both** copies have ended or one has
  failed.  A client that closes while the target is silent leaves the tunnel,
  and both sockets, to the target.  `FinishedTunnelsEnd` states what does hold.
* A client does not get the 502 that `websocket.rs:4` announces for an upgrade the
  target does not answer: the server's timer is first (`server.rs:202-211`,
  `websocket.rs:58-69`).
* A WebSocket target that sends its first frame right behind its 101 may lose it: the
  handshake reads 512 bytes at a time and keeps of the last read only the head
  (`websocket.rs:162-183`; `websocket.rs:3` announces a bridge of the bytes of both).
* The acceptor of the forward proxy asks neither `allow_connect` nor the host
  lists for a CONNECT; the service does.  A socks5 upstream is spoken to as an
  HTTP proxy.  An upstream's answers are awaited without a timer.
* The NTLM offsets count a header of 32 or 64 bytes where 48 or 88 are written,
  so that every field is read shifted (`NtlmFieldsFit` states by how much the
  two differ, and that nothing else is wrong).

Of what a request is served with:

* A handler passes no body to mock conditions and templates
  (`docs/OVERVIEW.md:100` promises them), ignores the `condition` of a header
  action, and drops the query when a `uri` rewrite names a path.  A JSON
  transform that fails is logged, and the request goes on half changed.
* The conditions of a mock take `%C3%A9` for two characters, its templates for one
  (`mock/mod.rs:637,719-737`).  Of two header actions on one header, under keys that differ
  in case, the map decides which is last (`header.rs:40`).
* Deleting `a[0][1]` removes two elements; overwrite and add are the same.
* A JSON path with an empty part (`$..a`) leads a condition past the empty part and a
  template to the field `""` (`mock/mod.rs:323,743`).
* Static files: a plus is a space in a path, and an escaped byte a Latin-1
  letter; a suffix range of an empty file underflows; a malformed range ends the
  connection, and an unsatisfiable one gets the whole file with a 200.
* The gateway's parameters stop at "+", "%", "~" and the like, so that `/t/+` fits no
  mapping `/t/{x}` (`gateway.rs:66`).  The gateway replaces its prefix wherever it occurs and does not ask for the end of a
  name; a PrefixRegex may stop within one.  A PrefixRegex that ends in a slash loses another
  one behind it: `/t/` on `/t//a` leaves `a` (`router/mod.rs:233`), where a Prefix leaves
  `/a`.  A parameter with letters beside it, as in `/a{x}`, is less than a name, and in a
  Full or Prefix pattern it is no parameter.

Of the configuration:

* The strict validation refuses the `{id}` patterns of `docs/ARCHITECTURE.md:151-152`
  and accepts regular expressions the router escapes; `{2}` passes it and is refused by
  the router.  A disabled jwt without secret, mutual TLS without CA and files
  that are no PEM pass it and fail at the start.
* A rule needs a prefix for the validation and none for the filter; `::/0` panics
  in a debug build, which ends the engine's accept task, and compares whole
  addresses in a release build.  IPv4 rules do not cover the IPv4 peers of a
  dual-stack listener.
* The file of a Unix socket is never removed: the engine cannot bind at the next
  start.  A forward engine does not ask its filter.
* TLS offers h2 by ALPN and only HTTP/1 is served; the versions configured are
  not used.

Of the management API: a page with an offset and no limit is an SQL error; the
total ignores the filter; an update may empty a name, and bring a deleted row
back; an import checks no path; the hash of a content runs over its parts
without separators.

## 9 Not modelled

PROJECT.json gives the reason for each component.  In short: the syntax of the
configuration file and the messages of its validation, loading of certificates
and handshakes (calls into rustls and OpenSSL; what a TLS section must have for
its engine to start is in `EngineConfig`), the certificate reloader of the
central service and its start-up, the digests of NTLM, MIME types and directory listings, the buffered
stream type, services no handler reaches (the in-memory conflict service,
`process_pushed_config`, the websocket hub, `OfflineQueueManager`,
`RetryPolicy`), the React front end, charts.  Log texts, metrics other than the
request count, and payloads are abstracted everywhere.

## 10 Plan

Done: the modules of section 2.  Next, most important first:

1. The composition of `ForwardProxy` and `Tunnel`, so that what a side of the
   tunnel does after the head is one behaviour instead of two.
2. The accept loops with the TLS accept (under no timer) and the loop of the
   Unix engine, which ends at the first error of accept.
3. The certificate reloader.
