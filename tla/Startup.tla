------------------------------- MODULE Startup -------------------------------
(***************************************************************************)
(* The life of a proxy process: main loads the configuration, starts its       *)
(* engines one after the other in the order of a hash map, waits for a signal   *)
(* and stops.  Before an engine with a management section starts, its SQLite     *)
(* file is opened and migrated.  The process may die at any time and be started   *)
(* again; files on disk stay: the databases, and the sockets of Unix listeners,    *)
(* which nothing unlinks.                                                      *)
(***************************************************************************)
EXTENDS EngineConfig, Sequences

CONSTANTS
  Engine,      \* names of engines
  Address,     \* what a listener can be bound to
  Database,    \* paths of SQLite files
  Parts,       \* number of statements of the first migration
  Configs,     \* the configurations: functions from some engine names to engines
  Peers,       \* addresses connections come from: [family, bits]
  Levels,      \* validation levels of the command line: "strict", "warn", "none"
  Metrics,     \* the address of the metrics server, 127.0.0.1:9090
  Outside,     \* what keeps addresses from being bound before any start: pairs of an
               \* address and "other", another program, or "system"
  Checked,     \* whether arithmetic is checked, per build: a set of BOOLEANs
  MaxStarts    \* bound on the starts of the process

\* A migration has statements, and a management section names its database.
ASSUME ConfigsAssumption ==
  /\ Parts \in Nat \ {0}
  /\ \A c \in Configs :
       /\ DOMAIN c \subseteq Engine
       /\ \A n \in DOMAIN c :
            /\ c[n] \in EngineShape
            /\ c[n].management # None => c[n].management.db \in Database

ASSUME OutsideAssumption == Outside \subseteq Address \X {"other", "system"}

ASSUME PeersAssumption == \A ip \in Peers : ip.family \in {4, 6} /\ ip.bits \in Nat

VARIABLES
  pc,       \* where main is: "down", "starting", "running" or "exited"
  level,    \* the validation level
  config,   \* the engines that were loaded
  todo,     \* names of the engines main has not come to
  current,  \* the engine at hand and the step it is at: [name, step], or None
  engine,   \* engine[n]: "waiting", "failed", "spawned", "running" or "dead"
  api,      \* api[n]: the management API: "none", "failed", "spawned" or "running"
  holder,   \* holder[a]: who holds address a, or keeps it from being bound: [by, name]
  schema,   \* schema[d]: what database d holds: [parts, recorded]
  checked,  \* the build at hand checks its arithmetic
  metrics,  \* the metrics server: "down", "spawned", "failed" or "running"
  starts    \* number of starts so far

vars == <<pc, level, config, todo, current, engine, api, holder, schema, checked, metrics, starts>>

Names == DOMAIN config

\* Who holds an address: nobody, another process, the socket file of an earlier start, or
\* an engine, a management API or the metrics server of this process.  Or the system
\* refuses it: there is no such directory or interface, or no permission.
By(kind, name) == [by |-> kind, name |-> name]
Nobody == By("nobody", None)
Free(a) == holder[a] = Nobody

(***************************************************************************)
(* Loading.                                                                *)
(***************************************************************************)
\* load_config: under strict one engine that does not validate refuses the start, and a
\* process without engines ends at once.  The one TCP engine of the command line is never
\* validated, which is level "none".
Starts(c, l) ==
  /\ pc \in {"down", "exited"}
  /\ starts < MaxStarts
  /\ starts' = starts + 1
  /\ level' = l
  /\ config' = c
  /\ LET refused == l = "strict" /\ \E n \in DOMAIN c : ~Validates(c[n])
     IN pc' = IF refused \/ DOMAIN c = {} THEN "exited" ELSE "starting"
  /\ todo' = DOMAIN c
  /\ current' = None
  /\ engine' = [n \in Engine |-> "waiting"]
  /\ api' = [n \in Engine |-> "none"]
  /\ metrics' = IF pc' = "exited" THEN "down" ELSE "spawned"
  /\ UNCHANGED <<holder, schema, checked>>

(***************************************************************************)
(* The engine at hand: its management module, then the engine itself.        *)
(***************************************************************************)
Manages(n) ==
  LET m == config[n].management IN m # None /\ m.enabled /\ m.listen # None
Db(n) == config[n].management.db

At(step) == pc = "starting" /\ current # None /\ current.step = step
Goes(step) == current' = [current EXCEPT !.step = step]

Begins(n) ==
  /\ pc = "starting" /\ current = None /\ n \in todo
  /\ todo' = todo \ {n}
  /\ current' = [name |-> n, step |-> IF Manages(n) THEN "open" ELSE "start"]
  /\ UNCHANGED <<pc, level, config, engine, api, holder, schema, checked, metrics, starts>>

OnDisk == UNCHANGED <<pc, level, config, todo, engine, holder, checked, metrics, starts>>

\* create_pool and run_migrations up to the version query: a database that has recorded
\* the version is left alone.
Opens ==
  /\ At("open")
  /\ Goes(IF schema[Db(current.name)].recorded THEN "serve" ELSE "migrate")
  /\ OnDisk /\ UNCHANGED <<api, schema>>

\* A migration that records the version before its statements.
MigratesRecording ==
  /\ At("migrate")
  /\ LET d == Db(current.name) IN
       /\ schema' = [schema EXCEPT ![d].parts = IF @ < Parts THEN @ + 1 ELSE @,
                                   ![d].recorded = TRUE]
       /\ Goes(IF schema[d].parts + 1 >= Parts THEN "serve" ELSE "migrate")
  /\ OnDisk /\ UNCHANGED api

\* migrate_v1: one statement after the other, each of them only if its table or index
\* is not there yet.
Migrates ==
  /\ At("migrate")
  /\ LET d == Db(current.name) IN
       /\ schema' = [schema EXCEPT ![d].parts = IF @ < Parts THEN @ + 1 ELSE @]
       /\ Goes(IF schema[d].parts + 1 >= Parts THEN "record" ELSE "migrate")
  /\ OnDisk /\ UNCHANGED api

\* INSERT INTO schema_version.
Records ==
  /\ At("record")
  /\ schema' = [schema EXCEPT ![Db(current.name)].recorded = TRUE]
  /\ Goes("serve")
  /\ OnDisk /\ UNCHANGED api

\* A statement of the database fails: the module is left out and its engine goes on.
ManagementFails ==
  /\ At("open") \/ At("migrate") \/ At("record")
  /\ api' = [api EXCEPT ![current.name] = "failed"]
  /\ Goes("start")
  /\ OnDisk /\ UNCHANGED schema

SpawnsApi ==
  /\ At("serve")
  /\ api' = [api EXCEPT ![current.name] = "spawned"]
  /\ Goes("start")
  /\ OnDisk /\ UNCHANGED schema

\* What main leaves alone while it starts the engine at hand.
AtStart ==
  /\ At("start")
  /\ UNCHANGED <<level, config, todo, api, schema, checked, metrics, starts>>

\* Something of the engine is refused, or its address cannot be bound, because it is held
\* or the system refuses it; a host name may not resolve.
Refused(e) ==
  ~Builds(e) \/ ~Bindable(e) \/ ~Free(e.listen.at) \/ e.listen.kind = "name"

\* A failure that breaks off the loop of main.
EngineFailsBreak(n) ==
  /\ AtStart
  /\ current.name = n
  /\ config[n].type # "forward"
  /\ Refused(config[n])
  /\ engine' = [engine EXCEPT ![n] = "failed"]
  /\ pc' = "running"
  /\ current' = None
  /\ UNCHANGED holder

\* The failure is logged and main goes on with the next engine.
EngineFails(n) ==
  /\ AtStart
  /\ current.name = n
  /\ config[n].type # "forward"
  /\ Refused(config[n])
  /\ engine' = [engine EXCEPT ![n] = "failed"]
  /\ current' = None
  /\ UNCHANGED <<pc, holder>>

\* A TCP or HTTP engine binds in main and is run by a task of its own.
EngineStarts(n) ==
  /\ AtStart
  /\ current.name = n
  /\ config[n].type # "forward"
  /\ Builds(config[n]) /\ Bindable(config[n]) /\ Free(config[n].listen.at)
  /\ engine' = [engine EXCEPT ![n] = "running"]
  /\ holder' = [holder EXCEPT ![config[n].listen.at] = By("engine", n)]
  /\ current' = None
  /\ UNCHANGED pc

\* A forward engine is spawned first and binds in its task.
ForwardSpawns(n) ==
  /\ AtStart
  /\ current.name = n
  /\ config[n].type = "forward"
  /\ engine' = [engine EXCEPT ![n] = "spawned"]
  /\ current' = None
  /\ UNCHANGED <<pc, holder>>

\* main has come to the end of the list and waits for a signal.
AllTried ==
  /\ pc = "starting" /\ current = None /\ todo = {}
  /\ pc' = "running"
  /\ UNCHANGED <<level, config, todo, current, engine, api, holder, schema, checked, metrics, starts>>

(***************************************************************************)
(* The tasks main has spawned.                                              *)
(***************************************************************************)
InTask == UNCHANGED <<pc, level, config, todo, current, schema, checked, metrics, starts>>
Up == pc \in {"starting", "running"}

\* The task of a forward engine binds or ends.
ForwardBinds(n) ==
  /\ Up /\ engine[n] = "spawned"
  /\ \E resolves \in BOOLEAN :
       LET a == config[n].listen.at
           bound == /\ Bindable(config[n]) /\ Free(a)
                    /\ config[n].listen.kind = "socket" \/ resolves IN
       /\ engine' = [engine EXCEPT ![n] = IF bound THEN "running" ELSE "failed"]
       /\ holder' = IF bound THEN [holder EXCEPT ![a] = By("engine", n)] ELSE holder
  /\ InTask /\ UNCHANGED api

\* The task of a management API parses its address, tcp:// and an ip:port, and binds
\* or ends.
ApiBinds(n) ==
  /\ Up /\ api[n] = "spawned"
  /\ LET listen == config[n].management.listen
         bound == listen.proto = "tcp" /\ listen.kind = "socket" /\ Free(listen.at) IN
       /\ api' = [api EXCEPT ![n] = IF bound THEN "running" ELSE "failed"]
       /\ holder' = IF bound THEN [holder EXCEPT ![listen.at] = By("api", n)] ELSE holder
  /\ InTask /\ UNCHANGED engine

\* The metrics server, spawned before the configuration is loaded, binds or ends.
MetricsBinds ==
  /\ Up /\ metrics = "spawned"
  /\ metrics' = IF Free(Metrics) THEN "running" ELSE "failed"
  /\ holder' = IF Free(Metrics) THEN [holder EXCEPT ![Metrics] = By("metrics", None)] ELSE holder
  /\ UNCHANGED <<pc, level, config, todo, current, engine, api, schema, checked, starts>>

\* The accept loop asks the filter for the peer before it spawns anything; a forward
\* engine has no filter, and the peer of a Unix socket no address.
Asks(e) == e.type # "forward" /\ e.listen.proto = "tcp" /\ Filtered(e)

\* Whether the connection of a peer is served.
Admits(e, ip) == Asks(e) => IsAllowed(Rules(e.allow), Rules(e.deny), ip)

\* A shift that overflows panics where the build checks it, which ends the task of the
\* engine; a connection that is served or dropped changes nothing of this module.
AcceptPanics(n, ip) ==
  /\ Up /\ engine[n] = "running" /\ checked
  /\ LET e == config[n] IN
       /\ Asks(e) /\ AskingOverflows(Rules(e.allow), Rules(e.deny), ip)
       /\ engine' = [engine EXCEPT ![n] = "dead"]
       /\ holder' = [holder EXCEPT ![e.listen.at] = Nobody]
  /\ InTask /\ UNCHANGED api

(***************************************************************************)
(* The end of the process.                                                  *)
(***************************************************************************)
\* The sockets are closed; the file of a Unix listener stays.
Released ==
  [a \in Address |->
     CASE holder[a].by \in {"other", "system", "file"} -> holder[a]
       [] holder[a].by = "engine" ->
            IF config[holder[a].name].listen.proto = "unix" THEN By("file", None) ELSE Nobody
       [] holder[a].by \in {"nobody", "api", "metrics"} -> Nobody]

\* Ctrl+C or SIGTERM once main waits for them: the tasks are aborted.  A signal that
\* comes earlier, a panic of main or the machine ends the process all the same.
Ends ==
  /\ Up
  /\ pc' \in IF pc = "running" THEN {"exited", "down"} ELSE {"down"}
  /\ holder' = Released
  /\ engine' = [n \in Engine |-> "waiting"]
  /\ api' = [n \in Engine |-> "none"]
  /\ metrics' = "down"
  /\ todo' = {}
  /\ current' = None
  /\ UNCHANGED <<level, config, schema, checked, starts>>

-----------------------------------------------------------------------------
Init ==
  /\ pc = "down"
  /\ level = "strict"
  /\ config = [n \in {} |-> None]
  /\ todo = {}
  /\ current = None
  /\ engine = [n \in Engine |-> "waiting"]
  /\ api = [n \in Engine |-> "none"]
  /\ LET Bare == [a \in Address |-> Nobody]
     IN holder \in {Bare} \cup {[Bare EXCEPT ![o[1]] = By(o[2], None)] : o \in Outside}
  /\ schema = [d \in Database |-> [parts |-> 0, recorded |-> FALSE]]
  /\ checked \in Checked
  /\ metrics = "down"
  /\ starts = 0

Main ==
  \/ \E n \in Engine : Begins(n) \/ EngineFails(n) \/ EngineStarts(n) \/ ForwardSpawns(n)
  \/ Opens \/ Migrates \/ Records \/ SpawnsApi \/ AllTried

Next ==
  \/ \E c \in Configs, l \in Levels : Starts(c, l)
  \/ Main
  \/ ManagementFails
  \/ \E n \in Engine : ForwardBinds(n) \/ ApiBinds(n) \/ \E ip \in Peers : AcceptPanics(n, ip)
  \/ MetricsBinds
  \/ Ends

\* main and the tasks it has spawned go on; nothing makes the process end, a peer
\* connect or a database fail.
Fairness ==
  /\ WF_vars(Main)
  /\ \A n \in Engine : WF_vars(ForwardBinds(n)) /\ WF_vars(ApiBinds(n))

Spec == Init /\ [][Next]_vars /\ Fairness

-----------------------------------------------------------------------------
\* The addresses an engine and its management API want.
Wants(c, n) ==
  {c[n].listen.at} \cup
    (IF c[n].management = None \/ c[n].management.listen = None THEN {}
     ELSE {c[n].management.listen.at})

\* Nothing of the engine stands in its way, the system does not refuse its address, and
\* nobody else wants or holds it.
Startable(n) ==
  /\ n \in Names
  /\ Builds(config[n]) /\ Bindable(config[n])
  /\ config[n].listen.kind # "name"
  /\ config[n].listen.at # Metrics
  /\ holder[config[n].listen.at] \in {Nobody, By("engine", n)}
  /\ \A m \in Names \ {n} : config[n].listen.at \notin Wants(config, m)
  /\ config[n].management # None /\ config[n].management.listen # None
       => config[n].management.listen.at # config[n].listen.at

\* An engine that can be started is started, unless the process ends before, whatever
\* comes of the other engines, of their management modules and of its own: every
\* failure in the loop of main is logged and passed over (main.rs).
StartableEnginesRun ==
  \A n \in Engine :
    (pc = "starting" /\ Startable(n)) ~> (engine[n] \in {"running", "dead"} \/ ~Up)

\* What the strict validation lets pass can be started: such an engine fails only when
\* somebody holds its address or the system refuses to bind it, but for the three things
\* the validation does not look at (rules.rs beside HttpRequestHandler::new,
\* new_with_tls and Address::parse).
ValidEnginesOnlyMissTheirAddress ==
  [][\A n \in Names :
       (level = "strict" /\ engine[n] # "failed" /\ engine'[n] = "failed")
         => ~Free(config[n].listen.at) \/ PassesUnbuilt(config[n])]_vars

\* A database that has recorded the schema version has the whole schema, wherever an
\* earlier process died, and a management API is only served on such a database.
SchemasAreWhole ==
  /\ \A d \in Database : schema[d].recorded => schema[d].parts = Parts
  /\ \A n \in Engine : api[n] \in {"spawned", "running"} => schema[Db(n)].recorded

\* What the rules of the configuration say of a peer.
ShouldAdmit(e, ip) ==
  /\ ~Covers(Rules(e.deny), ip)
  /\ e.allow # {} => Covers(Rules(e.allow), ip)

\* A running engine that asks its filter serves a peer exactly when no deny rule covers
\* the peer and an allow rule does, if there are any; a rule ::/0 is the exception
\* (ip_filter.rs and the accept loops).
FiltersFollowTheirRules ==
  \A n \in Engine, ip \in Peers :
    engine[n] = "running" /\ Asks(config[n]) =>
      LET e == config[n] IN
      \/ AskingOverflows(Rules(e.allow), Rules(e.deny), ip)
      \/ Admits(e, ip) = ShouldAdmit(e, ip)
=============================================================================
