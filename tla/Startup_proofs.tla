---------------------------- MODULE Startup_proofs ----------------------------
(***************************************************************************)
(* A database whose schema version is recorded is whole, and a management      *)
(* API is served on no other; an engine that was validated misses nothing but  *)
(* its address; a filter admits by its rules.  For every set of engines,       *)
(* configurations, databases and peers, and wherever the process dies and is   *)
(* started again.                                                              *)
(***************************************************************************)
EXTENDS Startup, TLAPS

\* The databases hold a part of the schema, and all of it once the version is recorded.
Recorded ==
  /\ schema \in [Database -> [parts : 0 .. Parts, recorded : BOOLEAN]]
  /\ \A d \in Database : schema[d].recorded => schema[d].parts = Parts

\* The configurations that are loaded name databases the process knows.
Known ==
  /\ DOMAIN config \subseteq Engine
  /\ \A n \in Names : config[n].management # None => Db(n) \in Database
  /\ todo \subseteq Names

\* How far main is with the engine at hand, and what that says of its database.
Managing(step) == step \in {"open", "migrate", "record", "serve"}

Underway ==
  current # None =>
    /\ current.name \in Names
    /\ DOMAIN current = {"name", "step"}
    /\ Managing(current.step) => Manages(current.name)
    /\ current.step = "record" => schema[Db(current.name)].parts = Parts
    /\ current.step = "serve" => schema[Db(current.name)].recorded

\* A management API that was spawned has a database with the whole schema.
Served ==
  /\ api \in [Engine -> {"none", "failed", "spawned", "running"}]
  /\ \A n \in Engine : api[n] \in {"spawned", "running"} =>
       n \in Names /\ Manages(n) /\ schema[Db(n)].recorded

Inv == Recorded /\ Known /\ Underway /\ Served

-----------------------------------------------------------------------------
\* A step that leaves the databases, the configuration and the APIs alone, and the
\* engine at hand too or is done with it, keeps the invariant.
LEMMA Elsewhere ==
  ASSUME Inv, UNCHANGED <<schema, config, api, todo>>, current' \in {current, None}
  PROVE  Inv'
<1>1. Recorded' /\ Known'
  BY DEF Inv, Recorded, Known, Names, Db
<1>2. Underway'
  BY DEF Inv, Underway, Managing, Manages, Names, Db
<1>3. Served'
  BY DEF Inv, Served, Manages, Names, Db
<1> QED BY <1>1, <1>2, <1>3 DEF Inv

\* A step that also sets an API to what is not served.
LEMMA NotServed ==
  ASSUME Inv, UNCHANGED <<schema, config, todo>>,
         NEW n \in Engine, NEW s \in {"failed", "none"}, api' = [api EXCEPT ![n] = s],
         \/ UNCHANGED current
         \/ current # None /\ current' = [current EXCEPT !.step = "start"]
  PROVE  Inv'
<1>1. Recorded' /\ Known'
  BY DEF Inv, Recorded, Known, Names, Db
<1>2. Underway'
  <2>1. CASE UNCHANGED current
    BY <2>1 DEF Inv, Underway, Managing, Manages, Names, Db
  <2>2. CASE current # None /\ current' = [current EXCEPT !.step = "start"]
    <3>1. DOMAIN current' = {"name", "step"} /\ current'.step = "start"
      BY <2>2 DEF Inv, Underway
    <3>2. current'.name \in Names'
      BY <2>2 DEF Inv, Underway, Names
    <3> QED BY <3>1, <3>2 DEF Underway, Managing
  <2> QED BY <2>1, <2>2
<1>3. Served'
  <2>1. api' \in [Engine -> {"none", "failed", "spawned", "running"}]
    BY DEF Inv, Served
  <2>2. ASSUME NEW m \in Engine, api'[m] \in {"spawned", "running"}
        PROVE  (m \in Names /\ Manages(m) /\ schema[Db(m)].recorded)'
    <3>1. api[m] \in {"spawned", "running"}
      BY <2>2 DEF Inv, Served
    <3> QED BY <3>1 DEF Inv, Served, Manages, Names, Db
  <2> QED BY <2>1, <2>2 DEF Served
<1> QED BY <1>1, <1>2, <1>3 DEF Inv

LEMMA InvInit == Init => Inv
<1> SUFFICES ASSUME Init PROVE Inv
  OBVIOUS
<1>1. Recorded
  BY ConfigsAssumption DEF Init, Recorded
<1>2. Known
  BY DEF Init, Known, Names
<1>3. Underway
  BY DEF Init, Underway
<1>4. Served
  <2>1. api = [n \in Engine |-> "none"]
    BY DEF Init
  <2>2. \A n \in Engine : api[n] = "none"
    BY <2>1
  <2> QED BY <2>1, <2>2 DEF Served
<1> QED BY <1>1, <1>2, <1>3, <1>4 DEF Inv

LEMMA StartsKeepsInv ==
  ASSUME Inv, NEW c \in Configs, NEW l \in Levels, Starts(c, l)
  PROVE  Inv'
<1>1. Recorded'
  BY DEF Inv, Recorded, Starts
<1>2. Known'
  BY ConfigsAssumption DEF Known, Starts, Names, Db
<1>3. Underway'
  BY DEF Underway, Starts
<1>4. Served'
  <2>1. api' = [n \in Engine |-> "none"]
    BY DEF Starts
  <2>2. \A n \in Engine : api'[n] = "none"
    BY <2>1
  <2> QED BY <2>1, <2>2 DEF Served
<1> QED BY <1>1, <1>2, <1>3, <1>4 DEF Inv

LEMMA BeginsKeepsInv ==
  ASSUME Inv, NEW n \in Engine, Begins(n)
  PROVE  Inv'
<1>1. Recorded' /\ Known' /\ Served'
  BY DEF Inv, Recorded, Known, Served, Begins, Manages, Names, Db
<1>2. Underway'
  <2>1. n \in Names /\ Names' = Names
    BY DEF Inv, Known, Begins, Names
  <2>2. current'.name = n /\ current'.step \in {"open", "start"}
    BY DEF Begins
  <2>3. DOMAIN current' = {"name", "step"}
    BY DEF Begins
  <2>4. current'.step = "open" => Manages(n)'
    BY DEF Begins, Manages
  <2> QED BY <2>1, <2>2, <2>3, <2>4 DEF Underway, Managing
<1> QED BY <1>1, <1>2 DEF Inv

\* The database at hand, in the steps that are about it.
LEMMA AtHand ==
  ASSUME Inv, NEW step \in {"open", "migrate", "record", "serve"}, At(step)
  PROVE  /\ current.name \in Names /\ current.name \in Engine
         /\ Manages(current.name)
         /\ Db(current.name) \in Database
         /\ DOMAIN current = {"name", "step"}
<1>1. current.name \in Names /\ DOMAIN current = {"name", "step"}
  BY DEF Inv, Underway, At
<1>2. Manages(current.name)
  BY DEF Inv, Underway, At, Managing
<1> QED BY <1>1, <1>2 DEF Inv, Known, Manages, Names

LEMMA OpensKeepsInv ==
  ASSUME Inv, Opens
  PROVE  Inv'
<1>1. Recorded' /\ Known' /\ Served'
  BY DEF Inv, Recorded, Known, Served, Opens, OnDisk, Manages, Names, Db
<1>2. Underway'
  <2>1. At("open") /\ UNCHANGED <<config, schema>>
    BY DEF Opens, OnDisk
  <2>2. /\ current'.name = current.name /\ current'.name \in Names'
        /\ DOMAIN current' = {"name", "step"}
    BY <2>1, AtHand DEF Opens, Goes, Names
  <2>3. Manages(current.name)'
    BY <2>1, <2>2, AtHand DEF Manages
  <2>4. current'.step = IF schema[Db(current.name)].recorded THEN "serve" ELSE "migrate"
    BY <2>1, AtHand DEF Opens, Goes
  <2> QED BY <2>1, <2>2, <2>3, <2>4 DEF Underway, Managing, Db
<1> QED BY <1>1, <1>2 DEF Inv
\* A step about the database at hand that leaves the APIs alone: what is left to show.
LEMMA AtDatabase ==
  ASSUME Inv, NEW step \in {"open", "migrate", "record", "serve"}, At(step),
         UNCHANGED <<config, todo, api>>,
         NEW next \in {"migrate", "record", "serve"},
         current' = [current EXCEPT !.step = next],
         Recorded',
         \A e \in Database : schema[e].recorded => schema'[e].recorded,
         next = "record" => schema'[Db(current.name)].parts = Parts,
         next = "serve" => schema'[Db(current.name)].recorded
  PROVE  Inv'
<1> DEFINE d == Db(current.name)
<1>1. /\ current.name \in Names /\ Manages(current.name) /\ d \in Database
      /\ DOMAIN current = {"name", "step"}
  BY AtHand
<1>2. Known'
  BY DEF Inv, Known, Names, Db
<1>3. Underway'
  <2>1. /\ current'.name = current.name /\ current'.step = next
        /\ DOMAIN current' = {"name", "step"}
    BY <1>1
  <2>2. Db(current.name)' = d /\ Manages(current.name)' /\ current'.name \in Names'
    BY <1>1, <2>1 DEF Db, Manages, Names
  <2> QED BY <2>1, <2>2 DEF Underway, Managing
<1>4. Served'
  BY DEF Inv, Served, Known, Manages, Names, Db
<1> QED BY <1>2, <1>3, <1>4 DEF Inv

LEMMA MigratesKeepsInv ==
  ASSUME Inv, Migrates
  PROVE  Inv'
<1> DEFINE d == Db(current.name)
           last == schema[d].parts + 1 >= Parts
<1>1. At("migrate") /\ UNCHANGED <<config, todo, api>>
  BY DEF Migrates, OnDisk
<1>2. d \in Database
  BY <1>1, AtHand
<1>3. /\ schema[d].parts \in 0 .. Parts
      /\ schema[d].recorded => schema[d].parts = Parts
  BY <1>2 DEF Inv, Recorded
<1>4. schema' = [schema EXCEPT ![d].parts = IF @ < Parts THEN @ + 1 ELSE @]
  BY DEF Migrates
<1>5. /\ \A e \in Database : schema'[e].recorded = schema[e].recorded
      /\ schema'[d].parts = IF schema[d].parts < Parts THEN schema[d].parts + 1 ELSE schema[d].parts
      /\ \A e \in Database \ {d} : schema'[e] = schema[e]
  BY <1>2, <1>4 DEF Inv, Recorded
<1>6. Recorded'
  <2>1. schema' \in [Database -> [parts : 0 .. Parts, recorded : BOOLEAN]]
    BY <1>2, <1>3, <1>4, ConfigsAssumption DEF Inv, Recorded
  <2>2. schema'[d].recorded => schema'[d].parts = Parts
    BY <1>2, <1>3, <1>5, ConfigsAssumption
  <2> QED BY <1>5, <2>1, <2>2 DEF Inv, Recorded
<1>7. last => schema'[d].parts = Parts
  BY <1>3, <1>5, ConfigsAssumption
<1>8. current' = [current EXCEPT !.step = IF last THEN "record" ELSE "migrate"]
  BY DEF Migrates, Goes
<1>9. CASE last
  BY <1>1, <1>5, <1>6, <1>7, <1>8, <1>9, AtDatabase
<1>10. CASE ~last
  BY <1>1, <1>5, <1>6, <1>8, <1>10, AtDatabase
<1> QED BY <1>9, <1>10

LEMMA RecordsKeepsInv ==
  ASSUME Inv, Records
  PROVE  Inv'
<1> DEFINE d == Db(current.name)
<1>1. At("record") /\ UNCHANGED <<config, todo, api>>
  BY DEF Records, OnDisk
<1>2. d \in Database
  BY <1>1, AtHand
<1>3. schema[d].parts = Parts
  BY <1>1, <1>2 DEF Inv, Underway, At
<1>4. schema' = [schema EXCEPT ![d].recorded = TRUE]
  BY DEF Records
<1>5. schema' \in [Database -> [parts : 0 .. Parts, recorded : BOOLEAN]]
  BY <1>2, <1>4 DEF Inv, Recorded
<1>6. /\ schema'[d].recorded /\ schema'[d].parts = schema[d].parts
      /\ \A e \in Database \ {d} : schema'[e] = schema[e]
  BY <1>2, <1>4 DEF Inv, Recorded
<1>7. Recorded'
  BY <1>3, <1>5, <1>6 DEF Inv, Recorded
<1>8. current' = [current EXCEPT !.step = "serve"]
  BY DEF Records, Goes
<1> QED BY <1>1, <1>6, <1>7, <1>8, AtDatabase

LEMMA SpawnsApiKeepsInv ==
  ASSUME Inv, SpawnsApi
  PROVE  Inv'
<1>1. At("serve") /\ UNCHANGED <<config, todo, schema>>
  BY DEF SpawnsApi, OnDisk
<1>2. /\ current.name \in Names /\ current.name \in Engine /\ Manages(current.name)
      /\ DOMAIN current = {"name", "step"} /\ schema[Db(current.name)].recorded
  BY <1>1, AtHand DEF Inv, Underway, At
<1>3. Recorded' /\ Known'
  BY <1>1 DEF Inv, Recorded, Known, Names, Db
<1>4. Underway'
  <2>1. /\ current'.name = current.name /\ current'.step = "start"
        /\ DOMAIN current' = {"name", "step"}
    BY <1>2 DEF SpawnsApi, Goes
  <2> QED BY <1>1, <1>2, <2>1 DEF Underway, Managing, Names
<1>5. Served'
  <2>1. api' = [api EXCEPT ![current.name] = "spawned"]
    BY DEF SpawnsApi
  <2> QED BY <1>1, <1>2, <2>1 DEF Inv, Served, Manages, Names, Db
<1> QED BY <1>3, <1>4, <1>5 DEF Inv

LEMMA ApiBindsKeepsInv ==
  ASSUME Inv, NEW n \in Engine, ApiBinds(n)
  PROVE  Inv'
<1>1. /\ UNCHANGED <<config, todo, schema, current>> /\ api[n] = "spawned"
      /\ \E s \in {"running", "failed"} : api' = [api EXCEPT ![n] = s]
  BY DEF ApiBinds, InTask
<1>2. Recorded' /\ Known'
  BY <1>1 DEF Inv, Recorded, Known, Names, Db
<1>3. Underway'
  BY <1>1 DEF Inv, Underway, Managing, Manages, Names, Db
<1>4. Served'
  BY <1>1 DEF Inv, Served, Manages, Names, Db
<1> QED BY <1>2, <1>3, <1>4 DEF Inv

LEMMA EndsKeepsInv ==
  ASSUME Inv, Ends
  PROVE  Inv'
<1>1. Recorded' /\ Known'
  BY DEF Inv, Recorded, Known, Ends, Names, Db
<1>2. Underway'
  BY DEF Underway, Ends
<1>3. Served'
  <2>1. api' = [n \in Engine |-> "none"]
    BY DEF Ends
  <2>2. \A n \in Engine : api'[n] = "none"
    BY <2>1
  <2> QED BY <2>1, <2>2 DEF Served
<1> QED BY <1>1, <1>2, <1>3 DEF Inv

LEMMA NextKeepsInv == Inv /\ [Next]_vars => Inv'
<1> SUFFICES ASSUME Inv, [Next]_vars PROVE Inv'
  OBVIOUS
<1>1. ASSUME NEW c \in Configs, NEW l \in Levels, Starts(c, l) PROVE Inv'
  BY <1>1, StartsKeepsInv
<1>2. ASSUME NEW n \in Engine, Begins(n) PROVE Inv'
  BY <1>2, BeginsKeepsInv
<1>3. ASSUME NEW n \in Engine, EngineFails(n) \/ EngineStarts(n) \/ ForwardSpawns(n)
      PROVE  Inv'
  BY <1>3, Elsewhere DEF EngineFails, EngineStarts, ForwardSpawns, AtStart
<1>4. CASE Opens
  BY <1>4, OpensKeepsInv
<1>5. CASE Migrates
  BY <1>5, MigratesKeepsInv
<1>6. CASE Records
  BY <1>6, RecordsKeepsInv
<1>7. CASE SpawnsApi
  BY <1>7, SpawnsApiKeepsInv
<1>8. CASE AllTried
  BY <1>8, Elsewhere DEF AllTried
<1>9. CASE ManagementFails
  <2>1. PICK step \in {"open", "migrate", "record"} : At(step)
    BY <1>9 DEF ManagementFails
  <2>2. current.name \in Engine /\ current # None
    BY <2>1, AtHand DEF At
  <2>3. /\ api' = [api EXCEPT ![current.name] = "failed"]
        /\ current' = [current EXCEPT !.step = "start"]
        /\ UNCHANGED <<schema, config, todo>>
    BY <1>9 DEF ManagementFails, Goes, OnDisk
  <2> QED BY <2>2, <2>3, NotServed
<1>10. ASSUME NEW n \in Engine, ForwardBinds(n) PROVE Inv'
  BY <1>10, Elsewhere DEF ForwardBinds, InTask
<1>11. ASSUME NEW n \in Engine, ApiBinds(n) PROVE Inv'
  BY <1>11, ApiBindsKeepsInv
<1>12. ASSUME NEW n \in Engine, NEW ip \in Peers, AcceptPanics(n, ip) PROVE Inv'
  BY <1>12, Elsewhere DEF AcceptPanics, InTask
<1>13. CASE MetricsBinds
  BY <1>13, Elsewhere DEF MetricsBinds
<1>14. CASE Ends
  BY <1>14, EndsKeepsInv
<1>15. CASE UNCHANGED vars
  BY <1>15, Elsewhere DEF vars
<1> HIDE DEF Inv
<1> QED
  BY <1>1, <1>2, <1>3, <1>4, <1>5, <1>6, <1>7, <1>8, <1>9, <1>10, <1>11, <1>12, <1>13,
     <1>14, <1>15 DEF Next, Main

\* Inv is an invariant.
THEOREM StartupInvariant == Spec => []Inv
BY InvInit, NextKeepsInv, PTL DEF Spec

\* A recorded schema is a whole one and a management API is served on such a database
\* (create_pool, run_migrations and the loop of main), whatever the configurations and
\* wherever the process dies.
THEOREM SchemasStayWhole == Spec => []SchemasAreWhole
<1>1. Inv => SchemasAreWhole
  BY DEF Inv, Recorded, Served, SchemasAreWhole
<1> QED BY <1>1, StartupInvariant, PTL

-----------------------------------------------------------------------------
(* What the strict validation lets pass is refused for its address only.    *)

\* A valid location compiles, unless it has a repetition.
LEMMA ValidRoutesCompile ==
  ASSUME NEW e \in EngineShape, e.type = "http", Validates(e), ~PassesUnbuilt(e)
  PROVE  \A loc \in e.locations : RouteCompiles(loc)
<1> SUFFICES ASSUME NEW loc \in e.locations, ~RouteCompiles(loc) PROVE FALSE
  OBVIOUS
<1>1. loc.pattern # "repetition"
  BY DEF PassesUnbuilt
<1>2. ValidPath(loc)
  BY DEF Validates, ValidLocation
<1> QED BY <1>1, <1>2 DEF ValidPath, RawPatternCompiles, RouteCompiles

LEMMA ValidAuthBuilds ==
  ASSUME NEW e \in EngineShape, e.type = "http", Validates(e), ~PassesUnbuilt(e), e.auth # None
  PROVE  AuthBuilds(e.auth)
<1>1. ValidAuth(e.auth)
  BY DEF Validates, Given
<1>2. e.auth.enabled \/ AuthBuilds(e.auth)
  BY DEF PassesUnbuilt
<1> QED BY <1>1, <1>2, NoneAssumption DEF ValidAuth, AuthBuilds

\* What is left that can refuse a TCP or HTTP engine is somebody who holds its address.
LEMMA ValidBuilds ==
  ASSUME NEW e \in EngineShape, Validates(e), ~PassesUnbuilt(e), e.type # "forward"
  PROVE  Builds(e) /\ Bindable(e) /\ e.listen.kind # "name"
<1>1. e.type \in {"tcp", "http"} /\ e.listen \in AddressShape /\ e.target \in AddressShape
  BY DEF EngineShape
<1>2. \A a \in AddressShape : ValidListen(a) =>
        /\ \/ a.proto = "tcp" /\ a.kind = "socket"
           \/ a.proto = "unix" /\ a.kind = "path"
        /\ AddressParses(a)
  BY DEF AddressShape, ValidListen, AddressParses
<1>3. Bindable(e) /\ e.listen.kind # "name"
  BY <1>1, <1>2 DEF Validates, Bindable
<1>4. FilterBuilds(e)
  BY DEF Validates, ValidCidr, FilterBuilds
<1>5. CASE e.type = "tcp"
  <2>1. AddressParses(e.listen)
    BY <1>1, <1>2 DEF Validates
  <2>2. AddressParses(e.target)
    BY <1>5 DEF Validates, TypeFits, ValidTarget, AddressParses
  <2> QED BY <1>3, <1>4, <1>5, <2>1, <2>2 DEF Builds
<1>6. CASE e.type = "http"
  <2>1. HandlerBuilds(e)
    BY <1>6, ValidRoutesCompile, ValidAuthBuilds DEF HandlerBuilds, Given
  <2>2. Given(e.tls, TlsBuilds)
    BY <1>6 DEF Given, PassesUnbuilt
  <2> QED BY <1>3, <1>4, <1>6, <2>1, <2>2 DEF Builds
<1> QED BY <1>1, <1>5, <1>6

LEMMA ValidForwardBinds ==
  ASSUME NEW e \in EngineShape, Validates(e), e.type = "forward"
  PROVE  Bindable(e) /\ e.listen.kind = "socket"
BY DEF Validates, TypeFits, ValidListen, Bindable

\* A process that came up under strict has validated all its engines.
Screened ==
  /\ DOMAIN config \subseteq Engine
  /\ \A n \in Names : config[n] \in EngineShape
  /\ Up /\ level = "strict" => \A n \in Names : Validates(config[n])

LEMMA ScreenedInit == Init => Screened
BY DEF Init, Screened, Names, Up

LEMMA ScreenedStays ==
  ASSUME Screened, UNCHANGED <<config, level>>, Up' => Up
  PROVE  Screened'
BY DEF Screened, Names

LEMMA ScreenedNext == Screened /\ [Next]_vars => Screened'
<1> SUFFICES ASSUME Screened, [Next]_vars PROVE Screened'
  OBVIOUS
<1>1. ASSUME NEW c \in Configs, NEW l \in Levels, Starts(c, l) PROVE Screened'
  <2>1. DOMAIN c \subseteq Engine /\ \A n \in DOMAIN c : c[n] \in EngineShape
    BY ConfigsAssumption
  <2>2. config' = c /\ level' = l
    BY <1>1 DEF Starts
  <2>3. (l = "strict" /\ pc' = "starting") => \A n \in DOMAIN c : Validates(c[n])
    BY <1>1 DEF Starts
  <2>4. pc' \in {"exited", "starting"}
    BY <1>1 DEF Starts
  <2> QED BY <2>1, <2>2, <2>3, <2>4 DEF Screened, Names, Up
<1>2. CASE Main
  <2>1. UNCHANGED <<config, level>>
    BY <1>2 DEF Main, Begins, EngineFails, EngineStarts, ForwardSpawns, AtStart, Opens, Migrates,
       Records, SpawnsApi, OnDisk, AllTried
  <2>2. Up
    BY <1>2 DEF Main, Begins, EngineFails, EngineStarts, ForwardSpawns, AtStart, At, Opens,
       Migrates, Records, SpawnsApi, AllTried, Up
  <2> QED BY <2>1, <2>2, ScreenedStays
<1>3. CASE ManagementFails
  BY <1>3, ScreenedStays DEF ManagementFails, OnDisk, Up
<1>4. ASSUME NEW n \in Engine, ForwardBinds(n) \/ ApiBinds(n) PROVE Screened'
  BY <1>4, ScreenedStays DEF ForwardBinds, ApiBinds, InTask, Up
<1>5. ASSUME NEW n \in Engine, NEW ip \in Peers, AcceptPanics(n, ip) PROVE Screened'
  BY <1>5, ScreenedStays DEF AcceptPanics, InTask, Up
<1>6. CASE MetricsBinds
  BY <1>6, ScreenedStays DEF MetricsBinds, Up
<1>7. CASE Ends
  BY <1>7, ScreenedStays DEF Ends, Up
<1>8. CASE UNCHANGED vars
  BY <1>8, ScreenedStays DEF vars, Up
<1> QED
  BY <1>1, <1>2, <1>3, <1>4, <1>5, <1>6, <1>7, <1>8 DEF Next

\* Only forward engines bind in a task.
SpawnedForward ==
  /\ DOMAIN engine = Engine
  /\ \A n \in Engine : engine[n] = "spawned" => config[n].type = "forward"

LEMMA SpawnedInit == Init => SpawnedForward
BY DEF Init, SpawnedForward

LEMMA SpawnedNext == SpawnedForward /\ [Next]_vars => SpawnedForward'
<1> SUFFICES ASSUME SpawnedForward, [Next]_vars PROVE SpawnedForward'
  OBVIOUS
<1>1. ASSUME UNCHANGED <<config, engine>> PROVE SpawnedForward'
  BY <1>1 DEF SpawnedForward
<1>2. ASSUME NEW n \in Engine, NEW s \in {"failed", "running", "dead"},
             engine' = [engine EXCEPT ![n] = s], UNCHANGED config
      PROVE  SpawnedForward'
  BY <1>2 DEF SpawnedForward
<1>3. ASSUME engine' = [n \in Engine |-> "waiting"] PROVE SpawnedForward'
  BY <1>3 DEF SpawnedForward
<1>4. ASSUME NEW c \in Configs, NEW l \in Levels, Starts(c, l) PROVE SpawnedForward'
  BY <1>3, <1>4 DEF Starts
<1>5. CASE Ends
  BY <1>3, <1>5 DEF Ends
<1>6. ASSUME NEW n \in Engine, EngineFails(n) \/ EngineStarts(n) PROVE SpawnedForward'
  BY <1>2, <1>6 DEF EngineFails, EngineStarts, AtStart
<1>7. ASSUME NEW n \in Engine, ForwardSpawns(n) PROVE SpawnedForward'
  BY <1>7 DEF ForwardSpawns, AtStart, SpawnedForward
<1>8. ASSUME NEW n \in Engine, ForwardBinds(n) PROVE SpawnedForward'
  BY <1>2, <1>8 DEF ForwardBinds, InTask
<1>9. ASSUME NEW n \in Engine, NEW ip \in Peers, AcceptPanics(n, ip) PROVE SpawnedForward'
  BY <1>2, <1>9 DEF AcceptPanics, InTask
<1>10. ASSUME NEW n \in Engine, Begins(n) \/ ApiBinds(n) PROVE SpawnedForward'
  BY <1>1, <1>10 DEF Begins, ApiBinds, InTask
<1>11. CASE Opens \/ Migrates \/ Records \/ SpawnsApi \/ AllTried \/ ManagementFails
            \/ MetricsBinds \/ UNCHANGED vars
  BY <1>1, <1>11
  DEF Opens, Migrates, Records, SpawnsApi, AllTried, ManagementFails, OnDisk, MetricsBinds, vars
<1> QED
  BY <1>4, <1>5, <1>6, <1>7, <1>8, <1>9, <1>10, <1>11 DEF Next, Main

\* An engine that fails, fails by one of two steps.
LEMMA HowEnginesFail ==
  ASSUME [Next]_vars, NEW n \in Engine, engine[n] # "failed", engine'[n] = "failed"
  PROVE  EngineFails(n) \/ ForwardBinds(n)
<1>1. ASSUME NEW c \in Configs, NEW l \in Levels, Starts(c, l) PROVE FALSE
  BY <1>1 DEF Starts
<1>2. ASSUME NEW m \in Engine, Begins(m) \/ ApiBinds(m) PROVE FALSE
  BY <1>2 DEF Begins, ApiBinds
<1>3. ASSUME NEW m \in Engine, NEW s \in {"failed", "running", "spawned", "dead"},
             engine' = [engine EXCEPT ![m] = s], m # n \/ s # "failed"
      PROVE  FALSE
  BY <1>3
<1>4. ASSUME NEW m \in Engine, EngineFails(m) PROVE EngineFails(n)
  BY <1>3, <1>4 DEF EngineFails
<1>5. ASSUME NEW m \in Engine, EngineStarts(m) \/ ForwardSpawns(m) PROVE FALSE
  BY <1>3, <1>5 DEF EngineStarts, ForwardSpawns
<1>6. ASSUME NEW m \in Engine, ForwardBinds(m) PROVE ForwardBinds(n)
  BY <1>3, <1>6 DEF ForwardBinds
<1>7. ASSUME NEW m \in Engine, NEW ip \in Peers, AcceptPanics(m, ip) PROVE FALSE
  BY <1>3, <1>7 DEF AcceptPanics
<1>8. CASE Opens \/ Migrates \/ Records \/ SpawnsApi \/ AllTried \/ ManagementFails
  BY <1>8 DEF Opens, Migrates, Records, SpawnsApi, AllTried, ManagementFails, OnDisk
<1>9. CASE MetricsBinds \/ UNCHANGED vars
  BY <1>9 DEF MetricsBinds, vars
<1>10. CASE Ends
  BY <1>10 DEF Ends
<1> QED
  BY <1>1, <1>2, <1>4, <1>5, <1>6, <1>7, <1>8, <1>9, <1>10 DEF Next, Main

\* What the strict validation lets pass can be started (validate_engine_config beside
\* what starting the engine checks): whatever the configuration, an engine that lacks
\* nothing of what PassesUnbuilt lists fails only when somebody holds its address or the
\* system refuses it.
THEOREM ValidEnginesStart == Spec => ValidEnginesOnlyMissTheirAddress
<1>1. ASSUME Screened, SpawnedForward, [Next]_vars, NEW n \in Names,
             level = "strict", engine[n] # "failed", engine'[n] = "failed",
             ~PassesUnbuilt(config[n])
      PROVE  ~Free(config[n].listen.at)
  <2>1. n \in Engine /\ config[n] \in EngineShape
    BY <1>1 DEF Screened, Names
  <2>2. EngineFails(n) \/ ForwardBinds(n)
    BY <1>1, <2>1, HowEnginesFail
  <2>3. Up
    BY <2>2 DEF EngineFails, ForwardBinds, AtStart, At, Up
  <2>4. Validates(config[n])
    BY <1>1, <2>3 DEF Screened
  <2>5. CASE EngineFails(n)
    <3>1. config[n].type # "forward" /\ Refused(config[n])
      BY <2>5 DEF EngineFails
    <3> QED BY <1>1, <2>1, <2>4, <3>1, ValidBuilds DEF Refused
  <2>6. CASE ForwardBinds(n)
    <3>1. config[n].type = "forward"
      BY <1>1, <2>1, <2>6 DEF ForwardBinds, SpawnedForward
    <3>2. Bindable(config[n]) /\ config[n].listen.kind = "socket"
      BY <2>1, <2>4, <3>1, ValidForwardBinds
    <3> QED BY <1>1, <2>6, <3>2 DEF ForwardBinds
  <2> QED BY <2>2, <2>5, <2>6
<1>2. Screened /\ SpawnedForward /\ [Next]_vars =>
        [\A n \in Names :
           (level = "strict" /\ engine[n] # "failed" /\ engine'[n] = "failed")
             => ~Free(config[n].listen.at) \/ PassesUnbuilt(config[n])]_vars
  BY <1>1
<1> QED
  BY <1>2, ScreenedInit, ScreenedNext, SpawnedInit, SpawnedNext, PTL
  DEF Spec, ValidEnginesOnlyMissTheirAddress

-----------------------------------------------------------------------------
(* The address filter.                                                     *)

\* Numbers with the same quotient are those of one block.
LEMMA SameBlock ==
  ASSUME NEW k \in Nat \ {0}, NEW a \in Nat, NEW b \in Nat
  PROVE  a \div k = b \div k <=> b \in (a - (a % k)) .. ((a - (a % k)) + k - 1)
OBVIOUS

\* A rule as the filter keeps it.
Kept(rule) ==
  /\ rule.family \in {4, 6} /\ rule.bits \in Nat /\ rule.prefix \in 0 .. Bits(rule.family)

LEMMA RulesAreKept ==
  ASSUME NEW e \in EngineShape, FilterBuilds(e)
  PROVE  \A rule \in Rules(e.allow) \cup Rules(e.deny) : Kept(rule)
<1> SUFFICES ASSUME NEW r \in e.allow \cup e.deny PROVE Kept(Parsed(r, None))
  BY DEF Rules
<1>1. r \in RuleShape /\ IsRule(r, None)
  BY DEF EngineShape, FilterBuilds
<1>2. /\ r.family \in {4, 6} /\ r.bits \in Nat /\ Bits(r.family) \in Nat
      /\ r.prefix # None => r.prefix \in Nat /\ r.prefix <= Bits(r.family)
  BY <1>1, BitsAssumption DEF RuleShape, Option, IsRule, Bits
<1>3. /\ Parsed(r, None).family = r.family /\ Parsed(r, None).bits = r.bits
      /\ Parsed(r, None).prefix = IF r.prefix = None THEN Bits(r.family) ELSE r.prefix
  BY <1>1 DEF Parsed, RuleShape
<1> QED BY <1>2, <1>3 DEF Kept

\* Unless its shift overflows, a rule holds for the addresses of its network.
LEMMA ContainsIsNetwork ==
  ASSUME NEW rule, Kept(rule), NEW ip, ip.bits \in Nat, ~ShiftOverflows(rule)
  PROVE  Contains(rule, ip) <=> rule.family = ip.family /\ ip.bits \in Network(rule)
<1> DEFINE k == 2 ^ Shift(rule)
<1>1. Shift(rule) \in 0 .. V6Bits /\ Shift(rule) # V6Bits
  BY BitsAssumption DEF Kept, Shift, Bits, ShiftOverflows
<1>2. Shift(rule) % V6Bits = Shift(rule)
  BY <1>1, BitsAssumption
<1>3. k \in Nat \ {0}
  BY <1>1, PowerAssumption, BitsAssumption
<1>4. /\ Shifted(rule.bits, Shift(rule)) = rule.bits \div k
      /\ Shifted(ip.bits, Shift(rule)) = ip.bits \div k
  BY <1>2 DEF Shifted
<1>5. Network(rule) = (rule.bits - (rule.bits % k)) .. ((rule.bits - (rule.bits % k)) + k - 1)
  BY DEF Network, Shift
<1>6. rule.bits \in Nat
  BY DEF Kept
<1> HIDE DEF k
<1>7. rule.bits \div k = ip.bits \div k <=> ip.bits \in Network(rule)
  BY <1>3, <1>5, <1>6, SameBlock
<1> QED BY <1>4, <1>7 DEF Contains

\* The lists are asked as they were meant, unless a shift overflows on the way.
LEMMA FilterIsExact ==
  ASSUME NEW e \in EngineShape, FilterBuilds(e), NEW ip, ip.bits \in Nat,
         ~AskingOverflows(Rules(e.allow), Rules(e.deny), ip)
  PROVE  IsAllowed(Rules(e.allow), Rules(e.deny), ip) <=> ShouldAdmit(e, ip)
<1> DEFINE Match(rules) == \E rule \in rules : Contains(rule, ip)
<1>1. ASSUME NEW rules, rules \in {Rules(e.allow), Rules(e.deny)},
             ~\E rule \in rules : rule.family = ip.family /\ ShiftOverflows(rule)
      PROVE  Match(rules) <=> Covers(rules, ip)
  <2>1. \A rule \in rules : Kept(rule)
    BY <1>1, RulesAreKept
  <2>2. \A rule \in rules : rule.family = ip.family => ~ShiftOverflows(rule)
    BY <1>1
  <2>3. \A rule \in rules :
          Contains(rule, ip) <=> rule.family = ip.family /\ ip.bits \in Network(rule)
    <3> TAKE rule \in rules
    <3>1. CASE rule.family = ip.family
      BY <2>1, <2>2, <3>1, ContainsIsNetwork
    <3>2. CASE rule.family # ip.family
      BY <3>2 DEF Contains
    <3> QED BY <3>1, <3>2
  <2> QED BY <2>3 DEF Covers
<1>2. Match(Rules(e.deny)) <=> Covers(Rules(e.deny), ip)
  BY <1>1 DEF AskingOverflows
<1>3. ~Match(Rules(e.deny)) => (Match(Rules(e.allow)) <=> Covers(Rules(e.allow), ip))
  BY <1>1 DEF AskingOverflows
<1>4. Rules(e.allow) # {} <=> e.allow # {}
  BY DEF Rules
<1> HIDE DEF Match
<1>5. IsAllowed(Rules(e.allow), Rules(e.deny), ip)
        <=> ~Match(Rules(e.deny)) /\ (Rules(e.allow) # {} => Match(Rules(e.allow)))
  BY DEF IsAllowed, Match
<1> QED BY <1>2, <1>3, <1>4, <1>5 DEF ShouldAdmit

\* What runs and has a filter has built it.
RunningBuilt ==
  \A n \in Engine : engine[n] = "running" /\ config[n].type # "forward" =>
    n \in Names /\ Builds(config[n])

LEMMA RunningInit == Init => RunningBuilt
BY DEF Init, RunningBuilt

LEMMA RunningNext == Inv /\ SpawnedForward /\ RunningBuilt /\ [Next]_vars => RunningBuilt'
<1> SUFFICES ASSUME Inv, SpawnedForward, RunningBuilt, [Next]_vars PROVE RunningBuilt'
  OBVIOUS
<1>1. ASSUME UNCHANGED <<config, engine>> PROVE RunningBuilt'
  BY <1>1 DEF RunningBuilt, Names
<1>2. ASSUME NEW n \in Engine, NEW s \in {"failed", "spawned", "dead"},
             engine' = [engine EXCEPT ![n] = s], UNCHANGED config
      PROVE  RunningBuilt'
  BY <1>2 DEF RunningBuilt, SpawnedForward, Names
<1>3. ASSUME engine' = [n \in Engine |-> "waiting"] PROVE RunningBuilt'
  BY <1>3 DEF RunningBuilt
<1>4. ASSUME NEW n \in Engine, EngineStarts(n) PROVE RunningBuilt'
  <2>1. current.name = n /\ n \in Names /\ Builds(config[n])
    BY <1>4 DEF EngineStarts, AtStart, At, Inv, Underway
  <2>2. engine' = [engine EXCEPT ![n] = "running"] /\ UNCHANGED config
    BY <1>4 DEF EngineStarts, AtStart
  <2> QED BY <2>1, <2>2 DEF RunningBuilt, SpawnedForward, Names
<1>5. ASSUME NEW n \in Engine, ForwardBinds(n) PROVE RunningBuilt'
  <2>1. config[n].type = "forward"
    BY <1>5 DEF ForwardBinds, SpawnedForward
  <2>2. /\ \E s \in {"running", "failed"} : engine' = [engine EXCEPT ![n] = s]
        /\ UNCHANGED config
    BY <1>5 DEF ForwardBinds, InTask
  <2> QED BY <2>1, <2>2 DEF RunningBuilt, SpawnedForward, Names
<1>6. ASSUME NEW c \in Configs, NEW l \in Levels, Starts(c, l) PROVE RunningBuilt'
  BY <1>3, <1>6 DEF Starts
<1>7. CASE Ends
  BY <1>3, <1>7 DEF Ends
<1>8. ASSUME NEW n \in Engine, EngineFails(n) \/ ForwardSpawns(n) PROVE RunningBuilt'
  BY <1>2, <1>8 DEF EngineFails, ForwardSpawns, AtStart
<1>9. ASSUME NEW n \in Engine, NEW ip \in Peers, AcceptPanics(n, ip) PROVE RunningBuilt'
  BY <1>2, <1>9 DEF AcceptPanics, InTask
<1>10. ASSUME NEW n \in Engine, Begins(n) \/ ApiBinds(n) PROVE RunningBuilt'
  BY <1>1, <1>10 DEF Begins, ApiBinds, InTask
<1>11. CASE Opens \/ Migrates \/ Records \/ SpawnsApi \/ AllTried \/ ManagementFails
            \/ MetricsBinds \/ UNCHANGED vars
  BY <1>1, <1>11
  DEF Opens, Migrates, Records, SpawnsApi, AllTried, ManagementFails, OnDisk, MetricsBinds, vars
<1> QED
  BY <1>4, <1>5, <1>6, <1>7, <1>8, <1>9, <1>10, <1>11 DEF Next, Main

\* A running engine serves the peers its rules admit and no others, whatever the rules,
\* the peers and the widths of the addresses, but for a rule ::/0 (ip_filter.rs and the
\* accept loops).
THEOREM FiltersAreExact == Spec => []FiltersFollowTheirRules
<1>1. ASSUME Screened, RunningBuilt PROVE FiltersFollowTheirRules
  <2> SUFFICES ASSUME NEW n \in Engine, NEW ip \in Peers,
                      engine[n] = "running", Asks(config[n]),
                      ~AskingOverflows(Rules(config[n].allow), Rules(config[n].deny), ip)
               PROVE  Admits(config[n], ip) = ShouldAdmit(config[n], ip)
    BY DEF FiltersFollowTheirRules
  <2> DEFINE e == config[n]
  <2>1. n \in Names /\ Builds(e) /\ e.type # "forward"
    BY <1>1 DEF RunningBuilt, Asks
  <2>2. e \in EngineShape
    BY <1>1, <2>1 DEF Screened
  <2>3. FilterBuilds(e)
    <3>1. e.type \in {"tcp", "http"}
      BY <2>1, <2>2 DEF EngineShape
    <3> QED BY <2>1, <3>1 DEF Builds
  <2>4. ip.bits \in Nat
    BY PeersAssumption
  <2> HIDE DEF e
  <2>5. IsAllowed(Rules(e.allow), Rules(e.deny), ip) <=> ShouldAdmit(e, ip)
    BY <2>2, <2>3, <2>4, FilterIsExact DEF e
  <2>6. Admits(e, ip) <=> IsAllowed(Rules(e.allow), Rules(e.deny), ip)
    BY DEF Admits, e
  <2>7. Admits(e, ip) \in BOOLEAN /\ ShouldAdmit(e, ip) \in BOOLEAN
    BY DEF Admits, ShouldAdmit
  <2> QED BY <2>5, <2>6, <2>7 DEF e
<1> QED
  BY <1>1, ScreenedInit, ScreenedNext, SpawnedInit, SpawnedNext, RunningInit, RunningNext,
     StartupInvariant, PTL DEF Spec
=============================================================================
