------------------------------ MODULE Serving ------------------------------
(***************************************************************************)
(* What an HTTP engine makes of a request it handles itself: which location   *)
(* takes it, and then the file, the mock or the request to the target that    *)
(* comes of it.  HttpEngine has the connection, its timers and its errors;     *)
(* here are the data.                                                        *)
(*                                                                         *)
(* The same crate exports a HeaderTransformer, a gateway and a MockService     *)
(* that its own binary does not call: the last actions are those of a program  *)
(* that does.                                                               *)
(***************************************************************************)
EXTENDS Locations, MockRules, Rewriting, StaticFiles

CONSTANTS
  Cases,       \* an engine's configuration, which is its locations in order and its
               \* headers, and a request: path, query, headers, body, Range header
  Transforms,  \* sets of header actions of a HeaderTransformer
  Mappings,    \* of the gateway: a path and a target's path
  Services,    \* locations of a MockService
  Rules,       \* conditions and a template
  JsonValues   \* the JSON values of the bodies, and the values within them

ASSUME CasesAssumption ==
  \A c \in Cases :
    /\ c.request.range \in Seq(RangeHeader)
    /\ IsFiniteSet(c.engine.headers)
    /\ c.engine.locations \in Seq(ToSet(c.engine.locations))
    /\ \A i \in DOMAIN c.engine.locations :
         LET rewrite == c.engine.locations[i].rewrite
         IN rewrite # <<>> => IsFiniteSet(rewrite[1].headers)

\* The locations and their paths, with the names of a static one's root.  A parameter is
\* one where a regular expression is made of the pattern; elsewhere it is characters.
Characters == STRING \ Parameters

ASSUME LocationsAssumption ==
  \A c \in Cases :
    /\ c.request.path \in Seq(Characters)
    /\ \A i \in DOMAIN c.engine.locations :
         LET location == c.engine.locations[i] IN
         /\ location.mode \in Modes
         /\ location.pattern \in Seq(STRING)
         /\ location.mode \in {"Full", "Prefix"} => location.pattern \in Seq(Characters)
         /\ location.root \in Seq(Seq(STRING))
         /\ location.index \in Seq(Seq(STRING))

\* A query is a text, and the path of a condition on a body has fields and indexes.
PathParts == [field : STRING, indexes : Seq(Int)]

ASSUME ConditionsAssumption ==
  /\ \A c \in Cases : c.request.query = <<>> \/ c.request.query[1] \in Seq(STRING)
  /\ \A rule \in Rules : \A c \in rule.conditions : c.type = "body" => c.key \in Seq(PathParts)

\* uri_variable takes for a parameter what is behind a slash, and a path with one is
\* read as a regular expression: it is taken to have no other operator of these.
Behind(text, i) == i > 1 /\ text[i - 1] = "/"
Operators == {".", "..", "+", "*", "?", "(", ")", "[", "]", "{", "}", "^", "$", "|", "\\"}

ASSUME MappingsAssumption ==
  \A mapping \in Mappings :
    /\ mapping.uri \in Seq(STRING)
    /\ mapping.target \in Seq(STRING)
    /\ HasParameters(mapping.uri) => ToSet(mapping.uri) \cap Operators = {}
    /\ \A text \in {mapping.uri, mapping.target} :
         \A i \in DOMAIN text : text[i] \in Parameters => Behind(text, i)

ASSUME TransformsAssumption == \A actions \in Transforms : IsFiniteSet(actions)

VARIABLES
  engine,   \* the configuration of the engine that has the request
  request,
  chosen,   \* the location that takes it, 0 if none does
  sent      \* the request to the target, or what a library call came to

vars == <<staticVars, engine, request, chosen, sent>>

Nothing == [method |-> "GET", path |-> <<>>, query |-> <<>>,
            headers |-> <<>>, body |-> Null]
NoEngine == [locations |-> <<>>, headers |-> {}]
NoService == [root |-> <<>>, index |-> <<>>, listing |-> FALSE,
              uri |-> <<>>, range |-> <<>>]

Init ==
  /\ fs \in Trees
  /\ changes = {}
  /\ stage = "idle"
  /\ asked = NoService
  /\ place = <<>>
  /\ size = 0
  /\ reply = NoReply
  /\ \E c \in Cases : engine = c.engine /\ request = c.request
  /\ chosen = 0
  /\ sent = Nothing

Location == engine.locations[chosen]

\* The location that takes a request: a mock whose conditions fail is passed over.
Chosen(e, r) ==
  LET takes == {i \in DOMAIN e.locations :
                  /\ Matches(e.locations[i], r.path)
                  /\ e.locations[i].provider = "mock" =>
                       AllHold(e.locations[i].conditions, r.path, r.query, r.headers, <<>>)}
  IN IF takes = {} THEN 0 ELSE Min(takes)

\* The service of a static location, asked for what the match left over.
StaticService(location, r) ==
  [root |-> location.root, index |-> location.index, listing |-> location.listing,
   uri |-> Remaining(location, r.path), range |-> r.range]

Routes ==
  /\ stage = "idle"
  /\ UNCHANGED <<engine, request, sent>>
  /\ chosen' = Chosen(engine, request)
  /\ \/ chosen' # 0 /\ Location'.provider = "static"
        /\ Asks(StaticService(Location', request))
     \/ chosen' # 0 /\ Location'.provider = "mock"
        /\ stage' = "sleeping"
        /\ UNCHANGED <<fs, changes, asked, place, size, reply>>
     \/ /\ chosen' # 0 => Location'.provider = "proxy"
        /\ stage' = "rewriting"
        /\ UNCHANGED <<fs, changes, asked, place, size, reply>>

\* After its delay; a status that is none is an error.
Mocks ==
  /\ stage = "sleeping"
  /\ LET body == EngineMockBody(Location.response, request.query)
     IN Replies(IF ~Location.response.proper THEN Says("error")
                ELSE [Says("mock") EXCEPT !.bytes = body, !.length = Len(body)])
  /\ UNCHANGED <<fs, changes, asked, place, size, engine, request, chosen, sent>>

\* The location's request configuration, if it has one, and the engine's headers.
Rewrites ==
  /\ stage = "rewriting"
  /\ stage' = "sent"
  /\ \E engineOrder \in Orders(engine.headers) :
       \/ /\ chosen # 0 /\ Location.rewrite # <<>>
          /\ Location.rewrite[1].proper
          /\ \E order \in Orders(Location.rewrite[1].headers) :
               sent' = Rewritten(request, Location.rewrite[1], order, engineOrder)
       \/ /\ chosen # 0 => Location.rewrite = <<>>
          /\ sent' = [method |-> request.method, path |-> request.path,
                      query |-> request.query, body |-> request.body.value,
                      headers |-> EngineActs(request.headers, engineOrder)]
  /\ UNCHANGED <<fs, changes, asked, place, size, reply, engine, request, chosen>>

\* A body that ends before its time, or a method or a path that is none.
RewriteFails ==
  /\ stage = "rewriting"
  /\ chosen # 0
  /\ Location.rewrite # <<>>
  /\ Location.rewrite[1].body # <<>> \/ ~Location.rewrite[1].proper
  /\ Replies(Says("error"))
  /\ UNCHANGED <<fs, changes, asked, place, size, engine, request, chosen, sent>>

Serves == StaticSteps /\ UNCHANGED <<engine, request, chosen, sent>>

-----------------------------------------------------------------------------
(* Callers of the library.                                                  *)

Calls(next) ==
  /\ stage = "idle"
  /\ engine = NoEngine
  /\ stage' = next
  /\ UNCHANGED <<fs, changes, asked, place, size, engine, request, chosen>>

TransformsHeaders(actions) ==
  /\ Calls("transformed")
  /\ \E order \in Orders(actions) :
       sent' = [Nothing EXCEPT !.headers = TransformerActs(request.headers, order)]
  /\ UNCHANGED reply

\* build_target_uri
MapsPath(mapping) ==
  /\ Calls("mapped")
  /\ \/ TargetUri(mapping, request.path) = {} /\ sent' = Nothing
     \/ \E target \in TargetUri(mapping, request.path) :
          sent' = [Nothing EXCEPT !.path = target]
  /\ UNCHANGED reply

\* MockService::match_and_respond.  It keeps the locations that have a response or
\* could have one; from_config leaves their conditions out.
AnswersMock(service) ==
  /\ Calls("replied")
  /\ LET kept == {i \in DOMAIN service :
                   service[i].provider \in {"mock", "static"} \/ service[i].response.given}
         matching == {i \in kept : MockMatches(service[i], request.path)}
         body == LibraryMockBody(service[Min(matching)].response)
     IN reply' = IF matching = {} THEN Says("none")
                 ELSE [Says("mock") EXCEPT !.bytes = body, !.length = Len(body)]
  /\ UNCHANGED sent

\* matches_conditions and render_template, with the body that an engine never hands
\* over to them.
AppliesRule(rule) ==
  /\ request.body.type = "json"
  /\ AllHold(rule.conditions, request.path, request.query, request.headers,
             <<request.body.value>>)
  /\ Calls("replied")
  /\ LET body == Rendered(rule.template, request.query, <<request.body.value>>)
     IN reply' = [Says("mock") EXCEPT !.bytes = body, !.length = Len(body)]
  /\ UNCHANGED sent

Next ==
  \/ Routes
  \/ Mocks
  \/ Rewrites
  \/ RewriteFails
  \/ Serves
  \/ \E actions \in Transforms : TransformsHeaders(actions)
  \/ \E mapping \in Mappings : MapsPath(mapping)
  \/ \E service \in Services : AnswersMock(service)
  \/ \E rule \in Rules : AppliesRule(rule)

Spec == Init /\ [][Next]_vars

-----------------------------------------------------------------------------
(* Properties.                                                              *)

\* A path by its names, empty ones included; the last name of a pattern that ends in
\* a slash is empty, and stands for nothing.
Segments(text) == Split(text, "/")
Width(pattern) == Len(Segments(pattern)) - (IF EndsInSlash(pattern) THEN 1 ELSE 0)
Fits(name, given) == name = given \/ (given # <<>> /\ \E p \in Parameters : name = <<p>>)
FitsNames(pattern, path) ==
  /\ Len(Segments(path)) >= Len(Segments(pattern))
  /\ \A i \in 1 .. Width(pattern) : Fits(Segments(pattern)[i], Segments(path)[i])
NamesAfter(pattern, path) == SubSeq(Segments(path), Width(pattern) + 1, Len(Segments(path)))
Joined(names) ==
  FlattenSeq([i \in DOMAIN names |-> IF i = 1 THEN names[i] ELSE <<"/">> \o names[i]])

FitsLocation(location, path) ==
  /\ FitsNames(location.pattern, path)
  /\ location.mode \in {"Full", "Regex"} =>
       /\ Len(Segments(path)) = Len(Segments(location.pattern))
       /\ EndsInSlash(location.pattern) => EndsInSlash(path)

\* A pattern that ends in a letter, or is empty: as a regular expression, it may stop
\* within a name.
OpenEnded(pattern) == pattern = <<>> \/ pattern[Len(pattern)] \notin Parameters \cup {"/"}
StopsWithinNames(location) == location.mode = "PrefixRegex" /\ OpenEnded(location.pattern)

\* Every parameter of a pattern stands for a whole name.
ParametersAreNames(pattern) ==
  \A i \in DOMAIN pattern : pattern[i] \in Parameters =>
    /\ i > 1 => pattern[i - 1] = "/"
    /\ i < Len(pattern) => pattern[i + 1] = "/"

\* The names a static location is asked for: match_prefix_regex strips a slash that
\* follows what the expression took, also where that ends in one.
NamesAsked(location, path) ==
  LET after == NamesAfter(location.pattern, path)
      stripped == /\ location.mode = "PrefixRegex" /\ EndsInSlash(location.pattern)
                  /\ Len(after) > 1 /\ after[1] = <<>>
  IN IF stripped THEN Tail(after) ELSE after

\* LocationsTakeWholeNames.  Read name by name instead of character by character, the
\* location that takes a request (router/mod.rs, the loop of handler.rs) fits it, no
\* location before it does but for mocks, and a static one is asked for the names that
\* are left.  A PrefixRegex location that ends in a letter may stop within a name, and a
\* parameter with letters beside it stands for less than one.
LocationsTakeWholeNames ==
  [][Routes =>
       /\ \A i \in DOMAIN engine.locations :
            (chosen' = 0 \/ i < chosen') /\ engine.locations[i].provider # "mock"
            => ~FitsLocation(engine.locations[i], request.path)
       /\ LET location == engine.locations[chosen'] IN
          chosen' # 0 /\ ~StopsWithinNames(location) =>
            /\ ParametersAreNames(location.pattern) => FitsLocation(location, request.path)
            /\ location.provider = "static" /\ location.mode \in {"Prefix", "PrefixRegex"}
                 => asked'.uri = Joined(NamesAsked(location, request.path))]_vars

\* What a mapping makes of a path, name by name: a set of at most one path.
Mapped(mapping, path) ==
  LET Stands(c) == Segments(path)[Len(Segments(SubSeq(mapping.uri, 1, LastAt(mapping, c))))]
      target == Filled(mapping.target, [c \in ParametersOf(mapping.target) |-> Stands(c)])
  IN IF ~FitsNames(mapping.uri, path) THEN {}
     ELSE IF \/ NamesAfter(mapping.uri, path) = <<>>
             \/ EndsInSlash(mapping.uri) /\ NamesAfter(mapping.uri, path) = << <<>> >>
          THEN {target}
     ELSE {WithSlash(target) \o Joined(NamesAfter(mapping.uri, path))}

\* Where gateway.rs and the names differ: a parameter that stops at another character
\* than "/", which all but word characters, "|" and "-" are, or has letters beside it; a
\* pattern that stops within a name; one without parameters, of which every occurrence in
\* the path is replaced, and the slashes at its end are not evened out; a parameter that
\* only the target has; two slashes in a row.
AwkwardMapping(mapping, path) ==
  \/ ToSet(path) \cap GatewayStops # {"/"}
  \/ \E i \in DOMAIN path : OccursAt(path, <<"/", "/">>, i)
  \/ HasParameters(mapping.uri) /\ OpenEnded(mapping.uri)
  \/ ~ParametersAreNames(mapping.uri)
  \/ /\ ~HasParameters(mapping.uri)
     /\ mapping.uri # path
     /\ \/ EndsInSlash(mapping.uri) # EndsInSlash(mapping.target)
        \/ \E i \in 2 .. Len(path) + 1 : OccursAt(path, mapping.uri, i)
  \/ ~(ParametersOf(mapping.target) \subseteq ToSet(mapping.uri))

\* GatewayKeepsTheRest.  build_target_uri puts the names a mapping's parameters stand
\* for into the target, in the target's order, and the rest of the path behind it, with
\* one slash between; it maps what its names fit and nothing else.
GatewayKeepsTheRest ==
  [][\A mapping \in Mappings :
       MapsPath(mapping) /\ ~AwkwardMapping(mapping, request.path) =>
         \/ sent'.path \in Mapped(mapping, request.path)
         \/ sent' = Nothing /\ Mapped(mapping, request.path) = {}]_vars

\* What a path names, from the root of a static location on: a set of at most one path.
Named(service, names) ==
  LET at == Real(service.root \o names)
      indexes == {i \in DOMAIN service.index :
                    \E p \in at : Is("file", <<Top>> \o p \o <<service.index[i]>>)}
  IN IF indexes = {} THEN at
     ELSE UNION {Real(<<Top>> \o p \o <<service.index[Min(indexes)]>>) : p \in at}

\* What static_files.rs decodes to something else than the file's name, the names that
\* walk up, also in the root, and the default root, which is none by itself.
AwkwardPath(service, names) ==
  \/ \E i \in DOMAIN names : ToSet(names[i]) \cap {"+", "%2F", "%C3%A9", "."} # {}
  \/ \E i \in DOMAIN names : names[i] = <<"..">>
  \/ ToSet(service.root) \cap {<<".">>, <<"..">>} # {}
  \/ service.root = <<>> \/ service.root[1] # Top

StaticReply == stage = "replied" /\ chosen # 0 /\ Location.provider = "static"
FileSent == reply.status \in {"200", "206"}

\* A file below a root.
FileInside(path) ==
  \E p \in DOMAIN fs, r \in Real(asked.root) :
    IsPrefix(r, p) /\ fs[p].kind = "file" /\ path = <<Top>> \o p

\* Nothing outside the root is served, whatever the path, if no file changes between the
\* check of handle_request and the read.
FilesStayInside ==
  StaticReply /\ FileSent /\ changes \subseteq {"resolving", "checking"} => FileInside(place)

PathIsFollowed ==
  StaticReply /\ changes = {} =>
    LET names == NonEmpty(NamesAfter(Location.pattern, request.path))
        wanted == Named(asked, IF Location.mode \in {"Prefix", "PrefixRegex"} THEN names ELSE <<>>)
        inside == {p \in wanted : \E r \in Real(asked.root) : IsPrefix(r, p)}
    IN ~AwkwardPath(asked, names) /\ ~StopsWithinNames(Location) =>
         /\ FileSent => \E p \in inside : fs[p].kind = "file" /\ place = <<Top>> \o p
         /\ reply.status = "404" => \A p \in inside : fs[p].kind = "other"
         /\ reply.status \in {"403", "listing"} =>
              wanted # inside \/ \E p \in inside : fs[p].kind = "dir"

\* StaticFollowsTheUri.  The names behind a static location lead from its root to the
\* file served, through index files and links, and to a 403 if they lead to a
\* directory or out of the root, and to a 404 if they lead nowhere, unless a file changes
\* between the request and the reply, the path is awkward or the location stops within
\* names.  Nothing outside the root is served whatever the path, and whatever changes
\* up to the check; a link put there between the check and the read is followed.
StaticFollowsTheUri == FilesStayInside /\ PathIsFollowed

\* An escape that is bad, or of a character that both readers do not read the same, as
\* none but ASCII is, or of the one between two pairs.
ReadDifferently(c) ==
  c \notin DOMAIN AsChars \/ AsChars[c] # AsUtf8[c] \/ AsUtf8[c] = "&"

\* A query whose readers could differ: it has such an escape, a pair without "=", a key
\* that is not written plainly, or one twice.
AwkwardQuery(query) ==
  query # <<>> =>
    LET pairs == Split(query[1], "&") IN
    \/ \E c \in ToSet(query[1]) \cap Escapes : ReadDifferently(c)
    \/ \E i \in DOMAIN pairs :
         ~HasEquals(pairs[i]) \/ ToSet(KeyOf(pairs[i])) \cap ({"+"} \cup Escapes) # {}
    \/ \E i, j \in DOMAIN pairs : i # j /\ KeyOf(pairs[i]) = KeyOf(pairs[j])

\* A JSON path with two indexes in one part, or one that is not closed, or an empty part.
AwkwardKey(key) ==
  \E i \in DOMAIN key :
    \/ Len(key[i].indexes) > 1
    \/ ToSet(key[i].indexes) \cap {Unclosed} # {}
    \/ key[i].field = "" /\ key[i].indexes = <<>>

\* What a mock that asks for a value shows where its template has the same key.
ShowsWhatWasAskedFor(conditions, template, query, bytes) ==
  \A c \in {d \in conditions : ~d.any /\ d.type \in {"query", "body"}}, i \in DOMAIN template :
    /\ template = <<template[i]>>
    /\ template[i].of = c.type
    /\ template[i].key = c.key
    /\ c.type = "query" => ~AwkwardQuery(query)
    /\ c.type = "body" => ~AwkwardKey(c.key) /\ \A w \in c.accepts : w.type = "text"
    => bytes \in (IF c.type = "query" THEN c.accepts ELSE {<<w.text>> : w \in c.accepts})

\* MocksShowWhatTheyAskedFor.  The conditions of mock/mod.rs and its templates read
\* queries and JSON paths with code of their own; a placeholder shows the value the
\* condition on the same key accepted, unless the query or the path is one they read
\* differently: AwkwardQuery and AwkwardKey say when.
MocksShowWhatTheyAskedFor ==
  [][/\ Mocks /\ reply'.status = "mock" /\ Location.response.type = "template" =>
          ShowsWhatWasAskedFor(Location.conditions, Location.response.template,
                               request.query, reply'.bytes)
     /\ \A rule \in Rules : AppliesRule(rule) =>
          ShowsWhatWasAskedFor(rule.conditions, rule.template, request.query, reply'.bytes)]_vars

Value(headers, h) == IF h \in DOMAIN headers THEN {headers[h]} ELSE {}
Naming(actions, h) == {a \in actions : a.name = h /\ h # "invalid"}
Writes(a) == a.action \in {"overwrite", "missed"} /\ a.value # "unfit"
Settles(a) == a.action = "forceDelete" \/ (a.action = "overwrite" /\ a.value # "unfit")

\* Actions, some of which are surely done, leave of a header what one of them makes of
\* it, if one of those overwrites or deletes it, and leave it alone if none names it.
LeftBy(actions, surely, before, after, h) ==
  LET own == Naming(actions, h) IN
  /\ own = {} => after = before
  /\ (\E a \in own \cap surely : Settles(a)) =>
       /\ after \subseteq {a.value : a \in {b \in own : Writes(b)}}
       /\ after = {} => \E a \in own : a.action = "forceDelete"

NamesOf(actions) == {a.name : a \in actions}

EngineActsLast ==
  Rewrites =>
    LET given == chosen # 0 /\ Location.rewrite # <<>>
        own == IF given THEN Location.rewrite[1].headers ELSE {}
        made == given /\ Location.rewrite[1].body # <<>> /\ request.body.type = "json"
    IN \A h \in DOMAIN request.headers \cup DOMAIN sent'.headers \cup NamesOf(own \cup engine.headers) :
         LET before == Value(request.headers, h)
             after == Value(sent'.headers, h)
             last == IF Naming(engine.headers, h) = {} THEN own ELSE engine.headers
         IN IF made /\ h = "content-length" THEN after = {"computed"}
            ELSE LeftBy(last, last, before, after, h)

TransformerActsOnce ==
  \A actions \in Transforms : TransformsHeaders(actions) =>
    \A h \in DOMAIN request.headers \cup DOMAIN sent'.headers \cup NamesOf(actions) :
      LeftBy(actions, {a \in actions : a.condition = <<>>},
             Value(request.headers, h), Value(sent'.headers, h), h)

\* EngineHasTheLastWord.  Whatever order the HashMaps of header.rs and handler.rs yield
\* their actions in, two keys for one header included: a header that the engine's actions
\* overwrite or delete goes out as one of them leaves it, whatever a location's action
\* has put there; one that only the location's actions name, as one of those leaves it;
\* one that none names, as it came; and the content-length of a JSON body that was
\* rewritten is that of the body sent, also if an action names it.  Which of two actions
\* on one header is the last, it does not say: that is the map's order.
EngineHasTheLastWord == [][EngineActsLast /\ TransformerActsOnce]_vars

\* Two ways of which one is the beginning of the other.
SameStep(s, t) == s.into = t.into /\ s.key = t.key
Touches(steps, others) ==
  \A i \in 1 .. Len(steps) : i <= Len(others) => SameStep(steps[i], others[i])

\* The way to the value a rule changes: the array, if it deletes elements.
ChangedAt(rule) ==
  IF rule.action = "delete" /\ rule.path # <<>> /\ Last(rule.path).indexes # <<>>
  THEN ParentSteps(rule.path)
  ELSE PathSteps(rule.path)

\* The rules of all locations.
BodyRules ==
  {l.rewrite[1].body[1] :
     l \in {m \in UNION {ToSet(c.engine.locations) : c \in Cases} :
              m.rewrite # <<>> /\ m.rewrite[1].body # <<>>}}

\* A body is made of values; the path of a rule, of fields and indexes.
ASSUME JsonAssumption ==
  /\ \A v \in JsonValues :
       /\ DOMAIN v = {"type", "text", "fields", "elements"}
       /\ \A key \in DOMAIN v.fields : v.fields[key] \in JsonValues
       /\ \A i \in DOMAIN v.elements : v.elements[i] \in JsonValues
  /\ \A c \in Cases : c.request.body.type = "json" => c.request.body.value \in JsonValues
  /\ \A rule \in BodyRules : rule.path \in Seq(PathParts)

ReadsAsRewritten(rule, before, after) ==
  Transformed(before, rule).ok =>
    /\ rule.action # "delete" => GetByPath(after, rule.path) = {rule.value}
    /\ rule.action = "delete" /\ rule.path # <<>> /\ Last(rule.path).indexes = <<>>
         => GetByPath(after, rule.path) = {}

OthersAreKept(rule, before, after) ==
  \A other \in BodyRules :
    ~Touches(ChangedAt(rule), PathSteps(other.path)) =>
      GetByPath(before, other.path) = GetByPath(after, other.path)

BodyIsRewritten ==
  Rewrites /\ chosen # 0 /\ Location.rewrite # <<>> /\ Location.rewrite[1].body # <<>>
    /\ request.body.type = "json" =>
    LET rule == Location.rewrite[1].body[1]
    IN /\ ReadsAsRewritten(rule, request.body.value, sent'.body)
       /\ OthersAreKept(rule, request.body.value, sent'.body)

\* RewritesTouchOnlyTheirPath.  After an overwrite or an add that succeeds the path
\* reads as the value set, after a delete of a field as nothing; what lies on another
\* path is as it was, and stays there even if the rewrite fails half-way, which the
\* engine only logs (handler.rs, body.rs).
RewritesTouchOnlyTheirPath == [][BodyIsRewritten]_vars
=============================================================================
