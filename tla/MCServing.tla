------------------------------ MODULE MCServing ------------------------------
(***************************************************************************)
(* An instance of Serving: a root with files, an empty one, links into it     *)
(* and out of it, with and without an index file; locations of every mode;    *)
(* mocks, rewrites and mappings whose keys, paths and orders clash or not.    *)
(***************************************************************************)
EXTENDS Serving

-----------------------------------------------------------------------------
(* Files.                                                                   *)

Dir == [kind |-> "dir", bytes |-> <<>>, to |-> <<>>]
File(b) == [kind |-> "file", bytes |-> b, to |-> <<>>]
Link(p) == [kind |-> "link", bytes |-> <<>>, to |-> p]

S == <<"s">>  \* the root
MCCwd == <<S>>
Nodes ==
  {<< <<>>, Dir >>, << <<S>>, Dir >>,
   << <<S, <<"a">> >>, File(<<1, 2, 3>>) >>,
   << <<S, <<"e">> >>, File(<<>>) >>,
   << <<S, <<"d">> >>, Dir >>,
   << <<S, <<"d">>, <<"i">> >>, File(<<4>>) >>,
   << <<S, <<"b">> >>, Dir >>,
   << <<S, <<"l">> >>, Link(<<S, <<"a">> >>) >>,
   << <<S, <<"o">> >>, Link(<< <<"a">> >>) >>,
   << <<S, <<"q">> >>, [Dir EXCEPT !.kind = "other"] >>,
   << << <<"a">> >>, File(<<9>>) >>}
TreeOf(nodes) == [p \in {n[1] : n \in nodes} |-> (CHOOSE n \in nodes : n[1] = p)[2]]
Cut == {n \in Nodes : n[1] # <<S, <<"a">> >>} \cup {<< <<S, <<"a">> >>, File(<<1>>) >>}
MCTrees ==
  {TreeOf(Nodes), TreeOf(Cut), TreeOf(Nodes \ {<< <<S, <<"a">> >>, File(<<1, 2, 3>>) >>}),
   TreeOf({n \in Nodes : n[1] = <<>>})}

-----------------------------------------------------------------------------
(* Locations.                                                               *)

NoResponse == [given |-> FALSE, proper |-> TRUE, type |-> "none", template |-> <<>>,
               content |-> <<>>, json |-> <<>>]
Response(type, template) ==
  [NoResponse EXCEPT !.given = TRUE, !.type = type, !.template = template, !.content = <<"c">>]
Plain(pattern, mode, provider) ==
  [pattern |-> pattern, mode |-> mode, provider |-> provider, root |-> <<Top, S>>,
   index |-> << <<"h">>, <<"i">> >>, listing |-> FALSE, conditions |-> {},
   response |-> NoResponse, rewrite |-> <<>>]

\* "%2" is an escape only at the end of a query.
MCAsChars == "%26" :> "&" @@ "%3D" :> "=" @@ "%6B" :> "k" @@ "%C3%A9" :> "two characters"
             @@ "%2" :> "U+0002"
MCAsUtf8 == "%26" :> "&" @@ "%3D" :> "=" @@ "%6B" :> "k" @@ "%C3%A9" :> "e acute"
            @@ "%2" :> "%2" @@ "%zz" :> "%zz"
OfKey(k, v) == [type |-> "query", key |-> k, any |-> v = {}, accepts |-> v]
Piece(of, key) == [of |-> of, key |-> key, raw |-> "raw"]
K == <<"k">>
QueryMock ==
  [Plain(<<"/">>, "Prefix", "mock") EXCEPT
     !.conditions = {OfKey(K, {<<"v">>, <<" ">>, <<"=">>, <<"two characters">>, <<"U+0002">>})},
     !.response = Response("template", <<Piece("query", K)>>)]
HeaderMock ==
  [Plain(<<"/">>, "Prefix", "mock") EXCEPT
     !.conditions = {[type |-> "header", key |-> "h", any |-> TRUE, accepts |-> {}]},
     !.response = [Response("static", <<>>) EXCEPT !.proper = FALSE]]
PathMock(t) ==
  [Plain(<<"/", "t">>, "Prefix", "mock") EXCEPT
     !.conditions = {[type |-> t, path |-> <<"/", "t">>, accepts |-> {<<"/", "t", "/">>}]}]

Part(field, indexes) == [field |-> field, indexes |-> indexes]
A == Part("a", <<>>)
B == Part("b", <<>>)
MCPaths ==
  {<<>>, <<A>>, <<B>>, <<A, B>>, <<Part("a", <<0>>)>>, <<Part("a", <<1>>)>>, <<Part("b", <<0>>), A>>,
   <<Part("a", <<0, 0>>)>>, <<Part("a", <<Unclosed>>)>>, <<Part("b", <<NoNumber>>)>>,
   <<Part("", <<0>>), B>>, <<A, Part("b", <<0>>)>>, <<Part("", <<>>), B>>}
MCValues ==
  {Text("t"), Null, Object("a" :> Text("t") @@ "b" :> Text("u")),
   Object("a" :> Array(<<Text("t"), Text("u")>>)),
   Object("a" :> Object("b" :> Array(<<Text("t")>>)) @@ "b" :> Array(<<Object("a" :> Text("t"))>>)),
   Object("a" :> Array(<<Array(<<Text("t")>>), Text("u")>>)),
   Array(<<Object("b" :> Text("t"))>>), Object("" :> Object("b" :> Text("t")))}
WithParts(Js) ==
  Js \cup UNION {{v.fields[key] : key \in DOMAIN v.fields} \cup ToSet(v.elements) : v \in Js}
MCJsonValues == WithParts(WithParts(WithParts(MCValues)))

Act(key, name, action, value, condition) ==
  [key |-> key, name |-> name, action |-> action, value |-> value, condition |-> condition]
NoRewrite == [method |-> <<>>, uri |-> FALSE, path |-> <<>>, query |-> <<>>, headers |-> {},
              body |-> <<>>, proper |-> TRUE]
Rewrite(actions, body) == [NoRewrite EXCEPT !.headers = actions, !.body = body]
ProxyTo(rewrite) == [Plain(<<"/">>, "Prefix", "proxy") EXCEPT !.rewrite = <<rewrite>>]
Engine(locations, actions) == [locations |-> locations, headers |-> actions]

H == "h"
ActionSets ==
  {{}, {Act("H", H, "overwrite", "1", <<>>), Act("Bad key", "invalid", "overwrite", "1", <<>>)},
   {Act("H", H, "overwrite", "1", <<>>), Act("h", H, "forceDelete", "", <<>>)},
   {Act("H", H, "missed", "2", <<>>), Act("C", "content-length", "forceDelete", "", <<>>)},
   {Act("H", H, "overwrite", "unfit", <<>>), Act("G", "g", "overwrite", "3", <<>>)},
   {Act("H", H, "forceDelete", "", <<>>), Act("G", "g", "overwrite", "3", <<"h">>)},
   {Act("F", "f", "overwrite", "3", <<"h", "0">>)}}
StaticEngines ==
  {Engine(<<Plain(<<"/", "t">>, m, "static"), Plain(<<"/", "t", "/">>, m, "static")>>, {}) :
     m \in Modes}
  \cup {Engine(<<[Plain(<<"/", "{x}">>, "PrefixRegex", "static") EXCEPT !.listing = TRUE]>>, {}),
        Engine(<<[Plain(<<"/">>, "Prefix", "static") EXCEPT !.root = << <<".">> >>]>>, {}),
        Engine(<<Plain(<<"/", "{x}", "/", "a">>, "Regex", "proxy")>>, {}),
        Engine(<<Plain(<<"/", "t", "/">>, "PrefixRegex", "static"),
                 Plain(<<"/", "a", "{x}">>, "Regex", "proxy"),
                 Plain(<<"/", "t", "/">>, "Prefix", "static")>>, {})}
MockEngines ==
  {Engine(<<QueryMock, HeaderMock>>, {}), Engine(<<HeaderMock, QueryMock>>, {}),
   Engine(<<PathMock("path"), PathMock("path*")>>, {}),
   Engine(<<PathMock("path regex"), Plain(<<"/">>, "Prefix", "mock")>>, {}),
   Engine(<<[PathMock("path") EXCEPT !.pattern = <<"/">>], PathMock("unknown")>>, {})}
BodyEngines ==
  {Engine(<<ProxyTo(Rewrite({}, <<[action |-> a, path |-> p, value |-> Text("n")]>>))>>, {}) :
     a \in {"overwrite", "add", "delete"}, p \in MCPaths}
HeaderEngines ==
  {Engine(<<ProxyTo(Rewrite(l, b))>>, e) : l \in ActionSets, e \in ActionSets,
     b \in {<<>>, <<[action |-> "add", path |-> <<A>>, value |-> Null]>>}}
UriEngines ==
  {Engine(<<ProxyTo([NoRewrite EXCEPT !.method = <<"PUT">>, !.uri = TRUE, !.path = p, !.query = q,
                                      !.proper = b])>>, {}) :
     p \in {<<>>, << <<"/">> >>}, q \in {<<>>, << <<"q">> >>}, b \in BOOLEAN}

-----------------------------------------------------------------------------
(* Requests.                                                                *)

Request(path) ==
  [method |-> "GET", path |-> path, query |-> <<>>, headers |-> H :> "0",
   body |-> [type |-> "none", value |-> Null], range |-> <<>>]

\* Every path of at most five characters of these, and some more.
Letters == {"/", "t", "a"}
ShortPaths == UNION {{<<"/">> \o s : s \in [1 .. n -> Letters]} : n \in 0 .. 4}
FilePaths ==
  {<<"/", "t", "/", c>> : c \in {"e", "d", "b", "l", "o", "q", "..", ".", "+", "%C3%A9", "-", "~"}}
  \cup {<<"/", "t", "/", "d", "/", "i">>, <<"/", "t", "/", "..", "/", "a">>,
        <<"/", "t", "/", "..", "/", "..", "/", "a">>, <<"/", "t", "/", "d", "%2F", "..", "/", "e">>}
DotPaths ==
  {<<"/", "t", c, "a">> : c \in {"{", "\\"}}
  \cup {<<"/", "a", "/", "..", "/", "t">>, <<"/", "a", "/", "%2E", ".", "/", "t", "/", ".">>,
        <<"/", "..", "/", "t">>, <<"/", "t", "/", "/", "..">>}
ByPath == {Request(p) : p \in ShortPaths \cup FilePaths}

Span(f, l) == [dash |-> TRUE, bad |-> FALSE, first |-> f, last |-> l]
Header(parts) == <<[bytes |-> TRUE, parts |-> parts]>>
Numbers == {<<>>, <<0>>, <<1>>, <<2>>, <<5>>}
Headers ==
  {Header(<<Span(f, l)>>) : f \in Numbers, l \in Numbers}
  \cup {<<[bytes |-> FALSE, parts |-> <<>>]>>,
        Header(<<[Span(<<>>, <<>>) EXCEPT !.dash = FALSE], Span(<<1>>, <<1>>)>>),
        Header(<<Span(<<9>>, <<>>), Span(<<2>>, <<7>>), Span(<<0>>, <<0>>)>>),
        Header(<<Span(<<0>>, <<0>>), [Span(<<0>>, <<0>>) EXCEPT !.bad = TRUE]>>)}
ByRange == {[Request(<<"/", "t", "/", c>>) EXCEPT !.range = h] : c \in {"a", "e"}, h \in Headers}

Queries ==
  {<<"k", "=", "v">>, <<"k">>, <<"j", "&", "k", "=", "v">>, <<"k", "=", "v", "&", "k", "=", "w">>,
   <<"j", "=", "%26", "k", "=", "v">>, <<"k", "=", "%zz">>, <<"k", "=", "+">>,
   <<"j", "=", "v", "&", "k", "=", "v">>, <<"k", "=", "w">>, <<"k", "=", "%3D">>,
   <<"%6B", "=", "v">>, <<"k", "=", "%C3%A9">>, <<"k", "=", "%2">>}
ByQuery == {[Request(<<"/", "t">>) EXCEPT !.query = <<q>>, !.headers = h] :
              q \in Queries, h \in {<<>>, H :> "0"}}
ByBody == {[Request(<<"/", "t">>) EXCEPT !.body = [type |-> "json", value |-> v],
                                         !.headers = "content-length" :> "received"] : v \in MCValues}
          \cup {[Request(<<"/", "t">>) EXCEPT !.body = [type |-> "text", value |-> Text("x")],
                                              !.headers = H :> "0" @@ "content-length" :> "received"]}

-----------------------------------------------------------------------------
(* Library calls.                                                           *)

MCNotWords == {"/", ".", "..", "+", "%2F", "%C3%A9", "-", "~"}
Mapping(u, t) == [uri |-> u, target |-> t]
MCMappings ==
  {Mapping(<<"/">>, <<"/", "u">>), Mapping(<<"/", "t">>, <<"/", "u">>),
   Mapping(<<"/", "t", "/">>, <<"/", "u", "/">>), Mapping(<<"/", "t", "/">>, <<"/", "u">>),
   Mapping(<<"/", "{x}">>, <<"/", "u", "/", "{x}">>),
   Mapping(<<"/", "{x}", "/">>, <<"/", "{x}", "/">>),
   Mapping(<<"/", "{x}", "/">>, <<"/", "u", "/", "{x}">>),
   Mapping(<<"/", "{x}">>, <<"/", "{x}", "/">>),
   Mapping(<<"/", "{x}", "/", "{y}">>, <<"/", "{y}", "/", "u", "/", "{x}">>),
   Mapping(<<"/", "{x}", "/", "a">>, <<"/", "{x}">>),
   Mapping(<<"/", "{x}", "/", "{x}">>, <<"/", "{x}">>), Mapping(<<>>, <<"u">>),
   Mapping(<<"/", "{x}", "t">>, <<"/", "{x}">>),
   Mapping(<<"/", "{x}">>, <<"/", "{y}">>)}
MCServices ==
  {<<Plain(<<"/", "t">>, "Full", "proxy"),
     [Plain(<<"/", "t">>, "Prefix", "mock") EXCEPT !.response = Response(type, <<Piece("query", K)>>)]>> :
     type \in {"static", "template", "json", "none"}}
  \cup {<<[Plain(<<"t">>, "Regex", "proxy") EXCEPT !.response = NoResponse],
          Plain(<<"a">>, "Regex", "static"), Plain(<<"/", "t">>, "Full", "mock")>>}
MCRules ==
  {[conditions |-> {[type |-> "body", key |-> p, any |-> FALSE, accepts |-> {Text("t"), Text("u")}]},
    template |-> <<Piece("body", p)>>] : p \in MCPaths}
  \cup {[conditions |-> {[type |-> "body", key |-> <<A>>, any |-> TRUE, accepts |-> {}]},
         template |-> <<Piece("text", <<>>), Piece("other", <<>>), Piece("body", <<B>>)>>]}

\* Each kind of engine with the requests that tell its cases apart.
MCCases ==
  [engine : StaticEngines, request : ByPath \cup ByRange]
  \cup [engine : MockEngines, request : ByQuery \cup {Request(p) : p \in ShortPaths \cup DotPaths}]
  \cup [engine : BodyEngines \cup HeaderEngines \cup UriEngines, request : ByBody \cup ByQuery]
  \cup [engine : {NoEngine}, request : ByPath \cup ByQuery \cup ByBody]
==============================================================================
