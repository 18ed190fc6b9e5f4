----------------------------- MODULE MockRules -----------------------------
(***************************************************************************)
(* The conditions a request must meet for a mock, and the bodies of mocks.   *)
(*                                                                         *)
(* A query is a sequence of characters and of escapes; a request's is <<>> when   *)
(* its URI has no "?", and <<q>> otherwise.  A request's body is <<>> or <<v>>,  *)
(* a JSON value.                                                           *)
(***************************************************************************)
EXTENDS Texts, JsonPaths, FiniteSetsExt

CONSTANTS
  AsChars,  \* the conditions' reading of an escape: every byte a character
  AsUtf8    \* the templates': the bytes together, and a bad escape as it is

Escapes == DOMAIN AsUtf8

ASSUME EscapesAssumption ==
  /\ DOMAIN AsChars \subseteq Escapes
  /\ \A e \in Escapes : AsUtf8[e] \in STRING
  /\ Escapes \cap {"+", "&", "="} = {}

Read(c, escapes) == CASE c \in DOMAIN escapes -> escapes[c] [] c = "+" -> " " [] OTHER -> c

\* urlencoding::decode, which gives up at a bad escape, and the caller with it.
DecodedWhole(q) ==
  IF ToSet(q) \cap (Escapes \ DOMAIN AsChars) # {} THEN <<>>
  ELSE [i \in DOMAIN q |-> Read(q[i], AsChars)]

\* url_decode of the templates.
DecodedValue(q) == [i \in DOMAIN q |-> Read(q[i], AsUtf8)]

HasEquals(pair) == "=" \in ToSet(pair)
EqualsAt(pair) == Min({i \in DOMAIN pair : pair[i] = "="})
KeyOf(pair) == IF HasEquals(pair) THEN SubSeq(pair, 1, EqualsAt(pair) - 1) ELSE pair
ValueOf(pair) == IF HasEquals(pair) THEN SubSeq(pair, EqualsAt(pair) + 1, Len(pair)) ELSE <<>>

\* The pairs of a query as matches_query sees them: decoded first, then split.  Of
\* several values of a key the last one counts.
ConditionValue(query, key) ==
  LET pairs == Split(DecodedWhole(IF query = <<>> THEN <<>> ELSE query[1]), "&")
      having == {i \in DOMAIN pairs : KeyOf(pairs[i]) = key}
  IN {ValueOf(pairs[i]) : i \in {j \in having : \A k \in having : k <= j}}

\* A query parameter as it stands in the URI.
TemplateValueRaw(query, key) ==
  LET pairs == IF query = <<>> THEN <<>> ELSE Split(query[1], "&")
      having == {i \in DOMAIN pairs : HasEquals(pairs[i]) /\ KeyOf(pairs[i]) = key}
  IN IF having = {} THEN {} ELSE {ValueOf(pairs[Min(having)])}

\* query_param: split first, given up at a pair without "=", the first value decoded.
TemplateValue(query, key) ==
  LET pairs == IF query = <<>> THEN <<>> ELSE Split(query[1], "&")
      having == {i \in DOMAIN pairs : KeyOf(pairs[i]) = key}
      upTo == {i \in having : /\ \A k \in 1 .. i : HasEquals(pairs[k])
                              /\ \A k \in having : i <= k}
  IN {DecodedValue(ValueOf(pairs[i])) : i \in upTo}

-----------------------------------------------------------------------------
(* Conditions.                                                              *)

\* A condition asks for something by its key: that it is there, or that its value is
\* the one or, by a regular expression, one of those it accepts.
WantedIn(values, condition) ==
  IF condition.any THEN values # {} ELSE values \cap condition.accepts # {}

\* The path that a condition looks at: Url::parse has resolved the names that are dots,
\* taken a backslash for a slash, and escaped some characters.
Dots(name) ==
  LET One == {<<".">>, <<"%2E">>}
  IN CASE name \in One -> 1
       [] name = <<"..">> \/ \E a, b \in One : name = a \o b -> 2
       [] OTHER -> 0

AsEscaped(c) ==
  CASE c = "{" -> "%7B" [] c = "}" -> "%7D" [] c = "\"" -> "%22" [] c = "\\" -> "/" [] OTHER -> c

Parsed(path) ==
  LET names == Tail(Split([i \in DOMAIN path |-> AsEscaped(path[i])], "/"))
      Kept[n \in 0 .. Len(names)] ==
        IF n = 0 THEN <<>>
        ELSE LET left == IF Dots(names[n]) = 2 THEN Front(Kept[n - 1]) ELSE Kept[n - 1]
             IN left \o (IF Dots(names[n]) = 0 THEN <<names[n]>>
                         ELSE IF n = Len(names) THEN << <<>> >> ELSE <<>>)
  IN FlattenSeq([i \in DOMAIN Kept[Len(names)] |-> <<"/">> \o Kept[Len(names)][i]])

\* matches_uri, with the path behind "regex:" left to what it accepts.
PathHolds(path, condition) ==
  CASE condition.type = "path" -> Parsed(path) = condition.path
    [] condition.type = "path*" -> IsPrefix(condition.path, Parsed(path))
    [] condition.type = "path regex" -> Parsed(path) \in condition.accepts

\* matches_single_condition, for a request with the body the caller hands over.
Holds(condition, path, query, headers, body) ==
  CASE condition.type \in {"path", "path*", "path regex"} -> PathHolds(path, condition)
    [] condition.type = "query" -> WantedIn(ConditionValue(query, condition.key), condition)
    [] condition.type = "header" ->
         WantedIn({headers[h] : h \in DOMAIN headers \cap {condition.key}}, condition)
    [] condition.type = "body" ->
         /\ body # <<>>
         /\ WantedIn(GetByPath(body[1], condition.key), condition)
    [] OTHER -> FALSE

\* matches_conditions
AllHold(conditions, path, query, headers, body) ==
  \A c \in conditions : Holds(c, path, query, headers, body)

-----------------------------------------------------------------------------
(* Bodies.  A template is a sequence of texts and of placeholders: of a query  *)
(* parameter, of a JSON path, or of something else.                          *)

\* resolve_placeholder
Resolved(placeholder, query, body) ==
  CASE placeholder.of = "query" -> TemplateValue(query, placeholder.key)
    [] placeholder.of = "body" ->
         IF body = <<>> THEN {} ELSE {<<t>> : t \in WalkJson(body[1], placeholder.key)}
    [] OTHER -> {}

\* render_template: a placeholder that resolves to nothing stays.
Rendered(template, query, body) ==
  LET Show(piece) ==
        IF piece.of = "text" \/ Resolved(piece, query, body) = {} THEN <<piece.raw>>
        ELSE CHOOSE t \in Resolved(piece, query, body) : TRUE
  IN FlattenSeq([i \in DOMAIN template |-> Show(template[i])])

\* The body of an engine's mock (build_mock_response), which has no request body to
\* render, and of the library's (MockBuilder::build_response), which has no query.
EngineMockBody(response, query) ==
  IF response.type = "template" THEN Rendered(response.template, query, <<>>)
  ELSE response.content

LibraryMockBody(response) ==
  CASE response.type = "template" -> Rendered(response.template, <<>>, <<>>)
    [] response.type = "static" ->
         IF response.content # <<>> THEN response.content ELSE response.json
    [] response.type = "json" -> response.json
    [] OTHER -> <<>>
=============================================================================
