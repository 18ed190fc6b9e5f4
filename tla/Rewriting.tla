----------------------------- MODULE Rewriting -----------------------------
(***************************************************************************)
(* What is changed in a request before it goes to the target: its headers,   *)
(* method, URI and JSON body.                                               *)
(*                                                                         *)
(* Headers map lower-case names to values.  The configuration's actions are   *)
(* a set (a HashMap: its order differs from run to run), each with the key it  *)
(* is written under, the name this key stands for, or "invalid", an action, a  *)
(* value, which "unfit" is not as a header, and a condition, <<>> if none.     *)
(*                                                                         *)
(* The content-length is "received" as long as it is the client's, and         *)
(* "computed" when it is that of the body sent.                               *)
(***************************************************************************)
EXTENDS JsonPaths, FiniteSets

Without(headers, name) == [h \in DOMAIN headers \ {name} |-> headers[h]]
With(headers, name, value) ==
  [h \in DOMAIN headers \cup {name} |-> IF h = name THEN value ELSE headers[h]]

\* evaluate_condition of a HeaderTransformer: a header's presence, or its value.
ConditionHolds(condition, headers) ==
  condition # <<>> =>
    /\ condition[1] \in DOMAIN headers
    /\ Len(condition) = 2 => headers[condition[1]] = condition[2]

\* One action: HeaderActionType::apply, and the same in apply_header_actions.
Acted(headers, a) ==
  LET adds == a.action = "overwrite" \/ (a.action = "missed" /\ a.name \notin DOMAIN headers)
  IN IF a.name = "invalid" THEN headers
     ELSE IF a.action = "forceDelete" THEN Without(headers, a.name)
     ELSE IF adds /\ a.value # "unfit" THEN With(headers, a.name, a.value)
     ELSE headers

Orders(S) ==
  LET n == Cardinality(S) IN
  {s \in [1 .. n -> S] : \A i, j \in 1 .. n : i # j => s[i] # s[j]}

\* The actions in one order, each on what the ones before it leave.
Acts(headers, order, conditional) ==
  LET After[k \in 0 .. Len(order)] ==
        IF k = 0 THEN headers
        ELSE IF conditional => ConditionHolds(order[k].condition, After[k - 1])
        THEN Acted(After[k - 1], order[k])
        ELSE After[k - 1]
  IN After[Len(order)]

\* apply_header_actions: an engine's actions have no conditions, the configured ones
\* are not looked at.
EngineActs(headers, order) == Acts(headers, order, FALSE)

\* HeaderTransformer::apply
TransformerActs(headers, order) == Acts(headers, order, TRUE)

\* BodyTransformer::transform
Transformed(v, rule) ==
  IF rule.action = "delete" THEN DeleteByPath(v, rule.path)
  ELSE SetByPath(v, rule.path, rule.value)

\* A body that has been read, and the headers it leaves with: a JSON body takes what
\* the transformation left of it, even if it failed; any other is sent as it came.
BodySent(body, rule) == IF body.type = "json" THEN Transformed(body.value, rule).value ELSE body.value
HeadersSent(headers, body) ==
  IF body.type = "json" THEN With(headers, "content-length", "computed") ELSE headers

\* The engine's actions before the location's.
EngineActsFirst(headers, locationOrder, engineOrder) ==
  EngineActs(EngineActs(headers, engineOrder), locationOrder)

\* The location's actions, then the engine's.
BothAct(headers, locationOrder, engineOrder) ==
  EngineActs(EngineActs(headers, locationOrder), engineOrder)

\* apply_request_modifications of a location with a request configuration: the
\* headers, then the body.
Rewritten(r, rewrite, locationOrder, engineOrder) ==
  LET headers == BothAct(r.headers, locationOrder, engineOrder)
      reads == rewrite.body # <<>> /\ r.body.type # "none"
  IN [method |-> IF rewrite.method = <<>> THEN r.method ELSE rewrite.method[1],
      path |-> IF rewrite.path = <<>> THEN r.path ELSE rewrite.path[1],
      query |-> IF rewrite.uri THEN rewrite.query ELSE r.query,
      headers |-> IF reads THEN HeadersSent(headers, r.body) ELSE headers,
      body |-> IF reads THEN BodySent(r.body, rewrite.body[1]) ELSE r.body.value]
=============================================================================
