----------------------------- MODULE JsonPaths -----------------------------
(***************************************************************************)
(* The JSON paths of the proxy: the ones BodyTransformer sets and deletes,   *)
(* the ones mock conditions read (get_value_by_path), and the ones templates  *)
(* read (walk_json).                                                        *)
(*                                                                         *)
(* A value is a record of its type, its text, its fields and its elements.    *)
(* A path is a sequence of parts, each a field and the indexes behind it; an  *)
(* index is a number, or Unclosed, or one that is no number.                  *)
(***************************************************************************)
EXTENDS Integers, Sequences, SequencesExt

Unclosed == -1
NoNumber == -2

Text(v) == [type |-> "text", text |-> v, fields |-> <<>>, elements |-> <<>>]
Object(f) == [type |-> "object", text |-> "", fields |-> f, elements |-> <<>>]
Array(s) == [type |-> "array", text |-> "", fields |-> <<>>, elements |-> s]
Null == [type |-> "null", text |-> "", fields |-> <<>>, elements |-> <<>>]

\* What an edit leaves: a failed one may have changed the value before it failed.
Done(v) == [ok |-> TRUE, value |-> v]
Failed(v) == [ok |-> FALSE, value |-> v]

\* A field set in a new object.
WithFieldAlone(object, key, v) == [object EXCEPT !.fields = [k \in {key} |-> v]]

WithField(object, key, v) ==
  [object EXCEPT !.fields = [k \in DOMAIN @ \cup {key} |-> IF k = key THEN v ELSE @[k]]]
WithoutField(object, key) ==
  [object EXCEPT !.fields = [k \in DOMAIN @ \ {key} |-> @[k]]]
WithElement(array, i, v) == [array EXCEPT !.elements[i + 1] = v]
HasField(v, key) == v.type = "object" /\ key \in DOMAIN v.fields
HasElement(v, i) == v.type = "array" /\ i + 1 \in DOMAIN v.elements

-----------------------------------------------------------------------------
(* The way a path leads: into the field of a part, and on into an element for  *)
(* each of its indexes.  An index that is not closed is passed over.           *)

IntoField(part) ==
  IF part.field = "" /\ part.indexes # <<>> THEN <<>>
  ELSE <<[into |-> "field", key |-> part.field,
          missing |-> IF part.indexes = <<>> THEN Object(<<>>) ELSE Array(<<>>)]>>

IntoElements(part) ==
  FlattenSeq([k \in DOMAIN part.indexes |->
    IF part.indexes[k] = Unclosed THEN <<>>
    ELSE <<[into |-> "element", key |-> part.indexes[k], missing |-> Null]>>])

PathSteps(path) == FlattenSeq([k \in DOMAIN path |-> IntoField(path[k]) \o IntoElements(path[k])])

\* An index that is no number leads nowhere.  A walk that makes what it misses makes
\* objects and arrays, but no element.
Leads(v, step, makes) ==
  IF step.into = "element" THEN HasElement(v, step.key)
  ELSE IF makes THEN v.type = "object"
  ELSE HasField(v, step.key)

Into(v, step) ==
  IF step.into = "element" THEN v.elements[step.key + 1]
  ELSE IF HasField(v, step.key) THEN v.fields[step.key]
  ELSE step.missing

Back(v, step, child) ==
  IF step.into = "element" THEN WithElement(v, step.key, child)
  ELSE WithField(v, step.key, child)

\* The values on the way, the k-th before the k-th step and the last at the end: sets
\* of at most one value.
Way(v, steps, makes) ==
  LET At[k \in 1 .. Len(steps) + 1] ==
        IF k = 1 THEN {v}
        ELSE {Into(w, steps[k - 1]) : w \in {u \in At[k - 1] : Leads(u, steps[k - 1], makes)}}
  IN At

AtEnd(way, steps) == way[Len(steps) + 1]

\* The values on the way once the one at its end is `ends`.  What was made on the way is
\* there even if a later step leads nowhere.
Remade(way, steps, ends) ==
  LET New[k \in 1 .. Len(steps) + 1] ==
        IF k = Len(steps) + 1 THEN ends
        ELSE {w \in way[k] : way[k + 1] = {}}
             \cup {Back(w, steps[k], child) : w \in way[k], child \in New[k + 1]}
  IN New

\* An edit of the value at the end of the way: each of `edits` is what it leaves there.
Edited(way, steps, edits) ==
  [ok |-> \E e \in edits : e.ok,
   value |-> CHOOSE v \in Remade(way, steps, {e.value : e \in edits})[1] : TRUE]

\* set_value_by_path, which both overwrite and add call.
SetByPath(v, path, new) ==
  LET steps == PathSteps(path)
      way == Way(v, steps, TRUE)
  IN Edited(way, steps, {Done(new) : w \in AtEnd(way, steps)})

\* delete_array_element: every index is one of the same array.
DeleteElements(v, indexes) ==
  LET Delete(r, i) ==
        IF ~r.ok \/ i = Unclosed THEN r
        ELSE IF i = NoNumber \/ r.value.type # "array" THEN Failed(r.value)
        ELSE IF HasElement(r.value, i)
        THEN Done([r.value EXCEPT !.elements = RemoveAt(@, i + 1)])
        ELSE r
  IN FoldLeft(Delete, Done(v), indexes)

\* The way to what delete_value_by_path takes something away from: the array of an
\* element, the parent of a field.
ParentSteps(path) ==
  PathSteps(Front(path)) \o (IF Last(path).indexes = <<>> THEN <<>> ELSE IntoField(Last(path)))

\* delete_value_by_path: the parent has to be there, the field itself does not.
Deleted(parent, last) ==
  IF last.indexes # <<>> THEN DeleteElements(parent, last.indexes)
  ELSE Done(IF parent.type = "object" THEN WithoutField(parent, last.field) ELSE parent)

DeleteByPath(v, path) ==
  LET steps == ParentSteps(path)
      way == Way(v, steps, FALSE)
  IN IF path = <<>> THEN Done(Null)
     ELSE Edited(way, steps, {Deleted(parent, Last(path)) : parent \in AtEnd(way, steps)})

-----------------------------------------------------------------------------
(* Reading: a set of at most one value.                                      *)

\* get_value_by_path
GetByPath(v, path) ==
  LET steps == PathSteps(path) IN AtEnd(Way(v, steps, FALSE), steps)

AtIndex(found, i) ==
  IF i = Unclosed THEN found ELSE {v.elements[i + 1] : v \in {w \in found : HasElement(w, i)}}

\* walk_json, which reads the first index of a part and no other, finds nothing where one
\* is not closed, and passes over a part that is empty.
AtPart(found, part) ==
  LET inField == IF part.field = "" THEN found
                 ELSE {w.fields[part.field] : w \in {u \in found : HasField(u, part.field)}}
  IN IF part.indexes = <<>> THEN inField
     ELSE IF part.indexes[1] = Unclosed THEN {} ELSE AtIndex(inField, part.indexes[1])

WalkedTo(v, path) ==
  LET At[n \in 0 .. Len(path)] == IF n = 0 THEN {v} ELSE AtPart(At[n - 1], path[n])
  IN At[Len(path)]

\* What a template shows of a value: a set of at most one text.
WalkJson(v, path) ==
  LET Inline(w) == IF w.type = "null" THEN "null" ELSE w.text
  IN {Inline(w) : w \in {u \in WalkedTo(v, path) : u.type \in {"text", "null"}}}
=============================================================================
