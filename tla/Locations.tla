----------------------------- MODULE Locations -----------------------------
(***************************************************************************)
(* How a path is matched: by the router of an HTTP engine, by the locations  *)
(* of the library's MockService, and by the mappings of its gateway, which   *)
(* also write the target's path.                                             *)
(*                                                                         *)
(* A path is a sequence of characters.  A pattern is one too, with a          *)
(* parameter for one or more characters it does not stop at.                 *)
(***************************************************************************)
EXTENDS Naturals, Sequences, SequencesExt, FiniteSetsExt

CONSTANT NotWords  \* the characters that "\w" of a regular expression does not stand for

ASSUME StopsAssumption == "/" \in NotWords

Modes == {"Full", "Prefix", "Regex", "PrefixRegex"}

Parameters == {"{x}", "{y}"}

\* The characters a parameter stops at: of a location, and of a mapping, whose
\* parameters are "[\w|-]+".
RouterStops == {"/"}
GatewayStops == NotWords \ {"|", "-"}

\* The i-th element of a pattern stands for the text from s, exclusive, to e.
Takes(pattern, path, stops, i, s, e) ==
  IF pattern[i] \in Parameters
  THEN s < e /\ \A k \in s + 1 .. e : path[k] \notin stops
  ELSE e = s + 1 /\ path[e] = pattern[i]

\* From where the elements of a pattern after its i-th have what they need.
Fitting(pattern, path, wholly, stops) ==
  LET From[i \in 0 .. Len(pattern)] ==
        IF i = Len(pattern) THEN IF wholly THEN {Len(path)} ELSE 0 .. Len(path)
        ELSE LET after == From[i + 1]
             IN {s \in 0 .. Len(path) : \E e \in after : Takes(pattern, path, stops, i + 1, s, e)}
  IN From

\* Where each element of a pattern ends, at the start of a path: a parameter takes
\* all it can, and gives back what the rest of the pattern needs.  A set of at most
\* one function.
Cuts(pattern, path, wholly, stops) ==
  LET from == Fitting(pattern, path, wholly, stops)
      Cut[i \in 0 .. Len(pattern)] ==
        IF i = 0 THEN 0
        ELSE LET s == Cut[i - 1] IN Max({e \in from[i] : Takes(pattern, path, stops, i, s, e)})
  IN IF 0 \in from[0] THEN {Cut} ELSE {}

\* The rest of a path, slash and all.
RestAsItIs(path, from) == SubSeq(path, from + 1, Len(path))

\* The rest of a path, without the slash it begins with.
Rest(path, from) ==
  IF from < Len(path) /\ path[from + 1] = "/" THEN SubSeq(path, from + 2, Len(path))
  ELSE SubSeq(path, from + 1, Len(path))

EndsInSlash(pattern) == pattern # <<>> /\ pattern[Len(pattern)] = "/"

\* A prefix that may end within a name, as MockService takes it.
MatchesPrefixAnywhere(pattern, path) == IsPrefix(pattern, path)

\* match_prefix
MatchesPrefix(pattern, path) ==
  /\ IsPrefix(pattern, path)
  /\ \/ EndsInSlash(pattern)
     \/ Len(path) = Len(pattern)
     \/ path[Len(pattern) + 1] = "/"

\* match_route
Matches(location, path) ==
  CASE location.mode = "Full" -> location.pattern = path
    [] location.mode = "Prefix" -> MatchesPrefix(location.pattern, path)
    [] location.mode = "Regex" -> Cuts(location.pattern, path, TRUE, RouterStops) # {}
    [] location.mode = "PrefixRegex" -> Cuts(location.pattern, path, FALSE, RouterStops) # {}

\* MatchResult::remaining, of a location that matches.
Remaining(location, path) ==
  CASE location.mode = "Prefix" ->
         IF EndsInSlash(location.pattern)
         THEN SubSeq(path, Len(location.pattern) + 1, Len(path))
         ELSE Rest(path, Len(location.pattern))
    [] location.mode = "PrefixRegex" ->
         LET cut == CHOOSE c \in Cuts(location.pattern, path, FALSE, RouterStops) : TRUE
         IN Rest(path, cut[Len(location.pattern)])
    [] OTHER -> <<>>

\* MockLocation::matches_path, of the location of a MockService that has no regular
\* expression of its own: a prefix need not end with a name.
MockMatches(location, path) ==
  CASE location.mode = "Full" -> location.pattern = path
    [] location.mode = "Prefix" -> IsPrefix(location.pattern, path)
    [] OTHER -> \E s \in 0 .. Len(path) : IsPrefix(location.pattern, SubSeq(path, s + 1, Len(path)))

-----------------------------------------------------------------------------
(* The gateway.                                                             *)

HasParameters(uri) == \E i \in DOMAIN uri : uri[i] \in Parameters

WithSlash(uri) == IF EndsInSlash(uri) THEN uri ELSE Append(uri, "/")

\* UriMapping::match_uri
Maps(mapping, path) ==
  LET cuts == Cuts(mapping.uri, path, FALSE, GatewayStops)
      lastOne == Max({i \in DOMAIN mapping.uri : mapping.uri[i] \in Parameters})
      Ends(cut) == \/ cut[lastOne] = Len(path)
                   \/ cut[lastOne] + 1 = Len(path) /\ EndsInSlash(path)
  IN IF mapping.uri = path THEN "Exact"
     ELSE IF mapping.uri = <<"/">> /\ Len(path) > 1 THEN "Prefix"
     ELSE IF ~HasParameters(mapping.uri)
     THEN IF IsPrefix(WithSlash(mapping.uri), path) THEN "Prefix" ELSE "none"
     ELSE IF cuts = {} THEN "none"
     ELSE IF \E cut \in cuts : Ends(cut) THEN "Variable" ELSE "VariablePrefix"

OccursAt(text, word, i) ==
  i + Len(word) - 1 <= Len(text) /\ SubSeq(text, i, i + Len(word) - 1) = word

\* str::replace: every occurrence, from the left, none of them overlapping.  Nothing
\* occurs around every character.
ReplacedAll(path, old, new) ==
  LET From[i \in 1 .. Len(path) + 1] ==
        IF i > Len(path) THEN <<>>
        ELSE IF OccursAt(path, old, i) THEN new \o From[i + Len(old)]
        ELSE <<path[i]>> \o From[i + 1]
  IN IF old = <<>> THEN new \o FlattenSeq([i \in DOMAIN path |-> <<path[i]>> \o new])
     ELSE From[1]

\* Where a mapping's path has a parameter: one named twice counts where it is last.
LastAt(mapping, name) == Max({i \in DOMAIN mapping.uri : mapping.uri[i] = name})

\* What a parameter of the mapping stands for.
Captured(mapping, path, cut, name) ==
  SubSeq(path, cut[LastAt(mapping, name) - 1] + 1, cut[LastAt(mapping, name)])

\* A target with a text for each of its parameters.
ParametersOf(target) == ToSet(target) \cap Parameters
Filled(target, texts) ==
  FlattenSeq([i \in DOMAIN target |->
                IF target[i] \in Parameters THEN texts[target[i]] ELSE <<target[i]>>])

\* A target with whatever is left of the path behind it.
WithRestAsItIs(target, path, from) == target \o RestAsItIs(path, from)

\* A target with whatever is left of the path behind it, and one slash between.
WithRest(target, path, from) ==
  IF from = Len(path) THEN target ELSE WithSlash(target) \o Rest(path, from)

\* UriMapping::build_target_uri: a set of at most one path.  A target with a
\* parameter that the mapping's own path lacks has none.
TargetUri(mapping, path) ==
  LET matched == Maps(mapping, path)
      own == ParametersOf(mapping.target)
      Meant(cut) == Filled(mapping.target, [c \in own |-> Captured(mapping, path, cut, c)])
      Lacks == \E c \in own : c \notin ToSet(mapping.uri)
  IN IF matched = "none" THEN {}
     ELSE IF matched = "Exact" THEN {mapping.target}
     ELSE IF matched = "Prefix" THEN {ReplacedAll(path, mapping.uri, mapping.target)}
     ELSE IF Lacks THEN {}
     ELSE {WithRest(Meant(cut), path, cut[Len(mapping.uri)]) :
             cut \in Cuts(mapping.uri, path, FALSE, GatewayStops)}
=============================================================================
