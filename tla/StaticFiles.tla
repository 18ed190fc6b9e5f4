----------------------------- MODULE StaticFiles -----------------------------
(***************************************************************************)
(* A StaticFileService at work on one request, with a file system that       *)
(* other programs change between its steps.  The system calls the service    *)
(* makes between two awaits are one step.                                    *)
(*                                                                         *)
(* A name is a sequence of tokens, a path a sequence of names, and an         *)
(* absolute path begins with the name Top.  A file system maps the absolute   *)
(* paths that exist, without Top, to directories, files with their bytes,     *)
(* symbolic links, and nodes of other kinds.                                  *)
(***************************************************************************)
EXTENDS Texts, Ranges, SequencesExt, FiniteSetsExt

CONSTANTS
  Trees,       \* the states of the file system: no file becomes a directory
  Cwd,         \* the directory the program was started in
  Builds       \* whether an overflow panics, as in a debug build, or wraps around

ASSUME TreesAssumption ==
  \A tree \in Trees : \A p \in DOMAIN tree :
    tree[p].bytes \in Seq(0 .. 255) /\ Len(tree[p].bytes) < W

\* Only directories have something in them, and the target of a link is no link.
ASSUME LinksAssumption ==
  \A tree \in Trees :
    /\ <<>> \in DOMAIN tree /\ tree[<<>>].kind = "dir"
    /\ \A p \in DOMAIN tree :
         /\ p \in Seq(Seq(STRING))
         /\ p # <<>> => Front(p) \in DOMAIN tree /\ tree[Front(p)].kind = "dir"
         /\ tree[p].kind = "link" =>
              /\ tree[p].to \in Seq(Seq(STRING))
              /\ tree[p].to \in DOMAIN tree => tree[tree[p].to].kind # "link"

VARIABLES
  fs,       \* the file system
  changes,  \* the steps before which it has changed since the service was asked
  stage,    \* where the service is
  asked,    \* its root, index files, listing, the path and the Range header
  place,    \* the path it looks at
  size,     \* of the file, when it asked for its metadata
  reply

staticVars == <<fs, changes, stage, asked, place, size, reply>>

Top == <<"top">>
NoReply == [status |-> "none", bytes |-> <<>>, length |-> 0, from |-> 0, to |-> 0]
Says(status) == [NoReply EXCEPT !.status = status]

-----------------------------------------------------------------------------
(* Paths.                                                                   *)

\* url_decode: every plus is a space, and every escape the character of its
\* byte's number, so that the two bytes of a letter become two letters.
Decoded(uri) ==
  LET Of(c) == CASE c = "+" -> <<" ">> [] c = "%2F" -> <<"/">>
                 [] c = "%C3%A9" -> <<"C3", "A9">> [] OTHER -> <<c>>
  IN FlattenSeq([i \in DOMAIN uri |-> Of(uri[i])])

\* The names between the slashes.
Names(uri) == NonEmpty(Split(uri, "/"))

\* What one more name makes of a path: a ".." takes the name before it away, Top
\* included.
LexicalStep(done, name) ==
  IF name = <<".">> THEN done
  ELSE IF name # <<"..">> THEN Append(done, name)
  ELSE IF done = <<>> THEN done ELSE Front(done)

\* canonicalize_path
Lexical(path) ==
  LET Done[n \in 0 .. Len(path)] ==
        IF n = 0 THEN <<>> ELSE LexicalStep(Done[n - 1], path[n])
  IN Done[Len(path)]

\* Where one more name leads to.  The target of a link is no link.
Enter(tree, found, name) ==
  {IF tree[Append(p, name)].kind = "link" THEN tree[Append(p, name)].to
   ELSE Append(p, name) : p \in {q \in found : Append(q, name) \in DOMAIN tree}}

\* Where names lead to from somewhere: a set of at most one path.
Walked(tree, from, names) ==
  LET Found[n \in 0 .. Len(names)] ==
        IF n = 0 THEN {from} ELSE Enter(tree, Found[n - 1], names[n])
  IN Found[Len(names)]

\* What a path stands for in the file system.
RealIn(tree, path) ==
  DOMAIN tree \cap
    IF path = <<>> THEN {}
    ELSE IF path[1] = Top THEN Walked(tree, <<>>, Tail(path))
    ELSE Walked(tree, Cwd, Lexical(path))

Real(path) == RealIn(fs, path)

Is(kind, path) == \E p \in Real(path) : fs[p].kind = kind

\* uri_to_path: a directory gives way to the first index file it has.
UriToPath(service) ==
  LET full == Lexical(service.root \o Names(Decoded(service.uri)))
      present == {i \in DOMAIN service.index : Is("file", Append(full, service.index[i]))}
  IN IF Is("dir", full) /\ present # {}
     THEN Append(full, service.index[CHOOSE i \in present : \A j \in present : i <= j])
     ELSE full

-----------------------------------------------------------------------------
(* The steps.                                                               *)

Asks(service) ==
  /\ stage' = "resolving"
  /\ asked' = service
  /\ changes' = {}
  /\ UNCHANGED <<fs, place, size, reply>>

Replies(r) ==
  /\ stage' = "replied"
  /\ reply' = r

Resolves ==
  /\ stage = "resolving"
  /\ place' = UriToPath(asked)
  /\ stage' = "checking"
  /\ UNCHANGED <<fs, changes, asked, size, reply>>

\* One that trusts the path it has put together.
ChecksPresence ==
  /\ stage = "checking"
  /\ \E p \in Real(place) :
       /\ place' = <<Top>> \o p
       /\ IF fs[p].kind = "file" THEN stage' = "sizing" /\ UNCHANGED reply
          ELSE Replies(Says("403"))
  /\ UNCHANGED <<fs, changes, asked, size>>

\* The checks on the root and the path, both with their links resolved.
Checks ==
  /\ stage = "checking"
  /\ \/ Real(asked.root) = {} /\ Replies(Says("error")) /\ UNCHANGED place
     \/ Real(asked.root) # {} /\ Real(place) = {} /\ Replies(Says("404")) /\ UNCHANGED place
     \/ \E root \in Real(asked.root), p \in Real(place) :
          /\ place' = <<Top>> \o p
          /\ \/ ~IsPrefix(root, p) /\ Replies(Says("403"))
             \/ /\ IsPrefix(root, p)
                /\ \/ fs[p].kind = "file" /\ stage' = "sizing" /\ UNCHANGED reply
                   \/ fs[p].kind = "dir"
                      /\ Replies(Says(IF asked.listing THEN "listing" ELSE "403"))
                   \/ fs[p].kind = "other" /\ Replies(Says("404"))
  /\ UNCHANGED <<fs, changes, asked, size>>

\* The size is asked for; a Range header is read with that size.
Sizes ==
  /\ stage = "sizing"
  /\ \/ Real(place) = {} /\ Replies(Says("error")) /\ UNCHANGED size
     \/ \E p \in Real(place) :
          /\ size' = Len(fs[p].bytes)
          /\ IF asked.range = <<>> THEN stage' = "reading" /\ UNCHANGED reply
             ELSE \E checked \in Builds :
                    LET header == asked.range[1] IN
                    IF checked /\ Overflows(header, size') THEN Replies(Says("panic"))
                    ELSE IF Rejected(header) THEN Replies(Says("error"))
                    ELSE /\ stage' = IF Selected(header, size') = {} THEN "reading"
                                     ELSE "reading range"
                         /\ UNCHANGED reply
  /\ UNCHANGED <<fs, changes, asked, place>>

\* The whole file, also when no part of the header selects anything.
Reads ==
  /\ stage = "reading"
  /\ \/ Real(place) = {} /\ Replies(Says("error"))
     \/ \E p \in Real(place) :
          Replies([Says("200") EXCEPT !.bytes = fs[p].bytes, !.length = Len(fs[p].bytes)])
  /\ UNCHANGED <<fs, changes, asked, place, size>>

\* A read that takes what there is of the range.
ReadsRangeUpTo ==
  /\ stage = "reading range"
  /\ \E p \in Real(place), range \in Selected(asked.range[1], size) :
       LET from == FirstByte(range, size)
           to == LastByte(range, size)
           there == Min({Len(fs[p].bytes), to + 1})
       IN Replies([status |-> "206", bytes |-> SubSeq(fs[p].bytes, from + 1, there),
                   length |-> Extent(from, to), from |-> from, to |-> to])
  /\ UNCHANGED <<fs, changes, asked, place, size>>

\* The first of the ranges, read to its last byte or not at all.
ReadsRange ==
  /\ stage = "reading range"
  /\ \/ Real(place) = {} /\ Replies(Says("error"))
     \/ \E p \in Real(place), range \in Selected(asked.range[1], size) :
          LET from == FirstByte(range, size)
              to == LastByte(range, size)
              length == Extent(from, to)
          IN Replies(IF length > 0 /\ from + length > Len(fs[p].bytes) THEN Says("error")
                     ELSE [status |-> "206", length |-> length, from |-> from, to |-> to,
                           bytes |-> SubSeq(fs[p].bytes, from + 1, from + length)])
  /\ UNCHANGED <<fs, changes, asked, place, size>>

\* Another program changes the files.
Rearranges ==
  /\ stage \in {"resolving", "checking", "sizing", "reading", "reading range"}
  /\ fs' \in Trees \ {fs}
  /\ changes' = changes \cup {stage}
  /\ UNCHANGED <<stage, asked, place, size, reply>>

StaticSteps == Resolves \/ Checks \/ Sizes \/ Reads \/ ReadsRange \/ Rearranges

-----------------------------------------------------------------------------
(* Properties.                                                              *)

\* RangesAreExact.  What static_files.rs replies has as many bytes as it declares,
\* even if the file was cut between its metadata and the read; a partial reply names
\* bytes of the file, in order, and as many as it carries, unless it is the suffix
\* of an empty file, whose last byte comes out as 2^64 - 1.
RangesAreExact ==
  /\ reply.status \in {"200", "206"} => Len(reply.bytes) = reply.length
  /\ reply.status = "206" /\ size > 0 =>
       /\ reply.from <= reply.to /\ reply.to < size
       /\ reply.length = reply.to - reply.from + 1
  /\ reply.status = "206" /\ size = 0 =>
       reply.length = 0 /\ reply.from = 0 /\ reply.to = W - 1
=============================================================================
