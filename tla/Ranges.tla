------------------------------- MODULE Ranges -------------------------------
(***************************************************************************)
(* The Range header of a static location: which bytes of a file of a given  *)
(* size it selects, in the arithmetic of u64 (W is 2^64 in the program).    *)
(*                                                                         *)
(* A header is [bytes |-> it starts with "bytes=", parts |-> the parts       *)
(* between its commas].  A part has one dash or not, a number that cannot    *)
(* be parsed or not, and on either side of the dash a number or nothing.     *)
(***************************************************************************)
EXTENDS Naturals, Sequences

CONSTANT W

ASSUME WordAssumption == W \in Nat \ {0}

Optional(S) == {<<>>} \cup {<<n>> : n \in S}
Parts == [dash : BOOLEAN, bad : BOOLEAN,
          first : Optional(0 .. W - 1), last : Optional(0 .. W - 1)]
RangeHeader == [bytes : BOOLEAN, parts : Seq(Parts)]

\* Subtraction of one, as an optimised build does it.
Decremented(n) == (n + W - 1) % W

\* A part the parser stops at with an error.
Malformed(p) == p.dash /\ p.bad

\* A part that selects something: the others are passed over.
Usable(p, size) ==
  /\ p.dash /\ ~p.bad
  /\ p.first # <<>> \/ p.last # <<>>
  /\ p.first # <<>> => /\ p.first[1] < size
                       /\ p.last # <<>> => p.first[1] <= p.last[1]
  /\ p.first = <<>> => p.last[1] # 0

\* The suffix of an empty file: file_size - 1 has no value in u64.
EmptySuffix(p, size) == size = 0 /\ p.first = <<>>

FirstByte(p, size) ==
  IF p.first # <<>> THEN p.first[1]
  ELSE IF p.last[1] > size THEN 0 ELSE size - p.last[1]

LastByte(p, size) ==
  IF p.first # <<>> /\ p.last # <<>> /\ p.last[1] < Decremented(size) THEN p.last[1]
  ELSE Decremented(size)

\* end - start + 1
Extent(first, last) == (last + W - first + 1) % W

\* parse_range_header selects several ranges, of which its caller takes the first: a set
\* of at most one part.
Selected(header, size) ==
  LET usable == {i \in DOMAIN header.parts : Usable(header.parts[i], size)}
  IN {header.parts[i] : i \in {j \in usable : \A k \in usable : j <= k}}

\* Read in order, up to the first malformed part: a suffix of an empty file stops a
\* build that checks for overflow.
Overflows(header, size) ==
  /\ header.bytes
  /\ \E i \in DOMAIN header.parts :
       /\ Usable(header.parts[i], size) /\ EmptySuffix(header.parts[i], size)
       /\ \A j \in 1 .. i : ~Malformed(header.parts[j])

Rejected(header) ==
  \/ ~header.bytes
  \/ \E i \in DOMAIN header.parts : Malformed(header.parts[i])
=============================================================================
