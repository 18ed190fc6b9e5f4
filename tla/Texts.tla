------------------------------- MODULE Texts -------------------------------
(***************************************************************************)
(* A text is a sequence of characters, and has parts between its separators.  *)
(***************************************************************************)
EXTENDS Naturals, Sequences

\* The parts of a text after one more character of it.
Grown(parts, c, at) ==
  IF c = at THEN Append(parts, <<>>)
  ELSE [parts EXCEPT ![Len(parts)] = Append(@, c)]

\* str::split
Split(text, at) ==
  LET Read[n \in 0 .. Len(text)] ==
        IF n = 0 THEN << <<>> >> ELSE Grown(Read[n - 1], text[n], at)
  IN Read[Len(text)]

\* The parts that are not empty.
NonEmpty(parts) ==
  LET Kept[n \in 0 .. Len(parts)] ==
        IF n = 0 THEN <<>>
        ELSE IF parts[n] = <<>> THEN Kept[n - 1] ELSE Append(Kept[n - 1], parts[n])
  IN Kept[Len(parts)]
=============================================================================
