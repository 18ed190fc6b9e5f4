--------------------------- MODULE MCForwardProxy ---------------------------
(***************************************************************************)
(* An instance of ForwardProxy: a host on each list, one on both and one on  *)
(* none; a challenge that is read, one too short, one without its signature,  *)
(* and two whose target information is claimed to be longer than they are.   *)
(***************************************************************************)
EXTENDS ForwardProxy

MCHosts == {{"corp"}, {"ads"}, {"corp", "ads"}, {}}
MCAccount == [version |-> 2, domain |-> 6, user |-> 5, workstation |-> 4]

\* 8192 bytes of a reply hold at most 6144 bytes behind its base64.
Challenge(size, length, offset) ==
  [size |-> size, signed |-> TRUE, type |-> 2,
   infoLength |-> length, infoOffset |-> offset]
MCReplies ==
  {Challenge(6144, 6096, 48), Challenge(47, 0, 48),
   [Challenge(60, 12, 48) EXCEPT !.signed = FALSE],
   Challenge(60, 65535, 48), Challenge(60, 12, 49), Challenge(60, 12, 48)}
=============================================================================
