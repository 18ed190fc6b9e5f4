-------------------------------- MODULE Ntlm --------------------------------
(***************************************************************************)
(* The three messages of an NTLM handshake, as the upstream connector        *)
(* builds and reads them.  A message is its lengths, its offsets and what   *)
(* they enclose; the digests are left out, but for their lengths.  What      *)
(* precedes the fields of message 1 is 48 bytes long and of message 3 is 88,  *)
(* where the offsets count from 32 and 64.                                  *)
(***************************************************************************)
EXTENDS Integers

\* The lengths on the wire are 16 bits wide.
U16(n) == n % 65536

\* The account the proxy signs in with: its version of the protocol, and the
\* lengths of its names in bytes.
Accounts == [version : {1, 2}, domain : Nat, user : Nat, workstation : Nat]

\* Message 1, Negotiate: two fields, which its offsets place from byte 32 on.
Type1(a) ==
  [domain |-> [offset |-> 32, length |-> U16(a.domain)],
   workstation |-> [offset |-> 32 + U16(a.domain), length |-> U16(a.workstation)],
   size |-> 48 + a.domain + a.workstation]

\* A message 2, Challenge, has a size, a signature, a type, and a place it claims
\* for its target information.  It may be refused ...
Unreadable(m) == m.size < 48 \/ ~m.signed \/ m.type # 2

\* A parser that believes the length it is told.
TargetInfoAsClaimed(m) == m.infoLength

\* ... or read, without the target information when that is out of bounds.
TargetInfo(m) ==
  IF m.infoLength > 0 /\ m.infoOffset + m.infoLength <= m.size
  THEN m.infoLength ELSE 0

\* The bytes that prove the password: three DES blocks over the challenge, or an
\* HMAC and the blob around the target information that it is taken of.
BlobLength(m) == 4 + 4 + 8 + 8 + 4 + TargetInfo(m) + 4
NtLength(a, m) == IF a.version = 1 THEN 3 * 8 ELSE 16 + BlobLength(m)

\* Message 3, Authenticate.  Each field begins where the one before it ends; the
\* payload follows in the same order.
Type3(a, m) ==
  LET nt == NtLength(a, m)
      domain == 72 + U16(nt)
      user == domain + U16(a.domain)
      workstation == user + U16(a.user)
  IN [lm |-> [offset |-> 64, length |-> 8],
      nt |-> [offset |-> 72, length |-> U16(nt)],
      domain |-> [offset |-> domain, length |-> U16(a.domain)],
      user |-> [offset |-> user, length |-> U16(a.user)],
      workstation |-> [offset |-> workstation, length |-> U16(a.workstation)],
      size |-> 88 + 8 + nt + a.domain + a.user + a.workstation]
=============================================================================
