---------------------------- MODULE AddressFilter ----------------------------
(***************************************************************************)
(* The inbound address filter of the TCP and HTTP engines: lists of CIDR     *)
(* rules to allow and to deny, asked for the peer of every accepted           *)
(* connection.  An address is its family and its bits as a number; a rule      *)
(* has the bits of its address as they were written, host bits included.       *)
(***************************************************************************)
EXTENDS Naturals, FiniteSets

CONSTANTS
  V4Bits,  \* bits of an IPv4 address, 32 in the program
  V6Bits   \* bits of an IPv6 address and of the word both are widened to, 128

ASSUME BitsAssumption == V4Bits \in Nat \ {0} /\ V6Bits \in Nat \ {0} /\ V4Bits < V6Bits

\* True of every V6Bits; stated because the provers have no rule for powers.
ASSUME PowerAssumption == \A n \in 0 .. V6Bits : 2 ^ n > 0

Bits(family) == IF family = 4 THEN V4Bits ELSE V6Bits

\* A rule of the configuration: what stands before the slash is an address or not;
\* the prefix is None when the rule has no slash.
IsRule(rule, None) ==
  /\ rule.family \in {4, 6}
  /\ rule.prefix # None => rule.prefix <= Bits(rule.family)

\* Cidr::parse: a rule without a prefix stands for the one address.
Parsed(rule, None) ==
  [rule EXCEPT !.prefix = IF rule.prefix = None THEN Bits(rule.family) ELSE rule.prefix]

\* The shift that drops the host bits of the rule.
Shift(rule) == Bits(rule.family) - rule.prefix

\* A shift by the width of the word, ::/0, overflows: a debug build panics, a release
\* build masks the amount to 0.
ShiftOverflows(rule) == Shift(rule) = V6Bits

Shifted(bits, amount) == bits \div 2 ^ (amount % V6Bits)

\* Cidr::contains.
Contains(rule, ip) ==
  /\ rule.family = ip.family
  /\ Shifted(rule.bits, Shift(rule)) = Shifted(ip.bits, Shift(rule))

\* An allow list that is asked first.
AllowedFirst(allow, deny, ip) ==
  \/ \E rule \in allow : Contains(rule, ip)
  \/ allow = {} /\ ~\E rule \in deny : Contains(rule, ip)

\* IpFilter::is_allowed over parsed lists; two empty lists are no filter at all.
IsAllowed(allow, deny, ip) ==
  /\ ~\E rule \in deny : Contains(rule, ip)
  /\ allow # {} => \E rule \in allow : Contains(rule, ip)

\* Asking the lists for this peer can come to a shift that overflows: a list is read up
\* to its first match, and the allow list only when no deny rule matched.
AskingOverflows(allow, deny, ip) ==
  LET Overflows(rules) == \E rule \in rules : rule.family = ip.family /\ ShiftOverflows(rule) IN
  \/ Overflows(deny)
  \/ Overflows(allow) /\ ~\E rule \in deny : Contains(rule, ip)

-----------------------------------------------------------------------------
\* The addresses a rule stands for: those that share its first prefix bits.
Network(rule) ==
  LET size == 2 ^ (Bits(rule.family) - rule.prefix)
      first == rule.bits - (rule.bits % size) IN
    first .. first + size - 1

Covers(rules, ip) == \E rule \in rules : rule.family = ip.family /\ ip.bits \in Network(rule)
=============================================================================
