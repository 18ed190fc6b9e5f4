---------------------------- MODULE VersionVector ----------------------------
(***************************************************************************)
(* The version vectors of mysti-common: a finite map from an instance id    *)
(* to a counter, with the operations the central service and the proxies    *)
(* use to decide whether two versions of one mock configuration are         *)
(* ordered or in conflict.  A vector is a function whose domain is the set   *)
(* of ids it has an entry for: an absent entry and an entry 0 are different  *)
(* maps, and the code tells them apart (see ZeroEntryIsConcurrent).          *)
(***************************************************************************)
EXTENDS Naturals

\* A HashMap<Uuid, u64> over the given ids.
IsVector(v, Id) ==
  /\ DOMAIN v \subseteq Id
  /\ v \in [DOMAIN v -> Nat]

\* VersionVector::get: a missing entry reads as 0.
Get(v, i) == IF i \in DOMAIN v THEN v[i] ELSE 0

\* VersionVector::with_instance.
WithInstance(i) == [j \in {i} |-> 1]

\* VersionVector::increment: the entry is created at 0 when missing.
Increment(v, i) ==
  [j \in DOMAIN v \cup {i} |-> IF j = i THEN Get(v, i) + 1 ELSE v[j]]

\* VersionVector::merge: pointwise maximum over the union of the entries.
Merge(v, w) ==
  [j \in DOMAIN v \cup DOMAIN w |->
     IF Get(v, j) >= Get(w, j) THEN Get(v, j) ELSE Get(w, j)]

\* A dominance test that forgets the ids only the other side has.
DominatesIgnoringMissing(v, w) ==
  /\ \A i \in DOMAIN v : v[i] >= Get(w, i)
  /\ \E i \in DOMAIN v : v[i] > Get(w, i)

\* VersionVector::dominates: no entry of v below w, no id of w missing from v,
\* some entry of v above w.
Dominates(v, w) ==
  /\ \A i \in DOMAIN v : v[i] >= Get(w, i)
  /\ DOMAIN w \subseteq DOMAIN v
  /\ \E i \in DOMAIN v : v[i] > Get(w, i)

\* VersionVector::is_concurrent_with.
ConcurrentWith(v, w) ==
  /\ ~Dominates(v, w)
  /\ ~Dominates(w, v)
  /\ v # w

-----------------------------------------------------------------------------
(* The reference definitions the operations are compared with.             *)

\* The pointwise order of vector clocks, over every id.
Leq(v, w, Id) == \A i \in Id : Get(v, i) <= Get(w, i)

\* A vector without zero entries: all that new, touch, increment and merge make.
Canonical(v) == \A i \in DOMAIN v : v[i] > 0
=============================================================================
