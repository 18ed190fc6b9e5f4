--------------------------- MODULE MCMockCentral ---------------------------
(***************************************************************************)
(* MockCentral for TLC: proxies and handler tasks are interchangeable.      *)
(***************************************************************************)
EXTENDS MockCentral, TLC

Symmetry == Permutations(Proxy) \cup Permutations(Task)
=============================================================================
