--------------------------- MODULE MCIncrementalPull ---------------------------
(***************************************************************************)
(* IncrementalPull for TLC: configurations and pullers are interchangeable. *)
(***************************************************************************)
EXTENDS IncrementalPull, TLC

Symmetry == Permutations(Config) \cup Permutations(Puller)
=============================================================================
