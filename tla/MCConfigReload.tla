---------------------------- MODULE MCConfigReload ----------------------------
(***************************************************************************)
(* ConfigReload for TLC: one configuration that fails the validation and    *)
(* two that pass.                                                           *)
(***************************************************************************)
EXTENDS ConfigReload
=============================================================================
