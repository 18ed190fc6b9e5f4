---------------------------- MODULE MCSyncClient ----------------------------
(***************************************************************************)
(* SyncClient for TLC, and the Outbox it implements.                       *)
(***************************************************************************)
EXTENDS SyncClient
=============================================================================
