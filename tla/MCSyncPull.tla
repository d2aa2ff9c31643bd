----------------------------- MODULE MCSyncPull -----------------------------
(* SyncPull on a small instance. *)
EXTENDS SyncPull
=============================================================================
