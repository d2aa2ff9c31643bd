----------------------------- MODULE MCRealtime -----------------------------
(***************************************************************************)
(* Realtime within Shell for TLC: the pages drive the push channel, and    *)
(* Spec, the specification of the channel alone, is one of the properties. *)
(***************************************************************************)
EXTENDS Shell
=============================================================================
