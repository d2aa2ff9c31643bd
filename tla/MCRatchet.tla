----------------------------- MODULE MCRatchet -----------------------------
(* Ratchet on a small instance. *)
EXTENDS Ratchet, TLC
=============================================================================
