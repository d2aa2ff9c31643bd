--------------------------- MODULE MCAttachments ---------------------------
(* Attachments on a small instance. *)
EXTENDS Attachments, TLC

Symmetry == Permutations(Bytes)
=============================================================================
