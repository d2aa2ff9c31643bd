----------------------------- MODULE MCMessages -----------------------------
(***************************************************************************)
(* Messages for TLC.                                                       *)
(***************************************************************************)
EXTENDS Messages
=============================================================================
