---------------------------- MODULE MCLocalStore ----------------------------
(***************************************************************************)
(* LocalStore for TLC: two messages that share a word.                     *)
(***************************************************************************)
EXTENDS LocalStore, TLC

CONSTANTS m1, m2, w1, w2

MCText == (m1 :> <<w1, w2>>) @@ (m2 :> <<w2>>)
=============================================================================
