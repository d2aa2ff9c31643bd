-------------------------- MODULE MCAuthService --------------------------
(* AuthService on a small instance. *)
EXTENDS AuthService, TLC

Symmetry == Permutations(Users)
=============================================================================
