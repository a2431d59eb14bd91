------------------------------ MODULE MCSignIn ------------------------------
(***************************************************************************)
(* SignIn for TLC: calls are interchangeable.                              *)
(***************************************************************************)
EXTENDS SignIn, TLC

Symmetry == Permutations(Calls)

=============================================================================
