------------------------------ MODULE MCSignIn ------------------------------
(***************************************************************************)
(* Small instances of SignIn for TLC.                                      *)
(***************************************************************************)
EXTENDS SignIn, TLC

\* Requests are alike.
Symmetry == Permutations(Requests)
=============================================================================
