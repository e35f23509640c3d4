------------------------ MODULE MCWalletLifecycle ------------------------
(* Small instances of WalletLifecycle for TLC.                             *)
EXTENDS WalletLifecycle, TLC

CONSTANTS a1, a2, w

\* Requests are interchangeable.
Symmetry == Permutations(Actors)
=============================================================================
