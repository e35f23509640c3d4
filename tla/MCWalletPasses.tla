---------------------------- MODULE MCWalletPasses ----------------------------
(* Small instances of WalletPasses for TLC.                                *)
EXTENDS WalletPasses, TLC

CONSTANTS i1, i2, f1, p1, p2, none

\* Web processes are interchangeable, and so are passes.
Symmetry == Permutations(Instances) \cup Permutations(Passes)
=============================================================================
