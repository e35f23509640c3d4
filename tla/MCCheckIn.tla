----------------------------- MODULE MCCheckIn -----------------------------
(***************************************************************************)
(* Small instances of CheckIn for TLC.                                     *)
(***************************************************************************)
EXTENDS CheckIn, TLC

\* Guests are alike, so are devices, so are clerks.
Symmetry == Permutations(Guests) \cup Permutations(Devices) \cup Permutations(Clerks)
=============================================================================
