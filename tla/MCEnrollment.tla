---------------------------- MODULE MCEnrollment ----------------------------
(***************************************************************************)
(* Small instances of Enrollment for TLC.                                  *)
(***************************************************************************)
EXTENDS Enrollment, TLC

\* Sessions are alike, and so are requests.
Symmetry == Permutations(Sessions) \cup Permutations(Requests)
=============================================================================
