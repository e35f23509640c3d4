---------------------------- MODULE MCAdminJobs ----------------------------
(***************************************************************************)
(* Small instances of AdminJobs for TLC.                                   *)
(***************************************************************************)
EXTENDS AdminJobs, TLC

\* Workers are alike, so are erasures and people (safety properties only).
Symmetry == Permutations(Workers) \cup Permutations(Erasers)
            \cup Permutations(People)
=============================================================================
