--------------------------- MODULE MCEventWrites ---------------------------
(* Small instances of EventWrites. *)
EXTENDS EventWrites, TLC

CONSTANTS r1, r2, r3

Symmetry == Permutations(Requests)
AllButCli == DOMAIN Plan \ {"cli"}
BulkAndImport == {"bulk", "import"}
EraseAndCli == {"erase", "cli"}
\* Files that list nobody, or both people in either order: who -> at which line.
AnyOrder == {<<>>, <<1, 2>>, <<2, 1>>}
=============================================================================
