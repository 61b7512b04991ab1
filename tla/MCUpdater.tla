------------------------------ MODULE MCUpdater ------------------------------
(***************************************************************************)
(* Two showagent processes, three release numbers, any of them with a       *)
(* pre-release suffix.                                                      *)
(***************************************************************************)
EXTENDS Updater, TLC

CONSTANTS p1, p2

ProcSymmetry == Permutations(Procs)
=============================================================================
