----------------------------- MODULE MCPathLock -----------------------------
(***************************************************************************)
(* Three imports, two session files, as many locks as can be in use.        *)
(***************************************************************************)
EXTENDS PathLock

CONSTANTS i1, i2, i3, f1, f2, k1, k2, k3
=============================================================================
