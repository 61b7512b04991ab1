------------------------------ MODULE MCImport ------------------------------
(***************************************************************************)
(* Small instances of Import for TLC: a key written by a local file writer, *)
(* one written through a CLI and two appended to the same Codex session.    *)
(***************************************************************************)
EXTENDS ImportInvariants, TLC

CONSTANTS c1, c2, c3, file1, cli1, app1, app2, t1, p1, p2

KindOf == [k \in Keys |-> CASE k = file1 -> "file"
                            [] k = cli1 -> "cli"
                            [] OTHER -> "append"]
OnT1 == [k \in Keys |-> t1]

OneProcess == [c \in Calls |-> p1]
TwoProcesses == [c \in Calls |-> IF c = c1 THEN p1 ELSE p2]

OwnSymmetry == Permutations(Calls)
=============================================================================
