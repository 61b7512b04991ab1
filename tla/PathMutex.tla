----------------------------- MODULE PathMutex -----------------------------
(***************************************************************************)
(* What acquireCodexImportPathLock promises: at any time at most one import *)
(* of this process works on a session file.                                 *)
(***************************************************************************)
CONSTANTS
    Imports,    \* the goroutines that import
    Paths,      \* the session files
    Nobody

VARIABLE owner  \* owner[p]: the import that may work on file p

Init == owner = [p \in Paths |-> Nobody]

Enter(i, p) == owner[p] = Nobody /\ owner' = [owner EXCEPT ![p] = i]

Leave(i, p) == owner[p] = i /\ owner' = [owner EXCEPT ![p] = Nobody]

Next == \E i \in Imports, p \in Paths : Enter(i, p) \/ Leave(i, p)

Spec == Init /\ [][Next]_owner
=============================================================================
