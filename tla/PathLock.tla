------------------------------ MODULE PathLock ------------------------------
(***************************************************************************)
(* codexImportPathLocks (src/internal/session/import_codex.go:39-77): a     *)
(* table of locks, one for each session file that is being imported into,   *)
(* with a mutex of its own and a count of the imports that refer to a lock. *)
(* A lock is made by the first import that asks for a path and dropped by   *)
(* the last one that is through with it.                                    *)
(***************************************************************************)
EXTENDS Naturals, FiniteSets

CONSTANTS
    Imports,    \* goroutines that import, each of them again and again
    Paths,      \* filepath.Clean of the session files
    Locks,      \* memory for codexPathLock objects
    Nobody,     \* "no import"
    Nil         \* the nil pointer

ASSUME NamesAssumption ==
    /\ Nobody \notin Imports
    /\ Nil \notin Locks
    /\ IsFiniteSet(Imports)

VARIABLES
    pc,         \* where each import is
    path,       \* the path it asked for
    lock,       \* its pointer to a lock
    mu,         \* the holder of codexImportPathLocks.mu
    table,      \* codexImportPathLocks.locks
    refs,       \* lock.refs
    holder      \* the holder of lock.mu

vars == <<pc, path, lock, mu, table, refs, holder>>

Stages == {"out", "enter", "lookup", "wait", "in", "leave", "drop"}

TypeOK ==
    /\ pc \in [Imports -> Stages]
    /\ path \in [Imports -> Paths]
    /\ lock \in [Imports -> Locks \cup {Nil}]
    /\ mu \in Imports \cup {Nobody}
    /\ table \in [Paths -> Locks \cup {Nil}]
    /\ refs \in [Locks -> Nat]
    /\ holder \in [Locks -> Imports \cup {Nobody}]

Init ==
    /\ pc = [i \in Imports |-> "out"]
    /\ path \in [Imports -> Paths]
    /\ lock = [i \in Imports |-> Nil]
    /\ mu = Nobody
    /\ table = [p \in Paths |-> Nil]
    /\ refs = [k \in Locks |-> 0]
    /\ holder = [k \in Locks |-> Nobody]

Goto(i, from, to) == pc[i] = from /\ pc' = [pc EXCEPT ![i] = to]

-----------------------------------------------------------------------------
(* acquireCodexImportPathLock(p) *)
Ask(i) ==
    /\ Goto(i, "out", "enter")
    /\ \E p \in Paths : path' = [path EXCEPT ![i] = p]
    /\ UNCHANGED <<lock, mu, table, refs, holder>>

LockTable(i) ==
    /\ mu = Nobody
    /\ Goto(i, "enter", "lookup")
    /\ mu' = i
    /\ UNCHANGED <<path, lock, table, refs, holder>>

(* A new lock is a piece of memory nothing points to. *)
Unused == {k \in Locks : /\ \A i \in Imports : lock[i] # k
                         /\ \A p \in Paths : table[p] # k}

(* Wrong on purpose: the lock is counted when it is held. *)
LookupUncounted(i) ==
    /\ Goto(i, "lookup", "wait")
    /\ \E k \in IF table[path[i]] = Nil THEN Unused ELSE {table[path[i]]} :
           /\ lock' = [lock EXCEPT ![i] = k]
           /\ table' = [table EXCEPT ![path[i]] = k]
           /\ refs' = [refs EXCEPT ![k] = IF table[path[i]] = Nil THEN 1 ELSE @]
           /\ holder' = holder
    /\ mu' = Nobody
    /\ UNCHANGED path

Lookup(i) ==
    /\ Goto(i, "lookup", "wait")
    /\ \E k \in IF table[path[i]] = Nil THEN Unused ELSE {table[path[i]]} :
           /\ lock' = [lock EXCEPT ![i] = k]
           /\ table' = [table EXCEPT ![path[i]] = k]
           /\ IF table[path[i]] = Nil
              THEN /\ refs' = [refs EXCEPT ![k] = 1]
                   /\ holder' = [holder EXCEPT ![k] = Nobody]
              ELSE /\ refs' = [refs EXCEPT ![k] = @ + 1]
                   /\ UNCHANGED holder
    /\ mu' = Nobody
    /\ UNCHANGED path

(* Wrong on purpose: TryLock, and off without the lock if it fails. *)
AcquireOrLeave(i) ==
    /\ pc[i] = "wait"
    /\ IF holder[lock[i]] = Nobody
       THEN /\ pc' = [pc EXCEPT ![i] = "in"]
            /\ holder' = [holder EXCEPT ![lock[i]] = i]
       ELSE /\ pc' = [pc EXCEPT ![i] = "leave"]
            /\ UNCHANGED holder
    /\ UNCHANGED <<path, lock, mu, table, refs>>

Acquire(i) ==
    /\ Goto(i, "wait", "in")
    /\ holder[lock[i]] = Nobody
    /\ holder' = [holder EXCEPT ![lock[i]] = i]
    /\ UNCHANGED <<path, lock, mu, table, refs>>

-----------------------------------------------------------------------------
(* The function it returns. *)
Unlock(i) ==
    /\ Goto(i, "in", "leave")
    /\ holder' = [holder EXCEPT ![lock[i]] = Nobody]
    /\ UNCHANGED <<path, lock, mu, table, refs>>

RelockTable(i) ==
    /\ mu = Nobody
    /\ Goto(i, "leave", "drop")
    /\ mu' = i
    /\ UNCHANGED <<path, lock, table, refs, holder>>

(* Wrong on purpose: the entry goes although others wait for the lock. *)
DropAlways(i) ==
    /\ Goto(i, "drop", "out")
    /\ refs' = [refs EXCEPT ![lock[i]] = @ - 1]
    /\ table' = [table EXCEPT ![path[i]] = Nil]
    /\ lock' = [lock EXCEPT ![i] = Nil]
    /\ mu' = Nobody
    /\ UNCHANGED <<path, holder>>

(* Wrong on purpose: the entry stays. *)
DropNever(i) ==
    /\ Goto(i, "drop", "out")
    /\ refs' = [refs EXCEPT ![lock[i]] = @ - 1]
    /\ lock' = [lock EXCEPT ![i] = Nil]
    /\ mu' = Nobody
    /\ UNCHANGED <<path, table, holder>>

Drop(i) ==
    /\ Goto(i, "drop", "out")
    /\ refs' = [refs EXCEPT ![lock[i]] = @ - 1]
    /\ table' = [table EXCEPT ![path[i]] =
                     IF refs[lock[i]] = 1 THEN Nil ELSE @]
    /\ lock' = [lock EXCEPT ![i] = Nil]
    /\ mu' = Nobody
    /\ UNCHANGED <<path, holder>>

Step(i) ==
    \/ LockTable(i) \/ Lookup(i) \/ Acquire(i)
    \/ Unlock(i) \/ RelockTable(i) \/ Drop(i)

Next == \E i \in Imports : Ask(i) \/ Step(i)

Spec == Init /\ [][Next]_vars

(* An import ends (Import: EveryCallReturns) and gives the lock back, and a *)
(* sync.Mutex hands itself over to a waiter that has waited for long.       *)
FairSpec ==
    /\ Spec
    /\ \A i \in Imports :
          /\ WF_vars(Lookup(i) \/ Unlock(i) \/ Drop(i))
          /\ SF_vars(LockTable(i)) /\ SF_vars(Acquire(i))
          /\ SF_vars(RelockTable(i))

-----------------------------------------------------------------------------
(* Two imports of this process never work on the same session file at the    *)
(* same time: no import gets a new lock for a path while another one still   *)
(* holds, or waits for, the old one (acquireCodexImportPathLock).            *)
Exclusive ==
    \A i, j \in Imports :
        pc[i] = "in" /\ pc[j] = "in" /\ path[i] = path[j] => i = j

(* The table remembers a path exactly while imports refer to its lock: the   *)
(* entry of a file nobody imports into is gone (lock.refs).                  *)
Users(p) == {i \in Imports :
                pc[i] \in {"wait", "in", "leave", "drop"} /\ path[i] = p}
NoStaleEntry == \A p \in Paths : table[p] # Nil <=> Users(p) # {}

(* An import that asks for a path gets to work on it.                        *)
EventuallyIn == \A i \in Imports : pc[i] = "enter" ~> pc[i] = "in"

Owner(p) == IF \E i \in Imports : pc[i] = "in" /\ path[i] = p
            THEN CHOOSE i \in Imports : pc[i] = "in" /\ path[i] = p
            ELSE Nobody
Owners == [p \in Paths |-> Owner(p)]

Mutex == INSTANCE PathMutex WITH owner <- Owners

(* The table of locks implements one mutex for each path. *)
ImplementsMutex == Mutex!Spec

-----------------------------------------------------------------------------
(* The inductive invariant.  All imports that are through with Lookup and   *)
(* not yet with Drop have the lock the table names, ...                     *)
PointerInv ==
    \A i \in Imports :
        /\ pc[i] \in {"wait", "in", "leave", "drop"} =>
              lock[i] \in Locks /\ table[path[i]] = lock[i]
        /\ pc[i] = "in" => holder[lock[i]] = i

(* ... which no other path has and whose count is exact and not zero.       *)
CountInv ==
    \A p \in Paths : table[p] # Nil =>
        /\ \A q \in Paths : table[q] = table[p] => q = p
        /\ refs[table[p]] = Cardinality(Users(p))
        /\ Users(p) # {}

IInv == TypeOK /\ PointerInv /\ CountInv
=============================================================================
