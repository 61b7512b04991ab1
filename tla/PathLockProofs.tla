-------------------------- MODULE PathLockProofs --------------------------
(***************************************************************************)
(* For any number of imports and session files: the table of counted locks  *)
(* is one mutex for each file.  The proof rests on the count: an entry is   *)
(* dropped only by the last import that refers to it, so an import that     *)
(* finds no entry may make a new lock.                                      *)
(***************************************************************************)
EXTENDS PathLock, FiniteSetTheorems, TLAPS

(* The imports that refer to a lock can be counted. *)
LEMMA UsersFinite ==
  ASSUME NEW p \in Paths
  PROVE  IsFiniteSet(Users(p)) /\ Cardinality(Users(p)) \in Nat
<1>1. Users(p) \subseteq Imports
  BY DEF Users
<1>2. IsFiniteSet(Users(p))
  BY <1>1, FS_Subset, NamesAssumption
<1> QED
  BY <1>2, FS_CardinalityType

(* A step that moves an import between stages of the same kind. *)
LEMMA SameUsers ==
  ASSUME TypeOK, NEW i \in Imports, path' = path,
         NEW from \in {"wait", "in", "leave"}, NEW to \in {"in", "leave", "drop"},
         Goto(i, from, to)
  PROVE  \A p \in Paths : Users(p)' = Users(p)
  BY DEF TypeOK, Users, Goto

(* The initial state satisfies the invariant. *)
LEMMA InvInit == Init => IInv
  BY NamesAssumption DEF Init, IInv, TypeOK, PointerInv, CountInv, Users, Stages

(* Lookup adds one import to the users of its path and counts it. *)
LEMMA LookupStep ==
  ASSUME IInv, NEW i \in Imports, Lookup(i)
  PROVE  IInv'
<1> DEFINE p == path[i]
<1>0. p \in Paths /\ pc[i] = "lookup" /\ TypeOK /\ pc' = [pc EXCEPT ![i] = "wait"] /\ path' = path
  BY DEF IInv, TypeOK, Lookup, Goto
<1>1. PICK k \in IF table[p] = Nil THEN Unused ELSE {table[p]} :
        /\ lock' = [lock EXCEPT ![i] = k]
        /\ table' = [table EXCEPT ![p] = k]
        /\ IF table[p] = Nil
           THEN /\ refs' = [refs EXCEPT ![k] = 1]
                /\ holder' = [holder EXCEPT ![k] = Nobody]
           ELSE /\ refs' = [refs EXCEPT ![k] = @ + 1]
                /\ UNCHANGED holder
  BY DEF Lookup
<1>2. k \in Locks
  BY <1>0, <1>1 DEF Unused, TypeOK
<1>3. Users(p)' = Users(p) \cup {i} /\ i \notin Users(p)
  BY <1>0 DEF Users, TypeOK
<1>4. \A q \in Paths \ {p} : Users(q)' = Users(q)
  BY <1>0 DEF Users, TypeOK
<1>5. Cardinality(Users(p)') = Cardinality(Users(p)) + 1
  BY <1>0, <1>3, UsersFinite, FS_AddElement
<1>6. table[p] = Nil => Users(p) = {}
  BY <1>0, NamesAssumption DEF IInv, PointerInv, Users
<1>7. \A q \in Paths \ {p} : table[q] # k
  <2>1. CASE table[p] = Nil
    BY <2>1, <1>1 DEF Unused
  <2>2. CASE table[p] # Nil
    BY <2>2, <1>0, <1>1 DEF IInv, CountInv
  <2> QED
    BY <2>1, <2>2
<1>8. TypeOK'
  <2>1. refs' \in [Locks -> Nat]
    BY <1>0, <1>1, <1>2 DEF TypeOK
  <2>2. mu' = Nobody
    BY DEF Lookup
  <2> QED
    BY <1>0, <1>1, <1>2, <2>1, <2>2 DEF TypeOK, Stages
<1>9. PointerInv'
  <2> SUFFICES ASSUME NEW j \in Imports
               PROVE  /\ pc'[j] \in {"wait", "in", "leave", "drop"} =>
                           lock'[j] \in Locks /\ table'[path'[j]] = lock'[j]
                      /\ pc'[j] = "in" => holder'[lock'[j]] = j
    BY DEF PointerInv
  <2>1. CASE j = i
    BY <2>1, <1>0, <1>1, <1>2 DEF TypeOK
  <2>2. CASE j # i /\ path[j] = p
    <3>1. pc[j] \in {"wait", "in", "leave", "drop"} => table[p] = lock[j] /\ table[p] # Nil
      BY <2>2, <1>0, <1>6 DEF IInv, PointerInv, Users
    <3> QED
      BY <3>1, <2>2, <1>0, <1>1, <1>2 DEF TypeOK, IInv, PointerInv
  <2>3. CASE j # i /\ path[j] # p
    <3>1. pc[j] \in {"wait", "in", "leave", "drop"} => lock[j] # k
      BY <2>3, <1>0, <1>7 DEF IInv, PointerInv, TypeOK
    <3> QED
      BY <3>1, <2>3, <1>0, <1>1, <1>2 DEF TypeOK, IInv, PointerInv
  <2> QED
    BY <2>1, <2>2, <2>3
<1>10. CountInv'
  <2>0. k # Nil
    BY <1>2, NamesAssumption
  <2> SUFFICES ASSUME NEW q \in Paths, table'[q] # Nil
               PROVE  /\ \A r \in Paths : table'[r] = table'[q] => r = q
                      /\ refs'[table'[q]] = Cardinality(Users(q)')
                      /\ Users(q)' # {}
    BY DEF CountInv, Users
  <2>1. CASE q = p
    <3>1. \A r \in Paths : table'[r] = table'[p] => r = p
      BY <1>0, <1>1, <1>7 DEF TypeOK
    <3>2. refs'[k] = Cardinality(Users(p)')
      <4>1. CASE table[p] = Nil
        <5>1. Cardinality(Users(p)) = 0
          BY <4>1, <1>6, FS_EmptySet
        <5> QED
          BY <4>1, <5>1, <1>0, <1>1, <1>2, <1>5 DEF TypeOK
      <4>2. CASE table[p] # Nil
        <5>1. k = table[p] /\ refs[k] = Cardinality(Users(p))
          BY <4>2, <1>0, <1>1 DEF IInv, CountInv
        <5> QED
          BY <4>2, <5>1, <1>1, <1>2, <1>0, <1>5 DEF TypeOK
      <4> QED
        BY <4>1, <4>2
    <3> QED
      BY <2>1, <3>1, <3>2, <1>0, <1>1, <1>3 DEF TypeOK
  <2>2. CASE q # p
    <3>1. table'[q] = table[q] /\ table[q] # k
      BY <2>2, <1>0, <1>1, <1>7 DEF TypeOK
    <3>2. table[q] \in Locks
      BY <3>1 DEF IInv, TypeOK
    <3>3. refs'[table[q]] = refs[table[q]]
      BY <3>1, <3>2, <1>0, <1>1, <1>2 DEF TypeOK
    <3>4. \A r \in Paths : table'[r] = table'[q] => r = q
      BY <3>1, <1>0, <1>1 DEF IInv, CountInv, TypeOK
    <3> QED
      BY <2>2, <3>1, <3>3, <3>4, <1>4 DEF IInv, CountInv
  <2> QED
    BY <2>1, <2>2
<1> QED
  BY <1>8, <1>9, <1>10 DEF IInv

(* Drop takes one import from the users of its path; the last takes the     *)
(* entry with it.                                                           *)
LEMMA DropStep ==
  ASSUME IInv, NEW i \in Imports, Drop(i)
  PROVE  IInv'
<1> PICK p \in Paths, k \in Locks \cup {Nil} : p = path[i] /\ k = lock[i]
  BY DEF IInv, TypeOK
<1>0. /\ p = path[i] /\ k = lock[i] /\ pc[i] = "drop" /\ TypeOK
      /\ pc' = [pc EXCEPT ![i] = "out"] /\ path' = path /\ holder' = holder
      /\ lock' = [lock EXCEPT ![i] = Nil]
      /\ refs' = [refs EXCEPT ![k] = @ - 1]
      /\ table' = [table EXCEPT ![p] = IF refs[k] = 1 THEN Nil ELSE @]
      /\ mu' = Nobody
  BY DEF IInv, TypeOK, Drop, Goto
<1>1. k \in Locks /\ table[p] = k /\ k # Nil
  BY <1>0, NamesAssumption DEF IInv, PointerInv
<1>2. /\ \A q \in Paths : table[q] = k => q = p
      /\ refs[k] = Cardinality(Users(p))
  BY <1>0, <1>1 DEF IInv, CountInv
<1>3. i \in Users(p) /\ Users(p)' = Users(p) \ {i}
  BY <1>0 DEF Users, TypeOK
<1>4. \A q \in Paths \ {p} : Users(q)' = Users(q)
  BY <1>0 DEF Users, TypeOK
<1>5. /\ IsFiniteSet(Users(p)')
      /\ Cardinality(Users(p)') = refs[k] - 1
  <2>1. IsFiniteSet(Users(p)) /\ Cardinality(Users(p)) = refs[k]
    BY <1>0, <1>2, UsersFinite
  <2>2. /\ IsFiniteSet(Users(p) \ {i})
        /\ Cardinality(Users(p) \ {i}) = Cardinality(Users(p)) - 1
    BY ONLY <1>3, <2>1, FS_RemoveElement
  <2> QED
    BY <1>3, <2>1, <2>2
<1>6. refs[k] = 1 <=> Users(p)' = {}
  BY <1>5, <1>2, <1>0, UsersFinite, FS_EmptySet, FS_CardinalityType
<1>7. refs[k] \in Nat /\ refs[k] # 0
  BY <1>0, <1>1, <1>2, <1>3, UsersFinite, FS_EmptySet DEF TypeOK
<1>8. TypeOK'
  BY <1>0, <1>1, <1>7 DEF TypeOK, Stages
<1>9. PointerInv'
  <2> SUFFICES ASSUME NEW j \in Imports
               PROVE  /\ pc'[j] \in {"wait", "in", "leave", "drop"} =>
                           lock'[j] \in Locks /\ table'[path'[j]] = lock'[j]
                      /\ pc'[j] = "in" => holder'[lock'[j]] = j
    BY DEF PointerInv
  <2>1. CASE j = i
    BY <2>1, <1>0 DEF TypeOK
  <2>2. CASE j # i /\ path[j] = p
    <3>1. pc[j] \in {"wait", "in", "leave", "drop"} => refs[k] # 1
      BY <2>2, <1>3, <1>6 DEF Users
    <3> QED
      BY <3>1, <2>2, <1>0 DEF IInv, PointerInv, TypeOK
  <2>3. CASE j # i /\ path[j] # p
    BY <2>3, <1>0 DEF IInv, PointerInv, TypeOK
  <2> QED
    BY <2>1, <2>2, <2>3
<1>10. CountInv'
  <2> SUFFICES ASSUME NEW q \in Paths, table'[q] # Nil
               PROVE  /\ \A r \in Paths : table'[r] = table'[q] => r = q
                      /\ refs'[table'[q]] = Cardinality(Users(q)')
                      /\ Users(q)' # {}
    BY DEF CountInv, Users
  <2>1. table'[q] = table[q]
    BY <1>0 DEF TypeOK
  <2>2. \A r \in Paths : table'[r] = table'[q] => r = q
    BY <2>1, <1>0 DEF IInv, CountInv, TypeOK
  <2>3. CASE q = p
    <3>1. refs[k] # 1 /\ table'[q] = k
      BY <2>3, <2>1, <1>0, <1>1 DEF TypeOK
    <3>2. refs'[k] = refs[k] - 1
      BY <1>0, <1>1 DEF TypeOK
    <3> QED
      BY <2>2, <2>3, <3>1, <3>2, <1>5, <1>6
  <2>4. CASE q # p
    <3>1. table[q] # k /\ table[q] \in Locks
      BY <2>4, <2>1, <1>0, <1>2 DEF TypeOK
    <3>2. refs'[table[q]] = refs[table[q]]
      BY <3>1, <1>0, <1>1 DEF TypeOK
    <3> QED
      BY <2>1, <2>2, <2>4, <3>2, <1>4 DEF IInv, CountInv
  <2> QED
    BY <2>3, <2>4
<1> QED
  BY <1>8, <1>9, <1>10 DEF IInv

(* The other steps change no entry and no count. *)
LEMMA QuietStep ==
  ASSUME IInv, NEW i \in Imports,
         Ask(i) \/ LockTable(i) \/ Acquire(i) \/ Unlock(i) \/ RelockTable(i)
  PROVE  IInv'
<1>0. TypeOK /\ UNCHANGED <<lock, table, refs>>
  BY DEF IInv, Ask, LockTable, Acquire, Unlock, RelockTable
<1>1. TypeOK'
  BY <1>0 DEF TypeOK, Stages, Goto, Ask, LockTable, Acquire, Unlock, RelockTable
<1>2. \A p \in Paths : Users(p)' = Users(p)
  BY <1>0 DEF TypeOK, Users, Goto, Ask, LockTable, Acquire, Unlock, RelockTable
<1>3. CountInv'
  BY <1>0, <1>2 DEF IInv, CountInv
<1>4. PointerInv'
  <2>1. CASE Ask(i)
    BY <2>1, <1>0 DEF IInv, PointerInv, TypeOK, Ask, Goto
  <2>2. CASE LockTable(i)
    BY <2>2, <1>0 DEF IInv, PointerInv, TypeOK, LockTable, Goto
  <2>3. CASE Acquire(i)
    <3>1. lock[i] \in Locks /\ holder[lock[i]] = Nobody
      BY <2>3 DEF IInv, PointerInv, Acquire, Goto
    <3>2. \A j \in Imports : pc[j] = "in" => holder[lock[j]] = j /\ j # Nobody
      BY NamesAssumption DEF IInv, PointerInv
    <3> QED
      BY <2>3, <3>1, <3>2, <1>0 DEF IInv, PointerInv, TypeOK, Acquire, Goto
  <2>4. CASE Unlock(i)
    <3>1. lock[i] \in Locks /\ holder[lock[i]] = i
      BY <2>4 DEF IInv, PointerInv, Unlock, Goto
    <3> QED
      BY <2>4, <3>1, <1>0 DEF IInv, PointerInv, TypeOK, Unlock, Goto
  <2>5. CASE RelockTable(i)
    BY <2>5, <1>0 DEF IInv, PointerInv, TypeOK, RelockTable, Goto
  <2> QED
    BY <2>1, <2>2, <2>3, <2>4, <2>5
<1> QED
  BY <1>1, <1>3, <1>4 DEF IInv

(* The inductive invariant holds in every reachable state. *)
THEOREM Invariance == Spec => []IInv
<1>1. Init => IInv
  BY InvInit
<1>2. IInv /\ [Next]_vars => IInv'
  <2> SUFFICES ASSUME IInv, [Next]_vars PROVE IInv'
    OBVIOUS
  <2>1. CASE UNCHANGED vars
    <3>1. \A p \in Paths : Users(p)' = Users(p)
      BY <2>1 DEF vars, Users
    <3> QED
      BY <2>1, <3>1 DEF vars, IInv, TypeOK, PointerInv, CountInv
  <2>2. CASE Next
    BY <2>2, LookupStep, DropStep, QuietStep DEF Next, Step
  <2> QED
    BY <2>1, <2>2
<1> QED
  BY <1>1, <1>2, PTL DEF Spec

(* At most one import works on a session file. *)
LEMMA InvExclusive == IInv => Exclusive
  BY NamesAssumption DEF IInv, TypeOK, PointerInv, Exclusive

(* At most one import of the process works on a session file, however many  *)
(* imports and files there are.                                             *)
THEOREM ExclusiveHolds == Spec => []Exclusive
  BY Invariance, InvExclusive, PTL

(* The table keeps no entry for a file that nobody imports into, and drops  *)
(* none that is still referred to.                                          *)
THEOREM NoStaleEntryHolds == Spec => []NoStaleEntry
<1>1. IInv => NoStaleEntry
  <2> SUFFICES ASSUME IInv, NEW p \in Paths
               PROVE  table[p] # Nil <=> Users(p) # {}
    BY DEF NoStaleEntry
  <2>1. ASSUME NEW i \in Users(p) PROVE table[p] # Nil
    BY NamesAssumption DEF IInv, PointerInv, Users
  <2>2. table[p] # Nil => Users(p) # {}
    BY DEF IInv, CountInv
  <2> QED
    BY <2>1, <2>2
<1> QED
  BY <1>1, Invariance, PTL

(* The owner of a path is the import that is in. *)
LEMMA OwnerIs ==
  ASSUME IInv, NEW p \in Paths, NEW i \in Imports, pc[i] = "in", path[i] = p
  PROVE  Owner(p) = i
  BY InvExclusive DEF Exclusive, Owner

(* Every step of the locks is a step of the mutexes, or none of them.       *)
LEMMA MutexStep ==
  ASSUME IInv, IInv', NEW i \in Imports, Ask(i) \/ Step(i)
  PROVE  [Mutex!Next]_(Owners)
<1>0. TypeOK
  BY DEF IInv
<1>1. CASE Acquire(i)
  <2> PICK p \in Paths : p = path[i]
    BY <1>0 DEF TypeOK
  <2>1. /\ p = path[i] /\ pc' = [pc EXCEPT ![i] = "in"] /\ path' = path
        /\ pc[i] = "wait" /\ pc'[i] = "in"
    BY <1>0, <1>1 DEF Acquire, Goto, TypeOK
  <2>2. Owner(p)' = i
    BY <2>1, InvExclusive DEF Owner, Exclusive
  <2>3. \A j \in Imports : ~(pc[j] = "in" /\ path[j] = p)
    <3> SUFFICES ASSUME NEW j \in Imports, pc[j] = "in", path[j] = p PROVE FALSE
      OBVIOUS
    <3>1. lock[j] = lock[i] /\ holder[lock[j]] = j
      BY <2>1 DEF IInv, PointerInv
    <3> QED
      BY <3>1, <1>1, NamesAssumption DEF Acquire
  <2>4. Owner(p) = Nobody
    BY <2>3 DEF Owner
  <2>5. \A q \in Paths \ {p} : Owner(q)' = Owner(q)
    <3> SUFFICES ASSUME NEW q \in Paths \ {p} PROVE Owner(q)' = Owner(q)
      OBVIOUS
    <3>1. \A j \in Imports : (pc[j] = "in" /\ path[j] = q)
                             <=> (pc'[j] = "in" /\ path'[j] = q)
      BY <2>1, <1>0 DEF TypeOK
    <3> QED
      BY <3>1 DEF Owner
  <2>6. Owners' = [Owners EXCEPT ![p] = i]
    BY <2>2, <2>4, <2>5 DEF Owners
  <2>7. Owners[p] = Nobody
    BY <2>2, <2>4 DEF Owners
  <2> QED
    BY <2>6, <2>7 DEF Mutex!Next, Mutex!Enter
<1>2. CASE Unlock(i)
  <2> PICK p \in Paths : p = path[i]
    BY <1>0 DEF TypeOK
  <2>1. /\ p = path[i] /\ pc' = [pc EXCEPT ![i] = "leave"] /\ path' = path
        /\ pc[i] = "in"
    BY <1>0, <1>2 DEF Unlock, Goto, TypeOK
  <2>2. Owner(p) = i
    BY <2>1, OwnerIs
  <2>3. \A j \in Imports : ~(pc'[j] = "in" /\ path'[j] = p)
    BY <2>1, <1>0, InvExclusive DEF Exclusive, TypeOK
  <2>4. Owner(p)' = Nobody
    BY <2>3 DEF Owner
  <2>5. \A q \in Paths \ {p} : Owner(q)' = Owner(q)
    <3> SUFFICES ASSUME NEW q \in Paths \ {p} PROVE Owner(q)' = Owner(q)
      OBVIOUS
    <3>1. \A j \in Imports : (pc[j] = "in" /\ path[j] = q)
                             <=> (pc'[j] = "in" /\ path'[j] = q)
      BY <2>1, <1>0 DEF TypeOK
    <3> QED
      BY <3>1 DEF Owner
  <2>6. Owners' = [Owners EXCEPT ![p] = Nobody]
    BY <2>2, <2>4, <2>5 DEF Owners
  <2>7. Owners[p] = i
    BY <2>2, <2>4 DEF Owners
  <2> QED
    BY <2>6, <2>7 DEF Mutex!Next, Mutex!Leave
<1>3. CASE Ask(i) \/ LockTable(i) \/ Lookup(i) \/ RelockTable(i) \/ Drop(i)
  <2>1. \A q \in Paths, j \in Imports : (pc[j] = "in" /\ path[j] = q)
                                       <=> (pc'[j] = "in" /\ path'[j] = q)
    BY <1>0, <1>3 DEF TypeOK, Goto, Ask, LockTable, Lookup, RelockTable, Drop
  <2>2. \A q \in Paths : Owner(q)' = Owner(q)
    BY <2>1 DEF Owner
  <2> QED
    BY <2>2 DEF Owners
<1> QED
  BY <1>1, <1>2, <1>3 DEF Step

(* The table of counted locks implements a mutex for each session file.     *)
THEOREM MutexRefinement == Spec => ImplementsMutex
<1>1. Init => Mutex!Init
  BY DEF Init, Mutex!Init, Owner, Owners
<1>2. IInv /\ IInv' /\ [Next]_vars => [Mutex!Next]_(Owners)
  <2> SUFFICES ASSUME IInv, IInv', [Next]_vars
               PROVE  [Mutex!Next]_(Owners)
    OBVIOUS
  <2>1. CASE UNCHANGED vars
    BY <2>1 DEF vars, Owner, Owners
  <2>2. CASE Next
    BY <2>2, MutexStep DEF Next
  <2> QED
    BY <2>1, <2>2
<1> QED
  BY <1>1, <1>2, Invariance, PTL DEF Spec, ImplementsMutex, Mutex!Spec
=============================================================================
