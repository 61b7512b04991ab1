---------------------------- MODULE StoresProofs ----------------------------
(***************************************************************************)
(* Safety of the session stores, for any number of sessions, processes,     *)
(* providers and workers.  First of one listing by itself, against any      *)
(* change of the files; then the stores are shown to be such an             *)
(* environment, so that the listing's theorem holds in them.                *)
(***************************************************************************)
EXTENDS Stores, FiniteSetTheorems, TLAPS

DiscoveryTypeOK ==
    /\ file \in [Files -> States]
    /\ scan \in {"idle", "running", "listed"}
    /\ stage \in [Targets -> {"walk", "read", "done"}]
    /\ paths \in [Targets -> SUBSET Files] /\ busy \in [Targets -> SUBSET Files]
    /\ ready \in [Targets -> SUBSET Files] /\ queue \in [Targets -> SUBSET Files]
    /\ found \in [Targets -> SUBSET Files]
    /\ staff \in [Targets -> Nat] /\ done \in [Targets -> Nat]
    /\ rows \subseteq Files /\ through \subseteq Files /\ sometime \subseteq Files

(* A worker reads, waits to send, waits for a path, or has returned: no     *)
(* more of them are busy than there are.  Only a pool that reads has any    *)
(* files or workers.                                                        *)
PoolOf(p) ==
    /\ done[p] + Cardinality(busy[p]) + Cardinality(ready[p]) <= staff[p]
    /\ stage[p] # "read" => /\ paths[p] = {} /\ busy[p] = {} /\ ready[p] = {}
                            /\ queue[p] = {} /\ staff[p] = 0 /\ done[p] = 0
    /\ p \notin Pooled => busy[p] = {} /\ ready[p] = {} /\ queue[p] = {}
    /\ scan # "running" => stage[p] # "read"

PoolInv == \A p \in Targets : PoolOf(p)

(* A file is in one of these from the walk on. *)
Handled(p) == paths[p] \cup busy[p] \cup ready[p] \cup queue[p] \cup found[p]

(* What could be read since the start is handled once it has been walked;   *)
(* what has been read could be.                                             *)
ScanInv ==
    scan = "running" =>
      /\ through \subseteq Sure /\ Readable \subseteq sometime
      /\ \A p \in Targets :
           /\ paths[p] \cup busy[p] \subseteq Named
           /\ ready[p] \cup queue[p] \cup found[p] \subseteq sometime
      /\ \A f \in through :
           \/ stage[TargetOf[f]] = "walk"
           \/ f \in Handled(TargetOf[f])

DInv == DiscoveryTypeOK /\ PoolInv /\ ScanInv /\ ScanIsFaithful

-----------------------------------------------------------------------------
LEMMA FilesAreFinite ==
  ASSUME NEW S \in SUBSET Files
  PROVE  IsFiniteSet(S) /\ Cardinality(S) \in Nat
  BY DiscoveryAssumption, FS_Subset, FS_CardinalityType

LEMMA OneMore ==
  ASSUME NEW S \in SUBSET Files, NEW f \in Files
  PROVE  Cardinality(S \cup {f}) <= Cardinality(S) + 1
  BY FilesAreFinite, FS_AddElement

LEMMA OneLess ==
  ASSUME NEW S \in SUBSET Files, NEW f \in S
  PROVE  Cardinality(S \ {f}) = Cardinality(S) - 1
  BY FilesAreFinite, FS_RemoveElement

LEMMA NoneLeft ==
  ASSUME NEW S \in SUBSET Files, Cardinality(S) <= 0
  PROVE  S = {}
  BY FilesAreFinite, FS_EmptySet

(* Empty pools are pools. *)
LEMMA EmptyPools ==
  ASSUME stage \in [Targets -> {"walk", "done"}],
         paths = Nothing, busy = Nothing, ready = Nothing, queue = Nothing,
         staff = Zero, done = Zero
  PROVE  PoolInv
<1>1. Cardinality({}) = 0
  BY FS_EmptySet
<1> QED
  BY <1>1 DEF PoolInv, PoolOf, Nothing, Zero

LEMMA DiscoveryInitInv ==
  ASSUME file \in [Files -> States], DiscoveryInit
  PROVE  DInv
<1>1. PoolInv
  BY EmptyPools DEF DiscoveryInit, PoolsEmpty
<1>2. DiscoveryTypeOK /\ ScanInv /\ ScanIsFaithful
  BY DEF DiscoveryInit, PoolsEmpty, DiscoveryTypeOK, ScanInv, ScanIsFaithful,
         Nothing, Zero
<1> QED
  BY <1>1, <1>2 DEF DInv

-----------------------------------------------------------------------------
(* The files change under the listing. *)
LEMMA OthersInv == DInv /\ Others => DInv'
<1> SUFFICES ASSUME DInv, Others PROVE DInv'
  OBVIOUS
<1> USE DEF Others, scans, pools
<1>1. Readable' \subseteq Files /\ Sure' \subseteq Files
  BY DiscoveryAssumption DEF Readable, Sure
<1>2. DiscoveryTypeOK'
  BY <1>1 DEF DInv, DiscoveryTypeOK, Watch, watched
<1>3. PoolInv'
  BY DEF DInv, PoolInv, PoolOf
<1>4. ScanInv'
  <2>1. CASE scan = "running"
    BY <2>1 DEF DInv, ScanInv, Watch, Handled
  <2>2. CASE scan # "running"
    BY <2>2 DEF ScanInv
  <2> QED
    BY <2>1, <2>2
<1>5. ScanIsFaithful'
  BY DEF DInv, ScanIsFaithful, Watch, watched
<1> QED
  BY <1>2, <1>3, <1>4, <1>5 DEF DInv

(* A listing begins with empty pools. *)
LEMMA StartInv == DInv /\ Start => DInv'
<1> SUFFICES ASSUME DInv, Start PROVE DInv'
  OBVIOUS
<1>1. /\ Readable \subseteq Files /\ Readable' = Readable
      /\ Sure \subseteq Readable /\ Sure' = Sure
  BY DiscoveryAssumption DEF Readable, Sure, SureToParse, Parses, Whole, Start
<1>2. \A p \in Targets : stage[p] # "read"
  BY DEF Start, DInv, PoolInv, PoolOf
<1>3. DiscoveryTypeOK'
  BY <1>1 DEF Start, DInv, DiscoveryTypeOK, Nothing
<1>4. PoolInv'
  BY <1>2 DEF Start, DInv, DiscoveryTypeOK, PoolInv, PoolOf
<1>5. ScanInv'
  <2>1. \A p \in Targets : paths'[p] = {} /\ busy'[p] = {} /\ ready'[p] = {}
                           /\ queue'[p] = {} /\ found'[p] = {}
                           /\ stage'[p] = "walk"
    BY <1>2 DEF Start, DInv, PoolInv, PoolOf, Nothing
  <2>2. \A f \in Sure : TargetOf[f] \in Targets
    BY <1>1, DiscoveryAssumption
  <2> QED
    BY <1>1, <2>1, <2>2 DEF Start, ScanInv
<1>6. ScanIsFaithful'
  BY DEF Start, ScanIsFaithful
<1> QED
  BY <1>3, <1>4, <1>5, <1>6 DEF DInv

(* It ends when every target is done. *)
LEMMA DiscoveredInv == DInv /\ Discovered => DInv'
<1> SUFFICES ASSUME DInv, Discovered PROVE DInv'
  OBVIOUS
<1>1. DiscoveryTypeOK'
  BY DEF Discovered, DInv, DiscoveryTypeOK, pools, watched
<1>2. PoolInv'
  BY DEF Discovered, DInv, PoolInv, PoolOf, pools
<1>3. ScanInv'
  BY DEF Discovered, ScanInv
<1>4. ScanIsFaithful'
  <2>1. rows' \subseteq sometime
    BY DEF Discovered, DInv, ScanInv
  <2>2. \A f \in through : f \in found[TargetOf[f]] /\ TargetOf[f] \in Targets
    BY DiscoveryAssumption
       DEF Discovered, DInv, DiscoveryTypeOK, PoolInv, PoolOf, ScanInv, Handled
  <2> QED
    BY <2>1, <2>2 DEF Discovered, ScanIsFaithful, watched
<1> QED
  BY <1>1, <1>2, <1>3, <1>4 DEF DInv

LEMMA ListingDiesInv == DInv /\ ListingDies => DInv'
<1> SUFFICES ASSUME DInv, ListingDies PROVE DInv'
  OBVIOUS
<1>1. Cardinality({}) = 0
  BY FS_EmptySet
<1>2. PoolInv'
  BY <1>1 DEF ListingDies, Abandon, PoolInv, PoolOf, Nothing, Zero
<1>3. DiscoveryTypeOK' /\ ScanInv' /\ ScanIsFaithful'
  BY DEF ListingDies, Abandon, DiscoveryTypeOK, ScanInv, ScanIsFaithful,
         Nothing, Zero
<1> QED
  BY <1>2, <1>3 DEF DInv

-----------------------------------------------------------------------------
(* One target.  A step of target p leaves the other pools as they are, and  *)
(* the files, what was seen of them and the list too.                       *)
OnlyPool(p) ==
    /\ UNCHANGED <<file, scan, rows, watched>>
    /\ \A q \in Targets \ {p} :
         /\ paths'[q] = paths[q] /\ busy'[q] = busy[q] /\ ready'[q] = ready[q]
         /\ queue'[q] = queue[q] /\ found'[q] = found[q]
         /\ staff'[q] = staff[q] /\ done'[q] = done[q] /\ stage'[q] = stage[q]

(* What such a step has to keep of its own pool. *)
LEMMA PoolStep ==
  ASSUME DInv, NEW p \in Targets, OnlyPool(p), DiscoveryTypeOK', PoolOf(p)',
         scan = "running",
         paths'[p] \cup busy'[p] \subseteq Named,
         ready'[p] \cup queue'[p] \cup found'[p] \subseteq sometime,
         \A f \in through : TargetOf[f] = p =>
            stage'[p] = "walk" \/ f \in Handled(p)'
  PROVE  DInv'
<1>1. PoolInv'
  BY DEF DInv, PoolInv, PoolOf, OnlyPool
<1>2. Sure' = Sure /\ Readable' = Readable
  BY DEF OnlyPool, Sure, Readable, SureToParse, Parses, Whole
<1>3. \A f \in through : TargetOf[f] \in Targets
  BY DiscoveryAssumption DEF DInv, DiscoveryTypeOK
<1>4. \A q \in Targets \ {p} : Handled(q)' = Handled(q)
  BY DEF Handled, OnlyPool
<1>5. \A f \in through :
         stage'[TargetOf[f]] = "walk" \/ f \in Handled(TargetOf[f])'
  <2> SUFFICES ASSUME NEW f \in through
               PROVE  stage'[TargetOf[f]] = "walk" \/ f \in Handled(TargetOf[f])'
    OBVIOUS
  <2>1. CASE TargetOf[f] = p
    BY <2>1
  <2>2. CASE TargetOf[f] # p
    BY <1>3, <1>4, <2>2 DEF DInv, ScanInv, OnlyPool
  <2> QED
    BY <2>1, <2>2
<1>6. ScanInv'
  BY <1>2, <1>5 DEF DInv, ScanInv, OnlyPool, watched
<1>7. ScanIsFaithful'
  BY DEF ScanIsFaithful, OnlyPool
<1> QED
  BY <1>1, <1>6, <1>7 DEF DInv

(* Pools of a listing that is not running have nothing to do. *)
LEMMA StepsWhileRunning ==
  ASSUME DInv, NEW p \in Targets, TargetStep(p)
  PROVE  scan = "running" /\ (stage[p] = "read" \/ Walk(p) \/ Query(p))
<1>1. Walk(p) \/ Query(p) => scan = "running"
  BY DEF Walk, Query
<1>2. ASSUME ~Walk(p), ~Query(p) PROVE stage[p] = "read"
  <2>1. JobsClosed(p) => stage[p] = "read"
    BY DEF JobsClosed
  <2> QED
    BY <1>2, <2>1 DEF TargetStep, Return, Close, Feed, Read, Send, Collect, Visit,
                      DInv, PoolInv, PoolOf
<1> QED
  BY <1>1, <1>2 DEF DInv, PoolInv, PoolOf, DiscoveryTypeOK

LEMMA WalkInv ==
  ASSUME DInv, NEW p \in Targets, Walk(p)
  PROVE  DInv'
<1> DEFINE seen == {f \in Files : /\ TargetOf[f] = p
                                  /\ file[f] # None
                                  /\ LooksRight(f)}
           size == Cardinality(seen)
<1>1. seen \in SUBSET Files /\ size \in Nat
  BY FilesAreFinite
<1>2. /\ paths[p] = {} /\ busy[p] = {} /\ ready[p] = {} /\ queue[p] = {}
      /\ staff[p] = 0 /\ done[p] = 0 /\ scan = "running" /\ stage[p] = "walk"
  BY DEF DInv, PoolInv, PoolOf, Walk
<1>3. \/ /\ seen = {} /\ stage' = [stage EXCEPT ![p] = "done"]
         /\ UNCHANGED <<paths, staff>>
      \/ /\ paths' = [paths EXCEPT ![p] = seen]
         /\ stage' = [stage EXCEPT ![p] = "read"]
         /\ \E n \in Nat : staff' = [staff EXCEPT ![p] = n]
  BY <1>1, DiscoveryAssumption DEF Walk
<1>4. OnlyPool(p)
  BY <1>3 DEF Walk, OnlyPool, DInv, DiscoveryTypeOK
<1>5. DiscoveryTypeOK'
  BY <1>1, <1>3 DEF Walk, DInv, DiscoveryTypeOK, watched
<1>6. Cardinality({}) = 0
  BY FS_EmptySet
<1>7. PoolOf(p)'
  BY <1>2, <1>3, <1>5, <1>6 DEF Walk, PoolOf, DInv, DiscoveryTypeOK
<1>8. seen \subseteq Named
  BY DEF LooksRight
<1>9. \A f \in through : TargetOf[f] = p => f \in seen
  BY <1>2 DEF DInv, ScanInv, DiscoveryTypeOK, Sure, SureToParse, Parses, Whole,
              LooksRight, None
<1> HIDE DEF seen, size
<1>10. paths'[p] \cup busy'[p] \subseteq Named
  BY <1>2, <1>3, <1>8 DEF Walk, DInv, DiscoveryTypeOK
<1>11. ready'[p] \cup queue'[p] \cup found'[p] \subseteq sometime
  BY <1>2 DEF Walk, DInv, ScanInv
<1>12. \A f \in through : TargetOf[f] = p => f \in paths'[p]
  BY <1>3, <1>9 DEF DInv, DiscoveryTypeOK
<1> QED
  BY <1>2, <1>4, <1>5, <1>7, <1>10, <1>11, <1>12, PoolStep DEF Handled

LEMMA QueryInv ==
  ASSUME DInv, NEW p \in Targets, Query(p)
  PROVE  DInv'
<1>1. PICK listed \in SUBSET {f \in Readable : TargetOf[f] = p} :
         /\ {f \in Sure : TargetOf[f] = p} \subseteq listed
         /\ found' = [found EXCEPT ![p] = listed]
  BY DEF Query
<1>2. /\ paths[p] = {} /\ busy[p] = {} /\ ready[p] = {} /\ queue[p] = {}
      /\ staff[p] = 0 /\ done[p] = 0 /\ scan = "running" /\ stage[p] = "walk"
  BY DEF DInv, PoolInv, PoolOf, Query
<1>3. listed \in SUBSET Files
  BY <1>1, DiscoveryAssumption DEF Readable
<1>4. OnlyPool(p)
  BY <1>1 DEF Query, OnlyPool, DInv, DiscoveryTypeOK
<1>5. DiscoveryTypeOK'
  BY <1>1, <1>3 DEF Query, DInv, DiscoveryTypeOK, watched
<1>6. Cardinality({}) = 0
  BY FS_EmptySet
<1>7. PoolOf(p)'
  BY <1>2, <1>5, <1>6 DEF Query, PoolOf, DInv, DiscoveryTypeOK
<1>8. /\ paths'[p] \cup busy'[p] \subseteq Named
      /\ ready'[p] \cup queue'[p] = {}
  BY <1>2 DEF Query
<1>9. found'[p] = listed
  BY <1>1 DEF DInv, DiscoveryTypeOK
<1>10. listed \subseteq sometime
  BY <1>1, <1>2 DEF DInv, ScanInv
<1>11. \A f \in through : TargetOf[f] = p => f \in listed
  BY <1>1, <1>2 DEF DInv, ScanInv
<1> QED
  BY <1>2, <1>4, <1>5, <1>7, <1>8, <1>9, <1>10, <1>11, PoolStep DEF Handled

(* The five steps that move one file on. *)
LEMMA FileStepInv ==
  ASSUME DInv, NEW p \in Targets, NEW f \in Files,
         Feed(p, f) \/ Read(p, f) \/ Send(p, f) \/ Collect(p, f) \/ Visit(p, f),
         scan = "running", stage[p] = "read"
  PROVE  DInv'
<1>0. /\ paths[p] \in SUBSET Files /\ busy[p] \in SUBSET Files
      /\ ready[p] \in SUBSET Files /\ queue[p] \in SUBSET Files
      /\ found[p] \in SUBSET Files /\ done[p] \in Nat /\ staff[p] \in Nat
  BY DEF DInv, DiscoveryTypeOK
<1>1. OnlyPool(p) /\ DiscoveryTypeOK' /\ stage' = stage /\ staff' = staff
      /\ done' = done
  BY DEF Feed, Read, Send, Collect, Visit, OnlyPool, DInv, DiscoveryTypeOK, watched
<1>2. /\ \A S \in SUBSET Files : Cardinality(S) \in Nat
      /\ \A S \in SUBSET Files : Cardinality(S \cup {f}) <= Cardinality(S) + 1
      /\ \A S \in SUBSET Files : f \in S => Cardinality(S \ {f}) = Cardinality(S) - 1
  BY FilesAreFinite, OneMore, OneLess
<1>3. CASE Feed(p, f)
  <2>1. PoolOf(p)'
    BY <1>0, <1>1, <1>2, <1>3 DEF Feed, Idle, PoolOf, PoolInv, DInv, DiscoveryTypeOK
  <2>2. Handled(p)' = Handled(p)
    BY <1>3 DEF Feed, Handled, DInv, DiscoveryTypeOK
  <2>3. /\ paths'[p] \cup busy'[p] \subseteq Named
        /\ ready'[p] \cup queue'[p] \cup found'[p] \subseteq sometime
    BY <1>3 DEF Feed, DInv, DiscoveryTypeOK, ScanInv
  <2>4. \A g \in through : TargetOf[g] = p => g \in Handled(p)
    BY DEF DInv, ScanInv
  <2> QED
    BY <1>1, <2>1, <2>2, <2>3, <2>4, PoolStep
<1>4. CASE Read(p, f)
  <2>1. PoolOf(p)'
    <3>1. /\ f \in busy[p] /\ busy'[p] = busy[p] \ {f}
          /\ ready'[p] \in {ready[p], ready[p] \cup {f}}
          /\ paths' = paths /\ queue' = queue /\ scan' = scan
      BY <1>4 DEF Read, DInv, DiscoveryTypeOK
    <3>2. /\ Cardinality(busy'[p]) = Cardinality(busy[p]) - 1
          /\ Cardinality(ready'[p]) <= Cardinality(ready[p]) + 1
          /\ Cardinality(busy[p]) \in Nat /\ Cardinality(ready[p]) \in Nat
          /\ Cardinality(ready'[p]) \in Nat
      BY <1>0, <1>2, <3>1
    <3>3. PoolOf(p)
      BY DEF DInv, PoolInv
    <3>4. p \notin Pooled => FALSE
      BY <3>1, <3>3 DEF PoolOf
    <3> QED
      BY <1>0, <1>1, <3>1, <3>2, <3>3, <3>4 DEF PoolOf
  <2>2. Parses(f) => f \in sometime
    BY <1>4 DEF Read, DInv, ScanInv, Readable
  <2>3. \A g \in through : SureToParse(g)
    BY DEF DInv, ScanInv, Sure
  <2> QED
    BY <1>0, <1>1, <1>4, <2>1, <2>2, <2>3, PoolStep
       DEF Read, ScanInv, DInv, DiscoveryTypeOK, Handled
<1>5. CASE Send(p, f)
  <2>1. PoolOf(p)'
    BY <1>0, <1>1, <1>2, <1>5 DEF Send, PoolOf, PoolInv, DInv, DiscoveryTypeOK
  <2>2. Handled(p)' = Handled(p)
    BY <1>5 DEF Send, Handled, DInv, DiscoveryTypeOK
  <2>3. /\ paths'[p] \cup busy'[p] \subseteq Named
        /\ ready'[p] \cup queue'[p] \cup found'[p] \subseteq sometime
    BY <1>5 DEF Send, DInv, DiscoveryTypeOK, ScanInv
  <2>4. \A g \in through : TargetOf[g] = p => g \in Handled(p)
    BY DEF DInv, ScanInv
  <2> QED
    BY <1>1, <2>1, <2>2, <2>3, <2>4, PoolStep
<1>6. CASE Collect(p, f)
  <2>1. PoolOf(p)'
    BY <1>0, <1>1, <1>2, <1>6 DEF Collect, PoolOf, PoolInv, DInv, DiscoveryTypeOK
  <2>2. Handled(p)' = Handled(p)
    BY <1>6 DEF Collect, Handled, DInv, DiscoveryTypeOK
  <2>3. /\ paths'[p] \cup busy'[p] \subseteq Named
        /\ ready'[p] \cup queue'[p] \cup found'[p] \subseteq sometime
    BY <1>6 DEF Collect, DInv, DiscoveryTypeOK, ScanInv
  <2>4. \A g \in through : TargetOf[g] = p => g \in Handled(p)
    BY DEF DInv, ScanInv
  <2> QED
    BY <1>1, <2>1, <2>2, <2>3, <2>4, PoolStep
<1>7. CASE Visit(p, f)
  <2>1. PoolOf(p)'
    BY <1>0, <1>1, <1>7 DEF Visit, PoolOf, PoolInv, DInv, DiscoveryTypeOK
  <2>2. Parses(f) => f \in sometime
    BY <1>7 DEF Visit, DInv, ScanInv, Readable
  <2>3. \A g \in through : SureToParse(g)
    BY DEF DInv, ScanInv, Sure
  <2> QED
    BY <1>0, <1>1, <1>7, <2>1, <2>2, <2>3, PoolStep
       DEF Visit, ScanInv, DInv, DiscoveryTypeOK, Handled
<1> QED
  BY <1>3, <1>4, <1>5, <1>6, <1>7

(* A worker returns; the pool is closed when all have. *)
LEMMA EndInv ==
  ASSUME DInv, NEW p \in Targets, Return(p) \/ Close(p),
         scan = "running", stage[p] = "read"
  PROVE  DInv'
<1>0. /\ busy[p] \in SUBSET Files /\ ready[p] \in SUBSET Files
      /\ done[p] \in Nat /\ staff[p] \in Nat
      /\ Cardinality(busy[p]) \in Nat /\ Cardinality(ready[p]) \in Nat
  BY FilesAreFinite DEF DInv, DiscoveryTypeOK
<1>1. OnlyPool(p) /\ DiscoveryTypeOK'
  BY <1>0 DEF Return, Close, OnlyPool, DInv, DiscoveryTypeOK, watched
<1>2. CASE Return(p)
  BY <1>0, <1>1, <1>2, PoolStep
     DEF Return, Idle, PoolOf, PoolInv, ScanInv, DInv, DiscoveryTypeOK, Handled
<1>3. CASE Close(p)
  <2>1. busy[p] = {} /\ ready[p] = {}
    <3>1. CASE p \in Pooled
      <4>1. Cardinality(busy[p]) <= 0 /\ Cardinality(ready[p]) <= 0
        BY <1>0, <1>3, <3>1 DEF Close, Drained, DInv, PoolInv, PoolOf
      <4> QED
        BY <1>0, <4>1, NoneLeft
    <3>2. CASE p \notin Pooled
      BY <3>2 DEF DInv, PoolInv, PoolOf
    <3> QED
      BY <3>1, <3>2
  <2>2. Cardinality({}) = 0
    BY FS_EmptySet
  <2>3. PoolOf(p)'
    BY <1>0, <1>1, <1>3, <2>1, <2>2
       DEF Close, Drained, PoolOf, DInv, DiscoveryTypeOK
  <2>4. /\ paths'[p] \cup busy'[p] \subseteq Named
        /\ ready'[p] \cup queue'[p] \cup found'[p] \subseteq sometime
    BY <1>3 DEF Close, DInv, ScanInv
  <2>5. \A f \in through : TargetOf[f] = p => f \in Handled(p)'
    BY <1>3 DEF Close, DInv, ScanInv, Handled
  <2> QED
    BY <1>1, <2>3, <2>4, <2>5, PoolStep
<1> QED
  BY <1>2, <1>3

LEMMA TargetStepInv ==
  ASSUME DInv, NEW p \in Targets, TargetStep(p)
  PROVE  DInv'
<1>1. scan = "running" /\ (stage[p] = "read" \/ Walk(p) \/ Query(p))
  BY StepsWhileRunning
<1>2. CASE Walk(p) \/ Query(p)
  BY <1>2, WalkInv, QueryInv
<1>3. CASE Return(p) \/ Close(p)
  BY <1>1, <1>2, <1>3, EndInv
<1>4. CASE \E f \in Files : Feed(p, f) \/ Read(p, f) \/ Send(p, f)
                             \/ Collect(p, f) \/ Visit(p, f)
  BY <1>1, <1>2, <1>4, FileStepInv
<1>5. paths[p] \cup busy[p] \cup ready[p] \cup queue[p] \subseteq Files
  BY DEF DInv, DiscoveryTypeOK
<1> QED
  BY <1>2, <1>3, <1>4, <1>5 DEF TargetStep

LEMMA DiscoveryInvariance == DInv /\ [DiscoveryNext]_dvars => DInv'
<1> SUFFICES ASSUME DInv, [DiscoveryNext]_dvars PROVE DInv'
  OBVIOUS
<1>1. CASE UNCHANGED dvars
  BY <1>1 DEF dvars, scans, pools, watched, DInv, DiscoveryTypeOK, PoolInv, PoolOf,
              ScanInv, ScanIsFaithful, Handled, Readable, Sure, SureToParse, Parses, Whole
<1>2. CASE DiscoveryNext
  BY <1>2, StartInv, DiscoveredInv, ListingDiesInv, OthersInv, TargetStepInv
     DEF DiscoveryNext
<1> QED
  BY <1>1, <1>2

(* One listing against any other program: it misses no session that can be  *)
(* read all the time and lists none that never could, whichever formats     *)
(* take half-written files, for any number of files, targets and workers.   *)
THEOREM DiscoveryIsFaithful == DiscoverySpec => []ScanIsFaithful
<1>1. file \in [Files -> States] /\ DiscoveryInit => DInv
  BY DiscoveryInitInv
<1>2. DInv => ScanIsFaithful
  BY DEF DInv
<1> QED
  BY <1>1, <1>2, DiscoveryInvariance, PTL DEF DiscoverySpec

-----------------------------------------------------------------------------
(* The stores are such an environment: every deletion, conversion, save and *)
(* failure changes files as Others may, or kills the listing.               *)
FilesOK == file \in [Files -> States]

LEMMA PutIsOthers ==
  ASSUME FilesOK, NEW f, NEW state \in States, Put(f, state), UNCHANGED scans
  PROVE  Others /\ FilesOK'
  BY DEF Put, Others, FilesOK

LEMMA KeepsFiles ==
  ASSUME FilesOK, UNCHANGED <<file, watched>>, UNCHANGED scans
  PROVE  FilesOK' /\ UNCHANGED dvars
  BY DEF FilesOK, dvars

LEMMA ActIsDiscovery ==
  ASSUME FilesOK, NEW a \in Actors, Act(a)
  PROVE  FilesOK' /\ [DiscoveryNext]_dvars
<1>1. CASE \/ \E s \in Sessions : Delete(a, s)
           \/ \E s \in Sessions, new \in New : Convert(a, s, new)
           \/ ReportJCode(a) \/ ReadIndex(a) \/ CompareIndex(a) \/ RenameIndex(a)
           \/ Die(a)
  BY <1>1 DEF Delete, Convert, ReportJCode, ReadIndex, CompareIndex, RenameIndex,
              Die, dvars, FilesOK
<1>2. CASE RemoveBackup(a) \/ RemoveJournal(a) \/ RemoveMain(a)
  BY <1>2, PutIsOthers, KeepsFiles
     DEF RemoveBackup, RemoveJournal, RemoveMain, RemovePart, DiscoveryNext, States
<1>3. CASE Unlink(a) \/ CliDelete(a)
  BY <1>3, PutIsOthers, KeepsFiles DEF Unlink, CliDelete, DiscoveryNext, States
<1>0. file[Temp(a)] \in States
  <2>1. Files = (UNION {Parts(s) : s \in Sessions}) \cup {Temp(b) : b \in Actors}
    BY StoresAssumption
  <2>2. Temp(a) \in {Temp(b) : b \in Actors}
    OBVIOUS
  <2> QED
    BY <2>1, <2>2 DEF FilesOK
<1>4. CASE CreateTemp(a) \/ Write(a) \/ Sync(a) \/ Export(a)
  BY <1>0, <1>4, PutIsOthers
     DEF CreateTemp, Write, Sync, Export, WriterStep, GiveUp, DiscoveryNext, States
<1>5. CASE Place(a)
  BY <1>0, <1>5, PutIsOthers
     DEF Place, GiveUp, Others, FilesOK, DiscoveryNext, States
<1>6. CASE CliImport(a)
  BY <1>0, <1>6 DEF CliImport, Others, FilesOK, DiscoveryNext, States
<1> QED
  BY <1>1, <1>2, <1>3, <1>4, <1>5, <1>6 DEF Act

LEMMA StepIsDiscovery ==
  ASSUME FilesOK, [Next]_svars
  PROVE  FilesOK' /\ [DiscoveryNext]_dvars
<1>1. CASE UNCHANGED svars
  BY <1>1 DEF svars, dvars, FilesOK
<1>2. CASE Lists \/ ListerDies
  BY <1>2 DEF Lists, Start, ListerDies, ListingDies, DiscoveryNext, FilesOK
<1>3. CASE Scans
  <2>1. Discovered => UNCHANGED file
    BY DEF Discovered
  <2>2. ASSUME NEW p \in Targets, TargetStep(p) PROVE UNCHANGED file
    BY <2>2 DEF TargetStep, Query, Walk, Return, Close, Feed, Read, Send, Collect, Visit
  <2> QED
    BY <1>3, <2>1, <2>2 DEF Scans, DiscoveryNext, FilesOK
<1>4. CASE PowerCut
  BY <1>4 DEF PowerCut, ListingDies, DiscoveryNext, FilesOK, States
<1>5. CASE \E a \in Actors : Act(a)
  BY <1>5, ActIsDiscovery
<1>6. CASE \E s \in Native : SaveBegins(s) \/ SaveEnds(s)
  BY <1>6 DEF SaveBegins, SaveEnds, Others, DiscoveryNext, FilesOK, States
<1>7. CASE \E s \in Sessions : ClaudeIndexes(s)
  BY <1>7 DEF ClaudeIndexes, dvars, FilesOK
<1> QED
  BY <1>1, <1>2, <1>3, <1>4, <1>5, <1>6, <1>7 DEF Next

(* Everything the stores do is what one listing allows the rest of the      *)
(* world, so what holds of one listing holds in the stores.                 *)
THEOREM StoresImplementDiscovery == Spec => DiscoverySpec
<1>1. Init => FilesOK /\ DiscoveryInit
  BY DEF Init, FilesOK, States
<1>2. FilesOK /\ [Next]_svars => FilesOK'
  BY StepIsDiscovery
<1>3. FilesOK /\ [Next]_svars => [DiscoveryNext]_dvars
  BY StepIsDiscovery
<1> QED
  BY <1>1, <1>2, <1>3, PTL DEF Spec, DiscoverySpec, FilesOK

(* Discover among deletions, conversions, saves, deaths and power cuts, by  *)
(* any number of processes: it lists every session that it could read from  *)
(* start to end, and nothing that no reader would have taken meanwhile.     *)
THEOREM ScanIsFaithfulHolds == Spec => []ScanIsFaithful
  BY StoresImplementDiscovery, DiscoveryIsFaithful, PTL

-----------------------------------------------------------------------------
(* The index of Claude.                                                     *)

Labels == Over \cup {"backup", "journal", "main", "report", "readIndex",
                     "compare", "rename", "unlink", "cli", "create", "write",
                     "sync", "place", "export", "import"}

(* Who is about to put back an index that has changed since it compared it: *)
(* the new entries are known to be late.                                    *)
IndexInv ==
    /\ pc \in [Actors -> Labels]
    /\ original \in [Actors -> SUBSET Sessions]
    /\ index \subseteq Sessions
    /\ \A a \in Actors : pc[a] = "rename" => index \ original[a] \subseteq late
    /\ IndexKeepsOthers

LEMMA IndexInitInv == Init => IndexInv
<1> SUFFICES ASSUME Init PROVE IndexInv
  OBVIOUS
<1>1. /\ pc = [a \in Actors |-> "idle"] /\ original = [a \in Actors |-> {}]
      /\ late = {} /\ lost = {}
  BY DEF Init
<1>2. index \subseteq Sessions
  BY DEF Init
<1> QED
  BY <1>1, <1>2 DEF IndexInv, IndexKeepsOthers, Labels, Over

(* A step that leaves the index alone and sends nobody to put it back. *)
LEMMA IndexAlone ==
  ASSUME IndexInv, pc' \in [Actors -> Labels],
         original' \in [Actors -> SUBSET Sessions],
         UNCHANGED <<index, late, lost>>,
         \A b \in Actors : pc'[b] = "rename" =>
            /\ pc[b] = "rename" /\ original'[b] = original[b]
            \/ index \subseteq original'[b]
  PROVE  IndexInv'
  BY DEF IndexInv, IndexKeepsOthers

LEMMA DeletingIndexInv ==
  ASSUME IndexInv, NEW a \in Actors,
         \/ \E s \in Sessions : Delete(a, s)
         \/ RemoveBackup(a) \/ RemoveJournal(a) \/ RemoveMain(a) \/ ReportJCode(a)
         \/ Unlink(a) \/ CliDelete(a) \/ Die(a)
  PROVE  IndexInv'
<1>1. PICK next \in Labels \ {"rename"} : pc' = [pc EXCEPT ![a] = next]
  <2>1. CASE \E s \in Sessions : Delete(a, s)
    <3>1. PICK s \in Sessions : Delete(a, s)
      BY <2>1
    <3>2. FirstStep(s) \in {"backup", "readIndex", "cli", "unlink"}
      BY StoresAssumption DEF FirstStep
    <3> QED
      BY <3>1, <3>2 DEF Delete, Goto, Labels, Over, Ends
  <2>2. CASE RemoveBackup(a) \/ RemoveJournal(a) \/ RemoveMain(a)
    BY <2>2 DEF RemoveBackup, RemoveJournal, RemoveMain, RemovePart, Goto, Labels
  <2>3. CASE ReportJCode(a)
    BY <2>3 DEF ReportJCode, Report, Goto, Labels, Over, Ends
  <2>4. CASE Unlink(a)
    BY <2>4 DEF Unlink, Report, Goto, Labels, Over, Ends
  <2>5. CASE CliDelete(a)
    BY <2>5 DEF CliDelete, Report, Goto, Labels, Over, Ends
  <2>6. CASE Die(a)
    BY <2>6 DEF Die, Goto, Labels, Over, Ends
  <2> QED
    BY <2>1, <2>2, <2>3, <2>4, <2>5, <2>6
<1>2. /\ original' \in [Actors -> SUBSET Sessions]
      /\ \A b \in Actors \ {a} : original'[b] = original[b]
  BY DEF IndexInv, Delete, RemoveBackup, RemoveJournal, RemoveMain, RemovePart,
         ReportJCode, Unlink, CliDelete, Die, Forget
<1>3. UNCHANGED <<index, late, lost>>
  BY DEF Delete, RemoveBackup, RemoveJournal, RemoveMain, RemovePart,
         ReportJCode, Unlink, CliDelete, Die, history
<1> QED
  BY <1>1, <1>2, <1>3, IndexAlone DEF IndexInv

LEMMA ConvertingIndexInv ==
  ASSUME IndexInv, NEW a \in Actors,
         \/ \E s \in Sessions, new \in New : Convert(a, s, new)
         \/ CreateTemp(a) \/ Write(a) \/ Sync(a) \/ Place(a)
         \/ Export(a) \/ CliImport(a)
  PROVE  IndexInv'
<1>1. PICK next \in Labels \ {"rename"} : pc' = [pc EXCEPT ![a] = next]
  <2>1. CASE \E s \in Sessions, new \in New : Convert(a, s, new)
    BY <2>1 DEF Convert, Goto, Labels, Over, Ends
  <2>2. CASE CreateTemp(a) \/ Write(a) \/ Sync(a) \/ Export(a)
    BY <2>2
       DEF CreateTemp, Write, Sync, Export, WriterStep, GiveUp, Goto, Labels, Over, Ends
  <2>3. CASE Place(a) \/ CliImport(a)
    BY <2>3 DEF Place, CliImport, GiveUp, Goto, Labels, Over, Ends
  <2> QED
    BY <2>1, <2>2, <2>3
<1>2. UNCHANGED <<index, original, late, lost>>
  BY DEF Convert, CreateTemp, Write, Sync, Export, WriterStep, Place, CliImport,
         history
<1> QED
  BY <1>1, <1>2, IndexAlone DEF IndexInv

(* The three steps of removeClaudeIndexEntry. *)
LEMMA RemovingEntryInv ==
  ASSUME IndexInv, NEW a \in Actors,
         ReadIndex(a) \/ CompareIndex(a) \/ RenameIndex(a)
  PROVE  IndexInv'
<1>1. CASE ReadIndex(a)
  BY <1>1, IndexAlone
     DEF ReadIndex, Goto, IndexInv, Labels, Over, history
<1>2. CASE CompareIndex(a)
  BY <1>2, IndexAlone
     DEF CompareIndex, Unchanged, Goto, Forget, IndexInv, Labels, Over, history
<1>3. CASE RenameIndex(a)
  <2>1. /\ pc' = [pc EXCEPT ![a] = "unlink"]
        /\ original' = [original EXCEPT ![a] = {}]
    BY <1>3 DEF RenameIndex, Goto, Forget
  <2>2. /\ pc' \in [Actors -> Labels]
        /\ original' \in [Actors -> SUBSET Sessions]
        /\ pc'[a] # "rename"
        /\ \A b \in Actors \ {a} : pc'[b] = pc[b] /\ original'[b] = original[b]
    BY <2>1 DEF IndexInv, Labels
  <2>3. CASE UNCHANGED <<index, lost, late>>
    BY <2>2, <2>3, IndexAlone
  <2>4. CASE /\ index' = original[a] \ {row[a]}
             /\ lost' = lost \cup (index \ (index' \cup {row[a]}))
             /\ MadeLate({a}, index' \ index)
    <3>1. late \subseteq late'
      BY <2>4 DEF MadeLate
    <3>2. index \ original[a] \subseteq late
      BY <1>3 DEF RenameIndex, IndexInv
    <3>3. lost' \subseteq late'
      BY <2>4, <3>1, <3>2 DEF IndexInv, IndexKeepsOthers
    <3>4. ASSUME NEW b \in Actors, pc'[b] = "rename"
          PROVE  index' \ original'[b] \subseteq late'
      <4>1. b # a /\ pc[b] = "rename" /\ original'[b] = original[b]
        BY <2>2, <3>4
      <4>2. late' = late \cup (index' \ index)
        BY <2>4, <4>1 DEF MadeLate
      <4> QED
        BY <4>1, <4>2 DEF IndexInv
    <3> QED
      BY <2>2, <2>4, <3>3, <3>4 DEF IndexInv, IndexKeepsOthers
  <2> QED
    BY <1>3, <2>3, <2>4 DEF RenameIndex
<1> QED
  BY <1>1, <1>2, <1>3

LEMMA IndexInvariance == IndexInv /\ [Next]_svars => IndexInv'
<1> SUFFICES ASSUME IndexInv, [Next]_svars PROVE IndexInv'
  OBVIOUS
<1>1. CASE UNCHANGED svars \/ Lists \/ Scans \/ ListerDies
  <2>1. UNCHANGED <<index, pc, original, late, lost>>
    BY <1>1 DEF svars, acting, history, Lists, Scans, ListerDies, NoOther
  <2> QED
    BY <2>1, IndexAlone DEF IndexInv
<1>2. CASE PowerCut
  <2>1. /\ pc' = [a \in Actors |-> "dead"]
        /\ original' = [a \in Actors |-> {}]
        /\ UNCHANGED <<index, late, lost>>
    BY <1>2 DEF PowerCut, history
  <2> QED
    BY <2>1, IndexAlone DEF Labels, Over, Ends
<1>3. ASSUME NEW a \in Actors, Act(a) PROVE IndexInv'
  BY <1>3, DeletingIndexInv, ConvertingIndexInv, RemovingEntryInv DEF Act
<1>4. CASE \E s \in Native : SaveBegins(s) \/ SaveEnds(s)
  <2>1. UNCHANGED <<index, pc, original, late, lost>>
    BY <1>4 DEF SaveBegins, SaveEnds, Touch, acting
  <2> QED
    BY <2>1, IndexAlone DEF IndexInv
<1>5. ASSUME NEW s \in Sessions, ClaudeIndexes(s) PROVE IndexInv'
  <2>1. /\ index' = index \cup {s} /\ UNCHANGED <<pc, original, lost>>
        /\ MadeLate({}, {s})
    BY <1>5 DEF ClaudeIndexes, acting
  <2>2. \A a \in Actors : pc'[a] = "rename" => late' = late \cup {s}
    BY <2>1 DEF MadeLate
  <2>3. late \subseteq late'
    BY <2>1 DEF MadeLate
  <2> QED
    BY <2>1, <2>2, <2>3 DEF IndexInv, IndexKeepsOthers
<1> QED
  BY <1>1, <1>2, <1>3, <1>4, <1>5 DEF Next

(* removeClaudeIndexEntry, by any number of deletions at once: the only     *)
(* entries of other sessions it can lose are those that appear between the  *)
(* comparison and the rename.                                               *)
THEOREM IndexKeepsOthersHolds == Spec => []IndexKeepsOthers
<1>1. IndexInv => IndexKeepsOthers
  BY DEF IndexInv
<1> QED
  BY <1>1, IndexInitInv, IndexInvariance, PTL DEF Spec

-----------------------------------------------------------------------------
(* Deletions and conversions.                                               *)

Writing == {"create", "write", "sync", "place", "export", "import"}
OneFile == {"readIndex", "compare", "rename", "unlink", "cli"}
ThreeFiles == {"backup", "journal", "main", "report"}

Clear(s) == \A f \in Parts(s) : file[f] = None

StoresTypeOK ==
    /\ file \in [Files -> States] /\ sometime \subseteq Named
    /\ pc \in [Actors -> Labels]
    /\ row \in [Actors -> Sessions \cup {NoRow}]
    /\ failed \in [Actors -> BOOLEAN]
    /\ known \subseteq Sessions /\ erased \subseteq Sessions

(* Conversions place whole and synced files. *)
MainInv == \A s \in New : Filed(s) => file[Main(s)] \in {None, "synced"}

(* An id that nobody has taken, or whose conversion is not over, names      *)
(* nothing: no file, no row of any listing, no deletion.                    *)
Fresh(n) == n \notin Taken \/ \E a \in Actors : pc[a] \in Writing /\ row[a] = n

FreshInv ==
    \A n \in New : Fresh(n) =>
        file[Main(n)] = None /\ n \notin known /\ Main(n) \notin sometime

(* ... and its conversion is the only command on it. *)
UniqueInv ==
    \A a, b \in Actors : pc[a] \in Writing /\ row[b] = row[a] => a = b

ErasedInv == \A s \in erased : s \in known /\ Clear(s)

ActorInv(a) ==
    /\ pc[a] = "idle" => row[a] = NoRow
    /\ pc[a] \in OneFile => row[a] \in known /\ StoreOf[row[a]] # "jcode"
    /\ pc[a] \in ThreeFiles => row[a] \in known /\ StoreOf[row[a]] = "jcode"
    /\ a \notin touched /\ ~failed[a] =>
         /\ pc[a] \in {"journal", "main", "report"} => file[Backup(row[a])] = None
         /\ pc[a] \in {"main", "report"} => file[Journal(row[a])] = None
         /\ pc[a] = "report" => file[Main(row[a])] = None
    /\ pc[a] \in Writing => row[a] \in New
    /\ pc[a] \in {"export", "import"} => ~Filed(row[a])
    /\ pc[a] = "place" => file[Temp(a)] = "synced"
    /\ pc[a] = "refused" /\ row[a] \in New \ known /\ Filed(row[a]) =>
         file[Main(row[a])] = None

SInv == /\ StoresTypeOK /\ MainInv /\ FreshInv /\ UniqueInv /\ ErasedInv
        /\ \A a \in Actors : ActorInv(a)

-----------------------------------------------------------------------------
LEMMA PartsAreFiles ==
  /\ \A s \in Sessions : /\ Parts(s) \subseteq Files
                         /\ Main(s) \in Parts(s)
                         /\ Parts(s) \subseteq {Main(s), Backup(s), Journal(s)}
  /\ \A s \in Sessions : StoreOf[s] = "jcode" =>
                           Backup(s) \in Parts(s) /\ Journal(s) \in Parts(s)
  /\ \A s \in Sessions : StoreOf[s] # "jcode" => Parts(s) = {Main(s)}
  /\ \A a \in Actors : Temp(a) \in Files
<1>1. Files = (UNION {Parts(s) : s \in Sessions}) \cup {Temp(b) : b \in Actors}
  BY StoresAssumption
<1>2. \A s \in Sessions : Parts(s) \subseteq Files
  BY <1>1
<1>3. \A a \in Actors : Temp(a) \in Files
  BY <1>1
<1> QED
  BY <1>2, <1>3 DEF Parts

LEMMA PartsAreApart ==
  /\ \A s, t \in Sessions : s # t => Parts(s) \cap Parts(t) = {}
  /\ \A s \in Sessions : \A a \in Actors : Temp(a) \notin Parts(s)
  /\ \A s, t \in Sessions : Main(s) = Main(t) => s = t
  /\ \A a, b \in Actors : Temp(a) = Temp(b) => a = b
  BY DEF Parts, Main, Backup, Journal, Temp

LEMMA NamedAreMain == Named = {Main(s) : s \in Sessions}
  BY StoresAssumption

LEMMA SessionSorts ==
  /\ New \subseteq Sessions /\ Native \subseteq Sessions /\ Native \cap New = {}
  /\ NoRow \notin Sessions
  BY StoresAssumption DEF NoRow

(* What a step that only removes files, S apart, leaves of a session.       *)
Keeps(S) == \A f \in Files \ S : file'[f] \in {file[f], None}

LEMMA SessionKept ==
  ASSUME NEW S, Keeps(S), NEW s \in Sessions, S \cap Parts(s) = {}
  PROVE  /\ file[Main(s)] = None => file'[Main(s)] = None
         /\ file[Main(s)] \in {None, "synced"} => file'[Main(s)] \in {None, "synced"}
         /\ Clear(s) => Clear(s)'
<1>1. \A f \in Parts(s) : f \in Files \ S
  BY PartsAreFiles
<1> QED
  BY <1>1, PartsAreFiles DEF Keeps, Clear

(* A command that a step is not about. *)
LEMMA ActorKept ==
  ASSUME StoresTypeOK, NEW a \in Actors, ActorInv(a), NEW S, Keeps(S),
         pc'[a] = pc[a], row'[a] = row[a], failed'[a] = failed[a],
         touched \subseteq touched', known \subseteq known',
         pc[a] = "place" => file'[Temp(a)] = file[Temp(a)],
         pc[a] \in ThreeFiles /\ a \notin touched' => S \cap Parts(row[a]) = {},
         pc[a] = "refused" /\ row[a] \in New \ known => S \cap Parts(row[a]) = {}
  PROVE  ActorInv(a)'
<1>1. pc[a] \in ThreeFiles => row[a] \in Sessions
  BY DEF ActorInv, StoresTypeOK
<1>2. ASSUME pc[a] \in ThreeFiles, a \notin touched', ~failed'[a]
      PROVE  /\ pc[a] \in {"journal", "main", "report"} => file'[Backup(row[a])] = None
             /\ pc[a] \in {"main", "report"} => file'[Journal(row[a])] = None
             /\ pc[a] = "report" => file'[Main(row[a])] = None
  <2>1. \A f \in Parts(row[a]) : f \in Files \ S
    BY <1>1, <1>2, PartsAreFiles
  <2>2. /\ Main(row[a]) \in Parts(row[a]) /\ Backup(row[a]) \in Parts(row[a])
        /\ Journal(row[a]) \in Parts(row[a])
    BY <1>1, <1>2, PartsAreFiles DEF ActorInv
  <2> QED
    BY <1>2, <2>1, <2>2 DEF ActorInv, Keeps
<1>3. ASSUME pc[a] = "refused", row[a] \in New \ known, Filed(row[a])
      PROVE  file'[Main(row[a])] = None
  BY <1>3, SessionKept, SessionSorts DEF ActorInv
<1> QED
  BY <1>2, <1>3 DEF ActorInv, ThreeFiles

LEMMA WatchedAreNamed ==
  ASSUME StoresTypeOK, Watch \/ UNCHANGED watched
  PROVE  /\ sometime' \subseteq Named
         /\ \A s \in Sessions : /\ file'[Main(s)] = None
                                /\ Main(s) \notin sometime
                                => Main(s) \notin sometime'
  BY DEF Watch, watched, Readable, Parses, Whole, StoresTypeOK, None

(* A step of one command that goes on with its session: it removes files,   *)
(* S apart, which is its temporary file and, at its end, what it places.    *)
LEMMA CommandStep ==
  ASSUME SInv, NEW a \in Actors, StoresTypeOK', NEW S, Keeps(S),
         Watch \/ UNCHANGED watched,
         UNCHANGED <<row, known, touched>>,
         \A b \in Actors \ {a} : /\ pc'[b] = pc[b] /\ failed'[b] = failed[b]
                                 /\ file'[Temp(b)] = file[Temp(b)],
         pc'[a] \in Writing => pc[a] \in Writing,
         \/ S \subseteq {Temp(a)}
         \/ /\ S \subseteq {Temp(a), Main(row[a])}
            /\ pc[a] \in Writing /\ pc'[a] \notin Writing
            /\ file'[Main(row[a])] = "synced" \/ ~Filed(row[a]),
         \/ erased' = erased
         \/ erased' = erased \cup {row[a]} /\ row[a] \in known /\ Clear(row[a])',
         ActorInv(a)'
  PROVE  SInv'
<1> USE SessionSorts
<1>1. ASSUME NEW s \in Sessions, S \cap Parts(s) # {}
      PROVE  s = row[a] /\ pc[a] \in Writing /\ pc'[a] \notin Writing
             /\ (file'[Main(row[a])] = "synced" \/ ~Filed(row[a]))
  <2>1. Temp(a) \notin Parts(s)
    BY PartsAreApart
  <2>2. Main(row[a]) \in Parts(s) /\ pc[a] \in Writing /\ pc'[a] \notin Writing
        /\ (file'[Main(row[a])] = "synced" \/ ~Filed(row[a]))
    BY <1>1, <2>1
  <2>3. row[a] \in Sessions
    BY <2>2 DEF SInv, ActorInv
  <2> QED
    BY <2>2, <2>3, PartsAreFiles, PartsAreApart
<1>2. MainInv'
  <2> SUFFICES ASSUME NEW s \in New, Filed(s)
               PROVE  file'[Main(s)] \in {None, "synced"}
    BY DEF MainInv
  <2>1. CASE S \cap Parts(s) = {}
    BY <2>1, SessionKept DEF SInv, MainInv
  <2>2. CASE S \cap Parts(s) # {}
    BY <1>1, <2>2
  <2> QED
    BY <2>1, <2>2
<1>3. UniqueInv'
  BY DEF SInv, UniqueInv
<1>4. FreshInv'
  <2> SUFFICES ASSUME NEW n \in New, Fresh(n)'
               PROVE  file'[Main(n)] = None /\ n \notin known
                      /\ Main(n) \notin sometime'
    BY DEF FreshInv
  <2>1. Fresh(n)
    BY DEF Fresh, Taken
  <2>2. S \cap Parts(n) = {}
    <3> SUFFICES ASSUME S \cap Parts(n) # {} PROVE FALSE
      OBVIOUS
    <3>1. n = row[a] /\ pc[a] \in Writing /\ pc'[a] \notin Writing
      BY <1>1
    <3>2. PICK b \in Actors : pc'[b] \in Writing /\ row[b] = n
      BY <3>1 DEF Fresh, Taken
    <3> QED
      BY <3>1, <3>2 DEF SInv, UniqueInv
  <2> QED
    BY <2>1, <2>2, SessionKept, WatchedAreNamed DEF SInv, FreshInv
<1>5. ErasedInv'
  <2>1. ASSUME NEW s \in erased PROVE s \in known /\ Clear(s)'
    <3>1. s \in Sessions /\ s \in known /\ Clear(s)
      BY DEF SInv, StoresTypeOK, ErasedInv
    <3>2. S \cap Parts(s) = {}
      BY <1>1, <3>1 DEF SInv, ActorInv, FreshInv, Fresh
    <3> QED
      BY <3>1, <3>2, SessionKept
  <2> QED
    BY <2>1 DEF ErasedInv
<1>6. ASSUME NEW b \in Actors, b # a PROVE ActorInv(b)'
  <2>1. row[b] \in Sessions => S \cap Parts(row[b]) = {}
    BY <1>1, <1>6 DEF SInv, UniqueInv
  <2>2. pc[b] \in ThreeFiles \/ row[b] \in New => row[b] \in Sessions
    BY DEF SInv, ActorInv, StoresTypeOK
  <2> QED
    BY <1>6, <2>1, <2>2, ActorKept DEF SInv
<1> QED
  BY <1>2, <1>3, <1>4, <1>5, <1>6 DEF SInv

LEMMA PutChanges ==
  ASSUME StoresTypeOK, NEW f, NEW state \in States, Put(f, state)
  PROVE  /\ file' \in [Files -> States]
         /\ \A g \in Files : g # f => file'[g] = file[g]
         /\ f \in Files => file'[f] = state
         /\ Watch
  BY DEF StoresTypeOK, Put

LEMMA PutElsewhere ==
  ASSUME StoresTypeOK, NEW f \in Files, NEW state \in States, Put(f, state),
         \A a \in Actors : Temp(a) # f
  PROVE  \A a \in Actors : file'[Temp(a)] = file[Temp(a)]
  BY PutChanges, PartsAreFiles

LEMMA TempIsNoPart ==
  ASSUME NEW s \in Sessions, NEW a \in Actors, NEW f \in Parts(s)
  PROVE  Temp(a) # f
  BY PartsAreApart

(* JCode's three removals. *)
LEMMA RemovePartInv ==
  ASSUME SInv, NEW a \in Actors,
         RemoveBackup(a) \/ RemoveJournal(a) \/ RemoveMain(a)
  PROVE  SInv'
<1>1. /\ pc[a] \in {"backup", "journal", "main"} /\ row[a] \in Sessions
      /\ row[a] \in known /\ StoreOf[row[a]] = "jcode"
  BY DEF RemoveBackup, RemoveJournal, RemoveMain, RemovePart, SInv, ActorInv,
         StoresTypeOK, ThreeFiles
<1> DEFINE F == CASE pc[a] = "backup" -> Backup(row[a])
                  [] pc[a] = "journal" -> Journal(row[a])
                  [] OTHER -> Main(row[a])
           N == CASE pc[a] = "backup" -> "journal"
                  [] pc[a] = "journal" -> "main"
                  [] OTHER -> "report"
<1>2. RemovePart(a, pc[a], F, N)
  BY DEF RemoveBackup, RemoveJournal, RemoveMain, RemovePart
<1>3. F \in Parts(row[a]) /\ F \in Files
  BY <1>1, PartsAreFiles
<1>4. N \in {"journal", "main", "report"} /\ N \in Labels
  BY DEF Labels
<1> HIDE DEF F, N
<1>5. UNCHANGED <<scans, row, known, erased, touched>> /\ pc' = [pc EXCEPT ![a] = N]
  BY <1>2 DEF RemovePart, Goto, history
<1>6. /\ failed' \in [Actors -> BOOLEAN]
      /\ \A b \in Actors \ {a} : failed'[b] = failed[b]
      /\ ~failed'[a] => ~failed[a] /\ (Put(F, None) \/ (file' = file /\ file[F] = None))
  <2>1. \/ Put(F, None) /\ failed' = failed
        \/ file[F] = None /\ file' = file /\ failed' = failed
        \/ failed' = [failed EXCEPT ![a] = TRUE]
    BY <1>2 DEF RemovePart
  <2>2. failed \in [Actors -> BOOLEAN]
    BY DEF SInv, StoresTypeOK
  <2>3. CASE failed' = [failed EXCEPT ![a] = TRUE]
    BY <2>2, <2>3
  <2>4. CASE failed' = failed /\ (Put(F, None) \/ (file[F] = None /\ file' = file))
    BY <2>2, <2>4
  <2> QED
    BY <2>1, <2>3, <2>4
<1>7. Put(F, None) \/ UNCHANGED <<file, watched>>
  BY <1>2 DEF RemovePart
<1>8. /\ file' \in [Files -> States] /\ Keeps({}) /\ (Watch \/ UNCHANGED watched)
      /\ \A b \in Actors : file'[Temp(b)] = file[Temp(b)]
      /\ ~failed'[a] => file'[F] = None
  BY <1>1, <1>3, <1>6, <1>7, PutChanges, PutElsewhere, TempIsNoPart
     DEF SInv, StoresTypeOK, Keeps, States
<1>9. StoresTypeOK'
  BY <1>4, <1>5, <1>6, <1>8, WatchedAreNamed DEF SInv, StoresTypeOK
<1>10. ActorInv(a)'
  <2>1. pc'[a] = N /\ row'[a] = row[a] /\ N \in ThreeFiles
    BY <1>4, <1>5 DEF SInv, StoresTypeOK, ThreeFiles
  <2>2. /\ Backup(row[a]) \in Files /\ Journal(row[a]) \in Files
    BY <1>1, PartsAreFiles
  <2>3. ASSUME a \notin touched, ~failed'[a]
        PROVE  /\ file'[Backup(row[a])] = None
               /\ pc[a] \in {"journal", "main"} => file'[Journal(row[a])] = None
               /\ pc[a] = "main" => file'[Main(row[a])] = None
    <3>1. /\ pc[a] \in {"journal", "main"} => file[Backup(row[a])] = None
          /\ pc[a] = "main" => file[Journal(row[a])] = None
      BY <1>6, <2>3 DEF SInv, ActorInv
    <3> QED
      BY <1>1, <1>8, <2>2, <2>3, <3>1 DEF Keeps, F
  <2> QED
    BY <1>1, <1>5, <2>1, <2>3
       DEF ActorInv, N, OneFile, ThreeFiles, Writing
<1> QED
  BY <1>4, <1>5, <1>6, <1>8, <1>9, <1>10, CommandStep
     DEF SInv, StoresTypeOK, Writing

LEMMA ReportJCodeInv ==
  ASSUME SInv, NEW a \in Actors, ReportJCode(a)
  PROVE  SInv'
<1>1. /\ pc[a] = "report" /\ row[a] \in Sessions
      /\ row[a] \in known /\ StoreOf[row[a]] = "jcode"
  BY DEF ReportJCode, SInv, ActorInv, StoresTypeOK, ThreeFiles
<1>2. PICK end \in {"deleted", "refused"} : pc' = [pc EXCEPT ![a] = end]
  BY DEF ReportJCode, Report, Goto
<1>3. /\ failed' = [failed EXCEPT ![a] = FALSE]
      /\ UNCHANGED <<file, watched, row, known, touched>>
  BY DEF ReportJCode, dvars
<1>4. \/ erased' = erased
      \/ erased' = erased \cup {row[a]} /\ a \notin touched /\ ~failed[a]
  BY DEF ReportJCode, Report, AllRemoved
<1>5. a \notin touched /\ ~failed[a] => Clear(row[a])'
  <2>1. Parts(row[a]) \subseteq {Main(row[a]), Backup(row[a]), Journal(row[a])}
    BY <1>1, PartsAreFiles
  <2> QED
    BY <1>1, <1>3, <2>1 DEF SInv, ActorInv, Clear
<1>6. StoresTypeOK'
  BY <1>1, <1>2, <1>3, <1>4, WatchedAreNamed
     DEF SInv, StoresTypeOK, Labels, Over, Ends
<1>7. ActorInv(a)'
  BY <1>1, <1>2, <1>3
     DEF ActorInv, SInv, StoresTypeOK, OneFile, ThreeFiles, Writing
<1>8. Keeps({})
  BY <1>3 DEF Keeps
<1> QED
  BY <1>1, <1>2, <1>3, <1>4, <1>5, <1>6, <1>7, <1>8, CommandStep
     DEF SInv, StoresTypeOK, Writing

(* Claude's index touches no file. *)
LEMMA IndexStepInv ==
  ASSUME SInv, NEW a \in Actors,
         ReadIndex(a) \/ CompareIndex(a) \/ RenameIndex(a)
  PROVE  SInv'
<1>1. /\ pc[a] \in OneFile /\ row[a] \in known /\ StoreOf[row[a]] # "jcode"
  BY DEF ReadIndex, CompareIndex, RenameIndex, SInv, ActorInv, OneFile
<1>2. PICK next \in {"compare", "rename", "unlink"} : pc' = [pc EXCEPT ![a] = next]
  BY DEF ReadIndex, CompareIndex, RenameIndex, Goto
<1>3. UNCHANGED <<file, watched, row, failed, known, touched, erased>>
  BY DEF ReadIndex, CompareIndex, RenameIndex, dvars, history
<1>4. StoresTypeOK'
  BY <1>2, <1>3, WatchedAreNamed DEF SInv, StoresTypeOK, Labels
<1>5. ActorInv(a)'
  BY <1>1, <1>2, <1>3
     DEF ActorInv, SInv, StoresTypeOK, OneFile, ThreeFiles, Writing
<1>6. Keeps({})
  BY <1>3 DEF Keeps
<1> QED
  BY <1>2, <1>3, <1>4, <1>5, <1>6, CommandStep DEF SInv, StoresTypeOK, Writing

(* A session of one file goes. *)
LEMMA RemoveOneInv ==
  ASSUME SInv, NEW a \in Actors, Unlink(a) \/ CliDelete(a)
  PROVE  SInv'
<1>1. /\ pc[a] \in OneFile /\ row[a] \in Sessions
      /\ row[a] \in known /\ StoreOf[row[a]] # "jcode"
  BY DEF Unlink, CliDelete, SInv, ActorInv, StoresTypeOK, OneFile
<1>2. PICK end \in {"deleted", "refused"} : pc' = [pc EXCEPT ![a] = end]
  BY DEF Unlink, CliDelete, Report, Goto
<1>3. UNCHANGED <<row, failed, known, touched>>
  BY DEF Unlink, CliDelete
<1>4. \/ Put(Main(row[a]), None)
      \/ UNCHANGED <<file, watched, erased>>
  BY DEF Unlink, CliDelete
<1>5. erased' = erased \/ (erased' = erased \cup {row[a]} /\ Put(Main(row[a]), None))
  <2>1. Report(a) => erased' = erased \/ erased' = erased \cup {row[a]}
    BY DEF Report
  <2> QED
    BY <2>1 DEF Unlink, CliDelete
<1>6. Main(row[a]) \in Files /\ Parts(row[a]) = {Main(row[a])}
  BY <1>1, PartsAreFiles
<1>7. /\ file' \in [Files -> States] /\ Keeps({}) /\ (Watch \/ UNCHANGED watched)
      /\ \A b \in Actors : file'[Temp(b)] = file[Temp(b)]
      /\ erased' # erased => Clear(row[a])'
  <2>1. CASE Put(Main(row[a]), None)
    <3>1. /\ file' \in [Files -> States] /\ Watch /\ file'[Main(row[a])] = None
          /\ \A g \in Files : g # Main(row[a]) => file'[g] = file[g]
      BY <1>6, <2>1, PutChanges DEF SInv, States
    <3>2. \A b \in Actors : Temp(b) \in Files /\ Temp(b) # Main(row[a])
      BY <1>1, <1>6, PartsAreFiles, TempIsNoPart
    <3>3. Clear(row[a])'
      BY <1>3, <1>6, <3>1 DEF Clear
    <3> QED
      BY <3>1, <3>2, <3>3 DEF Keeps
  <2>2. CASE UNCHANGED <<file, watched, erased>>
    BY <2>2 DEF SInv, StoresTypeOK, Keeps
  <2> QED
    BY <1>4, <2>1, <2>2
<1>8. StoresTypeOK'
  BY <1>1, <1>2, <1>3, <1>5, <1>7, WatchedAreNamed
     DEF SInv, StoresTypeOK, Labels, Over, Ends
<1>9. ActorInv(a)'
  BY <1>1, <1>2, <1>3
     DEF ActorInv, SInv, StoresTypeOK, OneFile, ThreeFiles, Writing
<1> QED
  BY <1>1, <1>2, <1>3, <1>5, <1>7, <1>8, <1>9, CommandStep
     DEF SInv, StoresTypeOK, Writing

(* The temporary file of a conversion. *)
LEMMA WriterStepInv ==
  ASSUME SInv, NEW a \in Actors, CreateTemp(a) \/ Write(a) \/ Sync(a) \/ Export(a)
  PROVE  SInv'
<1>1. /\ pc[a] \in Writing /\ row[a] \in New /\ row[a] \in Sessions
  BY SessionSorts
     DEF CreateTemp, Write, Sync, Export, WriterStep, SInv, ActorInv, Writing
<1>0. Temp(a) \in Files /\ file[Temp(a)] \in States
  BY PartsAreFiles DEF SInv, StoresTypeOK
<1>2. PICK next \in {"write", "sync", "place", "refused", "import"}, state \in States :
        /\ pc' = [pc EXCEPT ![a] = next] /\ Put(Temp(a), state)
        /\ next = "place" => state = "synced"
        /\ next = "import" => pc[a] = "export"
  BY <1>0 DEF CreateTemp, Write, Sync, Export, WriterStep, GiveUp, Goto, States
<1>3. UNCHANGED <<row, failed, known, touched, erased>>
  BY DEF CreateTemp, Write, Sync, Export, WriterStep, history
<1>4. /\ file' \in [Files -> States] /\ Watch /\ file'[Temp(a)] = state
      /\ \A g \in Files : g # Temp(a) => file'[g] = file[g]
  BY <1>0, <1>2, PutChanges DEF SInv
<1>5. StoresTypeOK'
  BY <1>2, <1>3, <1>4, WatchedAreNamed
     DEF SInv, StoresTypeOK, Labels, Over, Ends
<1>6. file'[Main(row[a])] = None
  <2>1. file[Main(row[a])] = None
    BY <1>1 DEF SInv, FreshInv, Fresh
  <2> QED
    BY <1>1, <1>4, <2>1, PartsAreFiles, PartsAreApart
<1>7. ActorInv(a)'
  BY <1>1, <1>2, <1>3, <1>4, <1>6
     DEF ActorInv, SInv, StoresTypeOK, OneFile, ThreeFiles, Writing
<1>8. \A b \in Actors \ {a} : file'[Temp(b)] = file[Temp(b)]
  BY <1>4, PartsAreFiles, PartsAreApart
<1>9. Keeps({Temp(a)})
  BY <1>4 DEF Keeps
<1> QED
  BY <1>1, <1>2, <1>3, <1>4, <1>5, <1>7, <1>8, <1>9, CommandStep
     DEF SInv, StoresTypeOK

LEMMA PlaceInv ==
  ASSUME SInv, NEW a \in Actors, Place(a)
  PROVE  SInv'
<1>1. /\ pc[a] = "place" /\ row[a] \in New /\ row[a] \in Sessions
      /\ file[Temp(a)] = "synced" /\ file[Main(row[a])] = None
  BY SessionSorts DEF Place, SInv, ActorInv, Writing, FreshInv, Fresh
<1>2. Main(row[a]) \in Files /\ Temp(a) \in Files /\ Main(row[a]) # Temp(a)
  BY <1>1, PartsAreFiles, PartsAreApart
<1>3. UNCHANGED <<row, failed, known, touched, erased>>
  BY DEF Place, history
<1>4. \A b \in Actors \ {a} : Temp(b) \in Files /\ Temp(b) # Temp(a)
                              /\ Temp(b) # Main(row[a])
  BY <1>1, PartsAreFiles, PartsAreApart
<1>5. CASE /\ file' = [file EXCEPT ![Main(row[a])] = file[Temp(a)],
                                   ![Temp(a)] = None]
           /\ Watch /\ Goto(a, "converted")
  <2>1. /\ file' \in [Files -> States] /\ file'[Main(row[a])] = "synced"
        /\ \A g \in Files \ {Temp(a), Main(row[a])} : file'[g] = file[g]
    BY <1>1, <1>2, <1>5 DEF SInv, StoresTypeOK, States
  <2>2. pc' = [pc EXCEPT ![a] = "converted"]
    BY <1>5 DEF Goto
  <2>3. StoresTypeOK'
    BY <1>3, <1>5, <2>1, <2>2, WatchedAreNamed
       DEF SInv, StoresTypeOK, Labels, Over, Ends
  <2>4. ActorInv(a)'
    BY <1>1, <1>3, <2>2
       DEF ActorInv, SInv, StoresTypeOK, OneFile, ThreeFiles, Writing
  <2>5. Keeps({Temp(a), Main(row[a])})
    BY <2>1 DEF Keeps
  <2> QED
    BY <1>1, <1>3, <1>4, <1>5, <2>1, <2>2, <2>3, <2>4, <2>5, CommandStep
       DEF SInv, StoresTypeOK, Writing
<1>6. CASE GiveUp(a)
  <2>0. PICK left \in States : Put(Temp(a), left)
    BY <1>1, <1>6 DEF GiveUp, States
  <2>1. /\ file' \in [Files -> States] /\ Watch
        /\ \A g \in Files : g # Temp(a) => file'[g] = file[g]
    BY <1>2, <2>0, PutChanges DEF SInv
  <2>2. pc' = [pc EXCEPT ![a] = "refused"]
    BY <1>6 DEF GiveUp, Goto
  <2>3. StoresTypeOK'
    BY <1>3, <2>1, <2>2, WatchedAreNamed
       DEF SInv, StoresTypeOK, Labels, Over, Ends
  <2>4. ActorInv(a)'
    BY <1>1, <1>2, <1>3, <2>1, <2>2
       DEF ActorInv, SInv, StoresTypeOK, OneFile, ThreeFiles, Writing
  <2>5. Keeps({Temp(a)})
    BY <2>1 DEF Keeps
  <2> QED
    BY <1>1, <1>3, <1>4, <2>1, <2>2, <2>3, <2>4, <2>5, CommandStep
       DEF SInv, StoresTypeOK, Writing
<1> QED
  BY <1>5, <1>6 DEF Place

(* What `opencode import` may have stored when it ends. *)
LEMMA CliImportInv ==
  ASSUME SInv, NEW a \in Actors, CliImport(a)
  PROVE  SInv'
<1>1. /\ pc[a] = "import" /\ row[a] \in New /\ row[a] \in Sessions /\ ~Filed(row[a])
  BY SessionSorts DEF CliImport, SInv, ActorInv, Writing
<1>2. /\ Main(row[a]) \in Files /\ Temp(a) \in Files /\ Main(row[a]) # Temp(a)
      /\ file[Temp(a)] \in States
  BY <1>1, PartsAreFiles, PartsAreApart DEF SInv, StoresTypeOK
<1>3. UNCHANGED <<row, failed, known, touched, erased>> /\ Watch
  BY DEF CliImport, history
<1>4. \A b \in Actors \ {a} : Temp(b) \in Files /\ Temp(b) # Temp(a)
                              /\ Temp(b) # Main(row[a])
  BY <1>1, PartsAreFiles, PartsAreApart
<1>5. /\ file' \in [Files -> States]
      /\ \A g \in Files \ {Temp(a), Main(row[a])} : file'[g] = file[g]
  BY <1>2 DEF CliImport, SInv, StoresTypeOK, States
<1>6. PICK end \in {"converted", "refused"} : pc' = [pc EXCEPT ![a] = end]
  BY DEF CliImport, Goto
<1>7. StoresTypeOK'
  BY <1>3, <1>5, <1>6, WatchedAreNamed DEF SInv, StoresTypeOK, Labels, Over, Ends
<1>8. ActorInv(a)'
  BY <1>1, <1>3, <1>6
     DEF ActorInv, SInv, StoresTypeOK, OneFile, ThreeFiles, Writing
<1>9. Keeps({Temp(a), Main(row[a])})
  BY <1>5 DEF Keeps
<1> QED
  BY <1>1, <1>3, <1>4, <1>5, <1>6, <1>7, <1>8, <1>9, CommandStep
     DEF SInv, StoresTypeOK, Writing

LEMMA DieInv ==
  ASSUME SInv, NEW a \in Actors, Die(a)
  PROVE  SInv'
<1>1. /\ pc' = [pc EXCEPT ![a] = "dead"] /\ failed' = [failed EXCEPT ![a] = FALSE]
      /\ UNCHANGED <<file, watched, row, known, touched, erased>>
  BY DEF Die, Goto, dvars, history
<1>2. StoresTypeOK'
  BY <1>1, WatchedAreNamed DEF SInv, StoresTypeOK, Labels, Over, Ends
<1>3. ActorInv(a)'
  BY <1>1 DEF ActorInv, SInv, StoresTypeOK, OneFile, ThreeFiles, Writing
<1>4. Keeps({})
  BY <1>1 DEF Keeps
<1> QED
  BY <1>1, <1>2, <1>3, <1>4, CommandStep DEF SInv, StoresTypeOK, Writing

(* A command begins: nothing but its own state changes. *)
LEMMA CommandStarts ==
  ASSUME SInv, NEW a \in Actors, pc[a] = "idle",
         UNCHANGED <<file, watched, failed, known, erased, touched>>,
         NEW next \in Labels \ (Writing \ {"create", "export"}), pc' = [pc EXCEPT ![a] = next],
         NEW s \in Sessions \cup {NoRow}, row' = [row EXCEPT ![a] = s],
         next \in Writing => s \in New \ Taken,
         next \notin Writing => s \in known \cup {NoRow},
         ActorInv(a)'
  PROVE  SInv'
<1> USE SessionSorts
<1>1. StoresTypeOK'
  BY DEF SInv, StoresTypeOK, watched
<1>2. /\ row[a] = NoRow /\ row'[a] = s /\ pc'[a] = next
      /\ \A b \in Actors \ {a} : row'[b] = row[b] /\ pc'[b] = pc[b]
  BY DEF SInv, StoresTypeOK, ActorInv
<1>3. MainInv' /\ ErasedInv'
  BY DEF SInv, MainInv, ErasedInv, Clear
<1>4. ASSUME NEW n \in New, Fresh(n)' PROVE Fresh(n)
  <2>1. CASE \E b \in Actors : pc'[b] \in Writing /\ row'[b] = n
    BY <1>2, <2>1 DEF Fresh, Taken, Writing
  <2>2. CASE n \notin Taken'
    <3>1. \A b \in Actors : row[b] # n
      BY <1>2, <2>2 DEF Taken
    <3> QED
      BY <3>1 DEF Fresh, Taken
  <2> QED
    BY <1>4, <2>1, <2>2 DEF Fresh
<1>5. FreshInv'
  BY <1>4 DEF SInv, FreshInv, watched
<1>6. UniqueInv'
  <2> SUFFICES ASSUME NEW b \in Actors, NEW c \in Actors,
                      pc'[b] \in Writing, row'[c] = row'[b]
               PROVE  b = c
    BY DEF UniqueInv
  <2>1. CASE b = a
    <3>1. s \in New \ Taken
      BY <1>2, <2>1
    <3> QED
      BY <1>2, <2>1, <3>1 DEF Taken
  <2>2. CASE b # a /\ c = a
    <3>1. row[b] \in New /\ row[b] \notin known /\ row[b] \in Taken
      BY <1>2, <2>2 DEF SInv, ActorInv, FreshInv, Fresh, Taken
    <3>2. row[b] = s
      BY <1>2, <2>2
    <3> QED
      BY <3>1, <3>2
  <2>3. CASE b # a /\ c # a
    BY <1>2, <2>3 DEF SInv, UniqueInv
  <2> QED
    BY <2>1, <2>2, <2>3
<1>7. ASSUME NEW b \in Actors, b # a PROVE ActorInv(b)'
  BY <1>2, <1>7, ActorKept DEF SInv, Keeps
<1> QED
  BY <1>1, <1>3, <1>5, <1>6, <1>7 DEF SInv

LEMMA DeleteInv ==
  ASSUME SInv, NEW a \in Actors, NEW s \in Sessions, Delete(a, s)
  PROVE  SInv'
<1>1. PICK next \in {"refused", "backup", "readIndex", "cli", "unlink"} :
         /\ pc' = [pc EXCEPT ![a] = next]
         /\ next \in OneFile => StoreOf[s] # "jcode"
         /\ next \in ThreeFiles => next = "backup" /\ StoreOf[s] = "jcode"
  BY StoresAssumption DEF Delete, Goto, FirstStep, OneFile, ThreeFiles
<1>2. /\ pc[a] = "idle" /\ s \in known /\ row' = [row EXCEPT ![a] = s]
      /\ UNCHANGED <<file, watched, failed, known, erased, touched>>
  BY DEF Delete, dvars, history
<1>3. ActorInv(a)'
  BY <1>1, <1>2
     DEF ActorInv, SInv, StoresTypeOK, OneFile, ThreeFiles, Writing
<1> QED
  BY <1>1, <1>2, <1>3, CommandStarts DEF Labels, Over, Ends, Writing

LEMMA ConvertInv ==
  ASSUME SInv, NEW a \in Actors, NEW s \in Sessions, NEW new \in New,
         Convert(a, s, new)
  PROVE  SInv'
<1>1. /\ pc[a] = "idle" /\ new \in New \ Taken
      /\ UNCHANGED <<file, watched, failed, known, erased, touched>>
  BY DEF Convert, dvars, history
<1>2. CASE /\ Goto(a, IF Filed(new) THEN "create" ELSE "export")
           /\ row' = [row EXCEPT ![a] = new]
  <2>0. PICK next \in {"create", "export"} :
           /\ pc' = [pc EXCEPT ![a] = next]
           /\ next = "export" => ~Filed(new)
    BY <1>2 DEF Goto
  <2>1. ActorInv(a)'
    BY <1>1, <1>2, <2>0
       DEF ActorInv, SInv, StoresTypeOK, OneFile, ThreeFiles, Writing
  <2>2. new \in Sessions
    BY SessionSorts
  <2> QED
    BY <1>1, <1>2, <2>0, <2>1, <2>2, CommandStarts DEF Labels, Writing
<1>3. CASE Goto(a, "refused") /\ UNCHANGED row
  <2>1. row[a] = NoRow /\ row' = [row EXCEPT ![a] = NoRow]
    BY <1>1, <1>3 DEF SInv, ActorInv, StoresTypeOK
  <2>2. ActorInv(a)'
    BY <1>1, <1>3, <2>1, SessionSorts
       DEF ActorInv, Goto, SInv, StoresTypeOK, OneFile, ThreeFiles, Writing
  <2>3. /\ pc' = [pc EXCEPT ![a] = "refused"]
        /\ "refused" \in Labels \ Writing
    BY <1>3 DEF Goto, Labels, Over, Ends, Writing
  <2> QED
    BY <1>1, <2>1, <2>2, <2>3, CommandStarts
<1> QED
  BY <1>2, <1>3 DEF Convert

LEMMA ActInv ==
  ASSUME SInv, NEW a \in Actors, Act(a)
  PROVE  SInv'
  BY DeleteInv, ConvertInv, RemovePartInv, ReportJCodeInv, IndexStepInv,
     RemoveOneInv, WriterStepInv, PlaceInv, CliImportInv, DieInv DEF Act

-----------------------------------------------------------------------------
(* An agent begins or ends to write the files of one session. *)
LEMMA SaveInv ==
  ASSUME SInv, NEW s \in Native, SaveBegins(s) \/ SaveEnds(s)
  PROVE  SInv'
<1> USE SessionSorts
<1>1. PICK S \in SUBSET Parts(s), state \in States :
         /\ file' = [f \in Files |-> IF f \in S THEN state ELSE file[f]]
         /\ Watch /\ erased' = erased \ {s}
         /\ touched' = touched \cup {a \in Actors : pc[a] \notin Over /\ row[a] = s}
         /\ UNCHANGED <<pc, row, failed, known>>
  BY DEF SaveBegins, SaveEnds, Touch, acting, States
<1>2. Keeps(Parts(s)) /\ file' \in [Files -> States]
  BY <1>1 DEF Keeps, SInv, StoresTypeOK
<1>3. StoresTypeOK'
  BY <1>1, <1>2, WatchedAreNamed DEF SInv, StoresTypeOK
<1>4. \A t \in Sessions : t # s => Parts(s) \cap Parts(t) = {}
  BY PartsAreApart
<1>5. MainInv'
  BY <1>2, <1>4, SessionKept DEF SInv, MainInv
<1>6. FreshInv'
  <2> SUFFICES ASSUME NEW n \in New, Fresh(n)'
               PROVE  file'[Main(n)] = None /\ n \notin known
                      /\ Main(n) \notin sometime'
    BY <1>1 DEF FreshInv
  <2>1. Fresh(n) /\ n # s
    BY <1>1 DEF Fresh, Taken
  <2> QED
    BY <1>1, <1>2, <1>4, <2>1, SessionKept, WatchedAreNamed DEF SInv, FreshInv
<1>7. UniqueInv'
  BY <1>1 DEF SInv, UniqueInv
<1>8. ErasedInv'
  BY <1>1, <1>2, <1>4, SessionKept DEF SInv, StoresTypeOK, ErasedInv
<1>9. ASSUME NEW a \in Actors PROVE ActorInv(a)'
  <2>1. file'[Temp(a)] = file[Temp(a)]
    BY <1>1, PartsAreFiles, PartsAreApart
  <2>2. pc[a] \in ThreeFiles /\ a \notin touched' => row[a] \in Sessions /\ row[a] # s
    BY <1>1 DEF SInv, ActorInv, StoresTypeOK, ThreeFiles, Over, Ends
  <2> QED
    BY <1>1, <1>2, <1>4, <2>1, <2>2, ActorKept DEF SInv
<1> QED
  BY <1>3, <1>5, <1>6, <1>7, <1>8, <1>9 DEF SInv

(* The machine goes down: only a temporary file can be torn. *)
LEMMA PowerCutInv == SInv /\ PowerCut => SInv'
<1> SUFFICES ASSUME SInv, PowerCut PROVE SInv'
  OBVIOUS
<1> USE SessionSorts
<1>1. /\ pc' = [a \in Actors |-> "dead"] /\ failed' = [a \in Actors |-> FALSE]
      /\ sometime' = {} /\ UNCHANGED <<row, known, erased, touched>>
  BY DEF PowerCut, Abandon, history
<1>2. PICK torn \in SUBSET {f \in Files : file[f] = "written"} :
         file' = [f \in Files |-> IF f \in torn THEN "partial" ELSE file[f]]
  BY DEF PowerCut
<1>3. \A f \in Files : file[f] \in {None, "synced"} => file'[f] = file[f]
  BY <1>2 DEF None
<1>4. StoresTypeOK'
  BY <1>1, <1>2 DEF SInv, StoresTypeOK, Labels, Over, Ends, States
<1>5. MainInv'
  BY <1>3, PartsAreFiles DEF SInv, MainInv
<1>6. FreshInv'
  <2> SUFFICES ASSUME NEW n \in New, Fresh(n)'
               PROVE  file'[Main(n)] = None /\ n \notin known
    BY <1>1 DEF FreshInv
  <2>1. Fresh(n)
    BY <1>1 DEF Fresh, Taken, Writing
  <2> QED
    BY <1>3, <2>1, PartsAreFiles DEF SInv, FreshInv
<1>7. UniqueInv' /\ \A a \in Actors : ActorInv(a)'
  BY <1>1 DEF UniqueInv, ActorInv, OneFile, ThreeFiles, Writing
<1>8. ErasedInv'
  BY <1>1, <1>3, PartsAreFiles DEF SInv, StoresTypeOK, ErasedInv, Clear
<1> QED
  BY <1>4, <1>5, <1>6, <1>7, <1>8 DEF SInv

(* Steps of the listing.  What it adds to the known sessions it has found,  *)
(* and a fresh id names nothing that could be found.                        *)
LEMMA ListingStep ==
  ASSUME SInv, UNCHANGED <<file, pc, row, failed, erased, touched>>,
         sometime' \subseteq Named, known \subseteq known', known' \subseteq Sessions,
         \A n \in New : n \notin known /\ file[Main(n)] = None
                        /\ Main(n) \notin sometime
                        => n \notin known' /\ Main(n) \notin sometime'
  PROVE  SInv'
<1>1. StoresTypeOK' /\ MainInv' /\ UniqueInv'
  BY DEF SInv, StoresTypeOK, MainInv, UniqueInv
<1>2. FreshInv'
  BY DEF SInv, FreshInv, Fresh, Taken
<1>3. ErasedInv'
  BY DEF SInv, ErasedInv, Clear
<1>4. Keeps({})
  BY DEF Keeps
<1>5. ASSUME NEW a \in Actors PROVE ActorInv(a)'
  BY <1>4, ActorKept DEF SInv
<1> QED
  BY <1>1, <1>2, <1>3, <1>5 DEF SInv

LEMMA ScansInv == SInv /\ DInv /\ Scans => SInv'
<1> SUFFICES ASSUME SInv, DInv, Scans PROVE SInv'
  OBVIOUS
<1>1. UNCHANGED <<pc, row, failed, erased, touched>>
  BY DEF Scans, NoOther, acting, history
<1>2. CASE Discovered /\ known' = known \cup {f[1] : f \in rows'}
  <2>1. UNCHANGED <<file, watched>>
    BY <1>2 DEF Discovered
  <2>2. rows' \subseteq sometime
    BY <1>2 DEF Discovered, DInv, ScanInv
  <2>3. \A f \in rows' : f[1] \in Sessions /\ f = Main(f[1])
    BY <2>2, NamedAreMain DEF SInv, StoresTypeOK, Main
  <2>4. known' \subseteq Sessions
    BY <1>2, <2>3 DEF SInv, StoresTypeOK
  <2>5. \A n \in New : n \notin known /\ Main(n) \notin sometime => n \notin known'
    BY <1>2, <2>2, <2>3
  <2> QED
    BY <1>1, <1>2, <2>1, <2>4, <2>5, ListingStep DEF SInv, StoresTypeOK, watched
<1>3. CASE \E p \in Targets : TargetStep(p) /\ UNCHANGED known
  <2>1. UNCHANGED <<file, watched>>
    BY <1>3 DEF TargetStep, Query, Walk, Return, Close, Feed, Read, Send, Collect, Visit
  <2> QED
    BY <1>1, <1>3, <2>1, ListingStep DEF SInv, StoresTypeOK, watched
<1> QED
  BY <1>2, <1>3 DEF Scans

LEMMA ListerInv == SInv /\ (Lists \/ ListerDies) => SInv'
<1> SUFFICES ASSUME SInv, Lists \/ ListerDies PROVE SInv'
  OBVIOUS
<1>1. UNCHANGED <<file, pc, row, failed, erased, touched, known>>
  BY DEF Lists, Start, ListerDies, NoOther, acting, history
<1>2. sometime' = Readable \/ sometime' = {}
  BY DEF Lists, Start, ListerDies, Abandon
<1>3. /\ sometime' \subseteq Named
      /\ \A s \in Sessions : file[Main(s)] = None => Main(s) \notin sometime'
  BY <1>2 DEF Readable, Parses, Whole, None
<1> QED
  BY <1>1, <1>3, ListingStep, SessionSorts DEF SInv, StoresTypeOK

LEMMA SInvariance == SInv /\ DInv /\ [Next]_svars => SInv'
<1> SUFFICES ASSUME SInv, DInv, [Next]_svars PROVE SInv'
  OBVIOUS
<1>1. CASE UNCHANGED svars \/ \E s \in Sessions : ClaudeIndexes(s)
  <2>1. UNCHANGED <<file, sometime, pc, row, failed, known, erased, touched>>
    BY <1>1 DEF svars, dvars, watched, acting, history, ClaudeIndexes
  <2> QED
    BY <2>1, ListingStep DEF SInv, StoresTypeOK
<1> QED
  BY <1>1, ListerInv, ScansInv, PowerCutInv, ActInv, SaveInv DEF Next

LEMMA SInitInv == Init => SInv
<1> SUFFICES ASSUME Init PROVE SInv
  OBVIOUS
<1> USE SessionSorts
<1>1. /\ pc = [a \in Actors |-> "idle"] /\ row = [a \in Actors |-> NoRow]
      /\ failed = [a \in Actors |-> FALSE] /\ erased = {} /\ sometime = {}
  BY DEF Init, DiscoveryInit
<1>2. PICK there \in SUBSET (Sessions \ New) :
         /\ file = [f \in Files |-> IF \E s \in there : f \in Parts(s)
                                      THEN "synced" ELSE None]
         /\ known = there
  BY DEF Init
<1>3. StoresTypeOK
  BY <1>1, <1>2 DEF StoresTypeOK, Labels, Over, States
<1>4. MainInv
  BY <1>2, PartsAreFiles DEF MainInv
<1>5. FreshInv
  BY <1>1, <1>2, PartsAreFiles, PartsAreApart DEF FreshInv
<1>6. UniqueInv /\ ErasedInv /\ \A a \in Actors : ActorInv(a)
  BY <1>1 DEF UniqueInv, ErasedInv, ActorInv, OneFile, ThreeFiles, Writing
<1> QED
  BY <1>3, <1>4, <1>5, <1>6 DEF SInv

LEMMA AlwaysSInv == Spec => []SInv
<1>1. DiscoverySpec => []DInv
  BY DiscoveryInitInv, DiscoveryInvariance, PTL DEF DiscoverySpec
<1> QED
  BY <1>1, StoresImplementDiscovery, SInitInv, SInvariance, PTL DEF Spec

(* Delete: what is reported deleted is gone, all of it, however many        *)
(* processes delete at once, fail and die.                                  *)
THEOREM ReportedDeleteIsCompleteHolds == Spec => []ReportedDeleteIsComplete
<1>1. SInv => ReportedDeleteIsComplete
  BY DEF SInv, ErasedInv, Clear, ReportedDeleteIsComplete
<1> QED
  BY <1>1, AlwaysSInv, PTL

(* writeFileAtomic: what showagent writes itself becomes a whole session or *)
(* none, at every failure, also to clean up, every death and power cut.     *)
THEOREM ConversionIsAllOrNothingHolds == Spec => []ConversionIsAllOrNothing
<1>1. SInv => ConversionIsAllOrNothing
  BY DEF SInv, MainInv, ActorInv, ConversionIsAllOrNothing, None
<1> QED
  BY <1>1, AlwaysSInv, PTL
=============================================================================
