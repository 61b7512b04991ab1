---------------------------- MODULE UpdaterProofs ----------------------------
(***************************************************************************)
(* Safety of the self-update for any number of processes and releases.      *)
(* OfferInv: a process that goes on with a tag goes on with a newer one.    *)
(* BytesInv: what it verified, copied and is about to put in place is that  *)
(* release.  SwapInv: on Windows, at most one process is between the two    *)
(* renames unless the history says otherwise, and then the backup is there. *)
(***************************************************************************)
EXTENDS Updater, TLAPS

Offered == {"prompt", "download", "install", "copy", "replace", "aside",
            "place"}
Swapping == {"aside", "place", "rollback", "cleanup"}

(* The release that a machine may have before the first one that counts. *)
First == [n |-> 1, pre |-> TRUE]

OfferInv ==
    \A p \in Procs :
        pc[p] \in Offered => /\ running[p] \in Tags \cup {Dev}
                             /\ tag[p] \in Tags
                             /\ IsNewer(tag[p], running[p])

BytesInv ==
    \A p \in Procs :
        /\ pc[p] \in {"install", "copy"} =>
             archive[p] = tag[p] /\ tag[p] \in released
        /\ pc[p] \in {"replace", "aside", "place"} =>
             temp[p] = tag[p] /\ tag[p] \in released

StartedInv ==
    \A p \in Procs : pc[p] = "fetch" => running[p] \in Tags \cup {Dev}

SwapInv ==
    /\ os = "unix" => dest # NoTag /\ \A p \in Procs : pc[p] \notin Swapping
    /\ os = "windows" /\ ~disturbed =>
         /\ dest # NoTag \/ old # NoTag
         /\ \A p, q \in Procs :
              pc[p] \in Swapping /\ pc[q] \in Swapping => p = q
         /\ \A p \in Procs :
              /\ pc[p] \in {"aside", "cleanup"} => dest # NoTag
              /\ pc[p] \in Between => dest = NoTag /\ old # NoTag
              /\ pc[p] = "place" => hadDest[p]

IInv == /\ UpdaterTypeOK /\ OnlyReleasesInstalled
        /\ StartedInv /\ OfferInv /\ BytesInv /\ SwapInv

-----------------------------------------------------------------------------
(* A newer release is one by its numbers, or by being no pre-release. *)
LEMMA NewerIsNotOlder ==
  ASSUME NEW t, NEW v \in Tags, IsNewer(t, v)
  PROVE  t \in Tags /\ (t.n > v.n \/ (t.n = v.n /\ v.pre /\ ~t.pre))
  BY DEF IsNewer, Parses

LEMMA InitInv == Init => IInv
<1> SUFFICES ASSUME Init PROVE IInv
  OBVIOUS
<1>1. {[n |-> 1, pre |-> b] : b \in BOOLEAN} \subseteq Tags
  BY UpdaterAssumption DEF Tags
<1>2. dest \in {[n |-> 1, pre |-> FALSE], First} /\ dest \in Tags
  BY <1>1 DEF Init, First
<1>3. UpdaterTypeOK
  BY <1>1, <1>2 DEF Init, UpdaterTypeOK, Between
<1>4. OnlyReleasesInstalled
  BY <1>2 DEF Init, OnlyReleasesInstalled, First
<1>5. dest # NoTag
  BY <1>2, UpdaterAssumption
<1> QED
  BY <1>3, <1>4, <1>5 DEF Init, IInv, StartedInv, OfferInv, BytesInv, SwapInv,
                          Offered, Swapping, Between

-----------------------------------------------------------------------------
(* Asking: until there is a tag to go on with. *)
LEMMA DecideInv ==
  ASSUME IInv, NEW p \in Procs, pc[p] = "fetch", NEW t \in Tags \cup {NoTag},
         Decide(p, t), cache' \in Tags \cup {NoTag}, refreshing' \subseteq Procs,
         UNCHANGED <<world, dest, old, local, archive, temp, hadDest, disturbed>>
  PROVE  IInv'
<1> USE DEF world, local, Decide, IInv
<1>1. pc' \in [Procs -> {"idle", "fetch", "prompt", "download", "install",
                          "copy", "replace", "aside", "cleanup", "ended",
                          "dead"} \cup Between]
  BY DEF UpdaterTypeOK
<1>2. UpdaterTypeOK'
  BY <1>1 DEF UpdaterTypeOK
<1>3. OnlyReleasesInstalled'
  BY DEF OnlyReleasesInstalled
<1>4. StartedInv'
  BY DEF StartedInv, UpdaterTypeOK
<1>5. OfferInv'
  <2>1. /\ pc'[p] \in Offered => IsNewer(t, running[p])
        /\ running[p] \in Tags \cup {Dev} /\ tag'[p] = t
    BY DEF Offered, StartedInv, UpdaterTypeOK
  <2>2. IsNewer(t, running[p]) => t \in Tags
    BY DEF IsNewer, Parses
  <2> QED
    BY <2>1, <2>2 DEF OfferInv, UpdaterTypeOK, IsNewer
<1>6. BytesInv'
  BY DEF BytesInv, UpdaterTypeOK
<1>7. SwapInv'
  BY DEF SwapInv, Swapping, Between, UpdaterTypeOK
<1> QED
  BY <1>2, <1>3, <1>4, <1>5, <1>6, <1>7

LEMMA SavedIsTag ==
  ASSUME cache \in Tags \cup {NoTag}, NEW t \in Tags, NEW c \in Saved(t)
  PROVE  c \in Tags \cup {NoTag}
  BY DEF Saved

(* A new release takes nothing away. *)
LEMMA PublishInv == IInv /\ Publish => IInv'
<1> SUFFICES ASSUME IInv, Publish PROVE IInv'
  OBVIOUS
<1>1. latest' \in Tags /\ released \subseteq released' /\ released' \subseteq Tags
      /\ latest' \in released'
  BY DEF Publish, IInv, UpdaterTypeOK
<1> QED
  BY <1>1 DEF Publish, IInv, UpdaterTypeOK, OnlyReleasesInstalled, StartedInv,
              OfferInv, BytesInv, SwapInv, IsNewer, Between, world, local

(* Steps that only ask or answer change no binary. *)
LEMMA AskingInv ==
  ASSUME IInv, NEW p \in Procs,
         \/ Start(p) \/ Fetched(p) \/ FetchFailed(p) \/ Refreshed(p)
         \/ Answer(p) \/ Crash(p)
  PROVE  IInv'
<1> USE DEF world, local
<1>1. CASE Start(p)
  <2>1. PICK m \in {"start", "check", "update"}, v \in {dest, Dev} \ {NoTag} :
          /\ mode' = [mode EXCEPT ![p] = m]
          /\ running' = [running EXCEPT ![p] = v]
          /\ pc' = [pc EXCEPT ![p] = IF m = "start" /\ v = Dev THEN "ended"
                                     ELSE "fetch"]
    BY <1>1 DEF Start
  <2>2. v \in Tags \cup {Dev}
    <3>1. First \in Tags
      BY UpdaterAssumption DEF First, Tags
    <3>2. released \subseteq Tags
      BY DEF IInv, UpdaterTypeOK
    <3> QED
      BY <3>1, <3>2 DEF IInv, OnlyReleasesInstalled, First
  <2>3. UpdaterTypeOK'
    BY <1>1, <2>1, <2>2 DEF Start, IInv, UpdaterTypeOK
  <2>4. StartedInv' /\ OnlyReleasesInstalled'
    BY <1>1, <2>1, <2>2 DEF Start, IInv, UpdaterTypeOK, StartedInv,
                            OnlyReleasesInstalled
  <2>5. OfferInv' /\ BytesInv' /\ SwapInv'
    BY <1>1, <2>1 DEF Start, IInv, UpdaterTypeOK, OfferInv, BytesInv, SwapInv,
                      Offered, Swapping, Between, IsNewer
  <2> QED
    BY <2>3, <2>4, <2>5 DEF IInv
<1>2. CASE Fetched(p)
  <2>1. cache' \in Tags \cup {NoTag} /\ latest \in Tags /\ refreshing' \subseteq Procs
    BY <1>2, SavedIsTag DEF Fetched, IInv, UpdaterTypeOK
  <2> QED
    BY <1>2, <2>1, DecideInv DEF Fetched
<1>3. CASE FetchFailed(p)
  <2>1. CASE mode[p] = "start"
    <3>1. /\ LoadCached \in Tags \cup {NoTag} /\ refreshing' \subseteq Procs
          /\ cache' \in Tags \cup {NoTag}
      BY <1>3, <2>1 DEF FetchFailed, LoadCached, Parses, IInv, UpdaterTypeOK
    <3> QED
      BY <1>3, <2>1, <3>1, DecideInv DEF FetchFailed
  <2>2. CASE mode[p] # "start"
    BY <1>3, <2>2 DEF FetchFailed, IInv, UpdaterTypeOK, OnlyReleasesInstalled,
              StartedInv, OfferInv, BytesInv, SwapInv, Offered, Swapping, Between,
              IsNewer
  <2> QED
    BY <2>1, <2>2
<1>4. CASE Refreshed(p)
  <2>1. cache' \in Tags \cup {NoTag}
    BY <1>4, SavedIsTag DEF Refreshed, IInv, UpdaterTypeOK
  <2> QED
    BY <1>4, <2>1 DEF Refreshed, IInv, UpdaterTypeOK, OnlyReleasesInstalled,
              StartedInv, OfferInv, BytesInv, SwapInv, IsNewer
<1>5. CASE Answer(p)
  BY <1>5 DEF Answer, IInv, UpdaterTypeOK, OnlyReleasesInstalled,
              StartedInv, OfferInv, BytesInv, SwapInv, Offered, Swapping, Between,
              IsNewer
<1>6. CASE Crash(p)
  BY <1>6 DEF Crash, IInv, UpdaterTypeOK, OnlyReleasesInstalled,
              StartedInv, OfferInv, BytesInv, SwapInv, Offered, Swapping, Between,
              IsNewer
<1> QED
  BY <1>1, <1>2, <1>3, <1>4, <1>5, <1>6

-----------------------------------------------------------------------------
(* From the download to a verified copy beside the installed binary. *)
LEMMA PreparingInv ==
  ASSUME IInv, NEW p \in Procs,
         Download(p) \/ CreateTemp(p) \/ CopyBinary(p)
  PROVE  IInv'
<1> USE DEF world, local, Exit
<1>1. CASE Download(p)
  <2>1. PICK a \in Downloaded(tag[p]), sum \in ChecksumFor(tag[p]) :
          \E b \in Extracted(a), d \in InstallDestination :
            IF a # NoTag /\ Verified(a, sum) /\ b # NoTag /\ d = "found"
            THEN /\ archive' = [archive EXCEPT ![p] = b]
                 /\ pc' = [pc EXCEPT ![p] = "install"]
                 /\ UNCHANGED refreshing
            ELSE UNCHANGED archive /\ Exit(p)
    BY <1>1 DEF Download
  <2>2. Verified(a, sum) => a = tag[p] /\ tag[p] \in released
    BY DEF Verified, ChecksumFor
  <2>3. tag[p] \in Tags
    BY <1>1 DEF Download, IInv, OfferInv, Offered
  <2>4. tag[p] # Torn
    BY <2>3, UpdaterAssumption
  <2>5. \/ /\ archive' = [archive EXCEPT ![p] = tag[p]]
           /\ tag[p] \in released
           /\ pc' = [pc EXCEPT ![p] = "install"]
           /\ UNCHANGED refreshing
        \/ UNCHANGED archive /\ Exit(p)
    BY <2>1, <2>2, <2>4 DEF Extracted
  <2>6. UpdaterTypeOK' /\ OnlyReleasesInstalled'
    BY <1>1, <2>3, <2>5 DEF Download, IInv, UpdaterTypeOK, OnlyReleasesInstalled
  <2>7. StartedInv' /\ OfferInv' /\ BytesInv' /\ SwapInv'
    BY <1>1, <2>5 DEF Download, IInv, UpdaterTypeOK, StartedInv, OfferInv,
                      BytesInv, SwapInv, Offered, Swapping, Between, IsNewer
  <2> QED
    BY <2>6, <2>7 DEF IInv
<1>2. CASE CreateTemp(p)
  BY <1>2 DEF CreateTemp, IInv, UpdaterTypeOK, OnlyReleasesInstalled, StartedInv,
              OfferInv, BytesInv, SwapInv, Offered, Swapping, Between, IsNewer
<1>3. CASE CopyBinary(p)
  BY <1>3 DEF CopyBinary, IInv, UpdaterTypeOK, OnlyReleasesInstalled, StartedInv,
              OfferInv, BytesInv, SwapInv, Offered, Swapping, Between, IsNewer
<1> QED
  BY <1>1, <1>2, <1>3

(* Who is about to replace the binary holds a whole release. *)
LEMMA ReplacesByRelease ==
  ASSUME IInv, NEW p \in Procs, pc[p] \in {"replace", "aside", "place"}
  PROVE  /\ temp[p] = tag[p] /\ temp[p] \in released /\ temp[p] # NoTag
         /\ temp[p] \in Tags
<1>1. temp[p] = tag[p] /\ tag[p] \in released
  BY DEF IInv, BytesInv
<1>2. tag[p] \in Tags
  BY <1>1 DEF IInv, UpdaterTypeOK
<1> QED
  BY <1>1, <1>2, UpdaterAssumption

(* Putting it in place. *)
LEMMA ReplacingInv ==
  ASSUME IInv, NEW p \in Procs,
         \/ ReplaceUnix(p) \/ RemoveBackup(p) \/ MoveAside(p) \/ Place(p)
         \/ RollBack(p) \/ CleanUp(p)
  PROVE  IInv'
<1> USE DEF world, local, Exit
<1>1. CASE ReplaceUnix(p)
  <2>1. temp[p] \in released /\ temp[p] # NoTag /\ temp[p] \in Tags
    BY <1>1, ReplacesByRelease DEF ReplaceUnix
  <2>2. UpdaterTypeOK' /\ OnlyReleasesInstalled'
    BY <1>1, <2>1 DEF ReplaceUnix, IInv, UpdaterTypeOK, OnlyReleasesInstalled
  <2>3. StartedInv' /\ OfferInv' /\ BytesInv'
    BY <1>1 DEF ReplaceUnix, IInv, UpdaterTypeOK, StartedInv, OfferInv, BytesInv,
                Offered, IsNewer
  <2>4. SwapInv'
    BY <1>1, <2>1 DEF ReplaceUnix, IInv, UpdaterTypeOK, SwapInv, Swapping, Between
  <2> QED
    BY <2>2, <2>3, <2>4 DEF IInv
<1>2. CASE RemoveBackup(p)
  <2>1. UpdaterTypeOK' /\ OnlyReleasesInstalled'
    BY <1>2 DEF RemoveBackup, IInv, UpdaterTypeOK, OnlyReleasesInstalled
  <2>2. StartedInv' /\ OfferInv' /\ BytesInv'
    BY <1>2 DEF RemoveBackup, IInv, UpdaterTypeOK, StartedInv, OfferInv, BytesInv,
                Offered, IsNewer
  <2>3. SwapInv'
    BY <1>2 DEF RemoveBackup, IInv, UpdaterTypeOK, SwapInv, Swapping, Between
  <2> QED
    BY <2>1, <2>2, <2>3 DEF IInv
<1>3. CASE MoveAside(p)
  <2>1. UpdaterTypeOK' /\ OnlyReleasesInstalled'
    <3>1. dest' \in {dest, NoTag} /\ old' \in {old, dest}
      BY <1>3 DEF MoveAside
    <3>2. OnlyReleasesInstalled'
      BY <1>3, <3>1 DEF MoveAside, IInv, OnlyReleasesInstalled
    <3>3. pc' \in [Procs -> {"idle", "fetch", "prompt", "download", "install",
                             "copy", "replace", "aside", "cleanup", "ended",
                             "dead"} \cup Between]
      BY <1>3 DEF MoveAside, IInv, UpdaterTypeOK, Between
    <3>4. /\ temp' \in [Procs -> Tags \cup {NoTag, Torn}]
          /\ hadDest' \in [Procs -> BOOLEAN] /\ refreshing' \subseteq Procs
      BY <1>3 DEF MoveAside, IInv, UpdaterTypeOK
    <3>5. UNCHANGED <<world, cache, local, tag, archive, disturbed>>
      BY <1>3 DEF MoveAside
    <3>6. UpdaterTypeOK'
      BY <3>1, <3>3, <3>4, <3>5 DEF IInv, UpdaterTypeOK
    <3> QED
      BY <3>2, <3>6
  <2>2. StartedInv' /\ OfferInv' /\ BytesInv'
    BY <1>3 DEF MoveAside, IInv, UpdaterTypeOK, StartedInv, OfferInv, BytesInv,
                Offered, IsNewer
  <2>3. SwapInv'
    BY <1>3 DEF MoveAside, IInv, UpdaterTypeOK, SwapInv, Swapping, Between
  <2> QED
    BY <2>1, <2>2, <2>3 DEF IInv
<1>4. CASE Place(p)
  <2>1. temp[p] \in released /\ temp[p] # NoTag /\ temp[p] \in Tags
    BY <1>4, ReplacesByRelease DEF Place
  <2>2. UpdaterTypeOK' /\ OnlyReleasesInstalled'
    BY <1>4, <2>1 DEF Place, IInv, UpdaterTypeOK, OnlyReleasesInstalled, Between
  <2>3. StartedInv' /\ OfferInv' /\ BytesInv'
    BY <1>4 DEF Place, IInv, UpdaterTypeOK, StartedInv, OfferInv, BytesInv,
                Offered, IsNewer
  <2>4. SwapInv'
    BY <1>4, <2>1 DEF Place, IInv, UpdaterTypeOK, SwapInv, Swapping, Between
  <2> QED
    BY <2>2, <2>3, <2>4 DEF IInv
<1>5. CASE RollBack(p)
  <2>1. UpdaterTypeOK' /\ OnlyReleasesInstalled'
    BY <1>5 DEF RollBack, IInv, UpdaterTypeOK, OnlyReleasesInstalled
  <2>2. StartedInv' /\ OfferInv' /\ BytesInv'
    BY <1>5 DEF RollBack, IInv, UpdaterTypeOK, StartedInv, OfferInv, BytesInv,
                Offered, IsNewer
  <2>3. SwapInv'
    BY <1>5 DEF RollBack, IInv, UpdaterTypeOK, SwapInv, Swapping, Between
  <2> QED
    BY <2>1, <2>2, <2>3 DEF IInv
<1>6. CASE CleanUp(p)
  <2>1. UpdaterTypeOK' /\ OnlyReleasesInstalled'
    BY <1>6 DEF CleanUp, IInv, UpdaterTypeOK, OnlyReleasesInstalled
  <2>2. StartedInv' /\ OfferInv' /\ BytesInv'
    BY <1>6 DEF CleanUp, IInv, UpdaterTypeOK, StartedInv, OfferInv, BytesInv,
                Offered, IsNewer
  <2>3. SwapInv'
    BY <1>6 DEF CleanUp, IInv, UpdaterTypeOK, SwapInv, Swapping, Between
  <2> QED
    BY <2>1, <2>2, <2>3 DEF IInv
<1> QED
  BY <1>1, <1>2, <1>3, <1>4, <1>5, <1>6

LEMMA Invariance == IInv /\ [Next]_vars => IInv'
<1> SUFFICES ASSUME IInv, [Next]_vars PROVE IInv'
  OBVIOUS
<1>1. CASE UNCHANGED vars
  BY <1>1 DEF vars, world, local, IInv, UpdaterTypeOK, OnlyReleasesInstalled,
              StartedInv, OfferInv, BytesInv, SwapInv, IsNewer
<1>2. CASE Next
  <2>1. CASE Publish
    BY <2>1, PublishInv
  <2>2. CASE \E p \in Procs :
               \/ Start(p) \/ Fetched(p) \/ FetchFailed(p) \/ Refreshed(p)
               \/ Answer(p) \/ Crash(p)
    BY <2>2, AskingInv
  <2>3. CASE \E p \in Procs : Download(p) \/ CreateTemp(p) \/ CopyBinary(p)
    BY <2>3, PreparingInv
  <2>4. CASE \E p \in Procs :
               \/ ReplaceUnix(p) \/ RemoveBackup(p) \/ MoveAside(p)
               \/ Place(p) \/ RollBack(p) \/ CleanUp(p)
    BY <2>4, ReplacingInv
  <2> QED
    BY <1>2, <2>1, <2>2, <2>3, <2>4 DEF Next
<1> QED
  BY <1>1, <1>2

LEMMA AlwaysIInv == Spec => []IInv
  BY InitInv, Invariance, PTL DEF Spec

-----------------------------------------------------------------------------
(* Whatever fails and whenever a process dies, a program is left: at the    *)
(* install path on Unix, there or beside it on Windows unless one update    *)
(* runs into another or finds the path empty.                               *)
THEOREM BinarySurvivesHolds == Spec => []BinarySurvives
<1>1. IInv => BinarySurvives
  BY DEF IInv, UpdaterTypeOK, SwapInv, BinarySurvives
<1> QED
  BY <1>1, AlwaysIInv, PTL

(* Nothing but a whole, published release gets to the install path. *)
THEOREM OnlyReleasesInstalledHolds == Spec => []OnlyReleasesInstalled
<1>1. IInv => OnlyReleasesInstalled
  BY DEF IInv
<1> QED
  BY <1>1, AlwaysIInv, PTL

(* A released program never replaces what is installed by an older one. *)
THEOREM NeverOlderThanItselfHolds == Spec => NeverOlderThanItself
<1> DEFINE Newer(p) == /\ dest' = temp[p]
                       /\ \/ running[p] = Dev
                          \/ dest'.n > running[p].n
                          \/ dest'.n = running[p].n /\ running[p].pre /\ ~dest'.pre
<1>1. ASSUME IInv, Next, dest' \notin {dest, NoTag, old}
      PROVE  \E p \in Procs : Newer(p)
  <2>1. PICK p \in Procs : ReplaceUnix(p) \/ Place(p)
    BY <1>1 DEF Next, Publish, Start, Fetched, FetchFailed, Refreshed, Answer,
                Download, CreateTemp, CopyBinary, RemoveBackup, MoveAside,
                RollBack, CleanUp, Crash
  <2>2. dest' = temp[p] /\ pc[p] \in {"replace", "place"}
    BY <1>1, <2>1 DEF ReplaceUnix, Place
  <2>3. temp[p] = tag[p] /\ IsNewer(tag[p], running[p])
        /\ running[p] \in Tags \cup {Dev}
    BY <1>1, <2>2, ReplacesByRelease DEF IInv, OfferInv, Offered
  <2>4. Newer(p)
    BY <2>2, <2>3, NewerIsNotOlder
  <2> QED
    BY <2>4
<1>2. IInv /\ [Next]_vars =>
        [dest' \notin {dest, NoTag, old} => \E p \in Procs : Newer(p)]_vars
  BY <1>1 DEF vars
<1> QED
  BY <1>2, AlwaysIInv, PTL DEF Spec, NeverOlderThanItself
=============================================================================
