------------------------------ MODULE Updater ------------------------------
(***************************************************************************)
(* The self-update of showagent (src/cmd/showagent/update.go,               *)
(* replace_unix.go, replace_windows.go): ask GitHub for the latest release, *)
(* fall back on a tag an earlier start saved, download and verify the       *)
(* archive and put the new binary where the old one is.  Several showagent  *)
(* processes share the cache file and the install directory, and any of     *)
(* them may die at any point.                                               *)
(***************************************************************************)
EXTENDS Naturals

CONSTANTS
    Procs,      \* showagent processes, each started once
    MaxVersion, \* bound: versions published
    NoTag,      \* no release: an empty cache, a missing file
    Dev,        \* the version of a build that carries no release number
    Torn        \* bytes that are not a whole release

Tags == [n : 1..MaxVersion, pre : BOOLEAN]

ASSUME UpdaterAssumption ==
    /\ MaxVersion \in Nat \ {0}
    /\ {NoTag, Dev, Torn} \cap Tags = {}
    /\ NoTag # Dev /\ NoTag # Torn /\ Dev # Torn

VARIABLES
    os,         \* "unix" or "windows"
    latest,     \* the release GitHub calls the latest
    released,   \* every release published
    cache,      \* the file latest-release
    dest,       \* the installed binary
    old,        \* its ".old" copy (Windows)
    pc, mode, running, tag, archive, temp, hadDest,
    refreshing, \* processes whose background check is still under way
    disturbed   \* history: a replacement began during another or at an empty path

world == <<os, latest, released>>
local == <<mode, running>>
vars == <<world, cache, dest, old, pc, local, tag, archive, temp, hadDest,
          refreshing, disturbed>>

(* Between the two renames of replaceInstalledFile on Windows. *)
Between == {"place", "rollback"}

UpdaterTypeOK ==
    /\ os \in {"unix", "windows"} /\ latest \in Tags
    /\ released \subseteq Tags /\ latest \in released
    /\ cache \in Tags \cup {NoTag}
    /\ {dest, old} \subseteq Tags \cup {NoTag, Torn}
    /\ pc \in [Procs -> {"idle", "fetch", "prompt", "download", "install",
                          "copy", "replace", "aside", "cleanup", "ended",
                          "dead"} \cup Between]
    /\ mode \in [Procs -> {"none", "start", "check", "update"}]
    /\ running \in [Procs -> Tags \cup {NoTag, Dev}]
    /\ tag \in [Procs -> Tags \cup {NoTag}]
    /\ archive \in [Procs -> Tags \cup {NoTag, Torn}]
    /\ temp \in [Procs -> Tags \cup {NoTag, Torn}]
    /\ hadDest \in [Procs -> BOOLEAN]
    /\ refreshing \subseteq Procs /\ disturbed \in BOOLEAN

-----------------------------------------------------------------------------
(* Versions.  The three numbers are one, ordered as they are; a pre-release *)
(* suffix is a flag; anything else does not parse.                          *)
Parses(v) == v \in Tags

(* Wrong on purpose: any tag but the current one. *)
AnyOtherTag(candidate, current) == Parses(candidate) /\ candidate # current

(* A release with a pre-release suffix never beats the same number. *)
IsNewer(candidate, current) ==
    /\ Parses(candidate)
    /\ \/ ~Parses(current)
       \/ candidate.n > current.n
       \/ candidate.n = current.n /\ current.pre /\ ~candidate.pre

(* Only a plain vX.Y.Z is taken from the cache. *)
LoadCached == IF Parses(cache) /\ ~cache.pre THEN cache ELSE NoTag

(* os.WriteFile empties the file and then fills it, best effort: a failure  *)
(* leaves the old tag, nothing, or a tag that lost its last digits.         *)
Saved(t) == {cache, t, NoTag} \cup {c \in Tags : c.n < t.n /\ c.pre = FALSE}

Init ==
    /\ os \in {"unix", "windows"}
    /\ latest = [n |-> 1, pre |-> FALSE] /\ released = {latest}
    /\ cache = NoTag /\ old = NoTag
    /\ dest \in {[n |-> 1, pre |-> b] : b \in BOOLEAN}
    /\ pc = [p \in Procs |-> "idle"] /\ mode = [p \in Procs |-> "none"]
    /\ running = [p \in Procs |-> NoTag] /\ tag = [p \in Procs |-> NoTag]
    /\ archive = [p \in Procs |-> NoTag] /\ temp = [p \in Procs |-> NoTag]
    /\ hadDest = [p \in Procs |-> FALSE]
    /\ refreshing = {} /\ disturbed = FALSE

(* The project publishes another release, in any order of tags. *)
Publish ==
    /\ \E t \in Tags \ released :
         /\ t.n >= latest.n
         /\ latest' = t /\ released' = released \cup {t}
    /\ UNCHANGED <<os, cache, dest, old, pc, local, tag, archive, temp,
                   hadDest, refreshing, disturbed>>

-----------------------------------------------------------------------------
(* runUpdate ("update", "check") and the start of the picker ("start").  A   *)
(* process runs the installed binary or a build from somewhere else; a       *)
(* build without a release number does not ask at its start.                *)
Start(p) ==
    /\ pc[p] = "idle"
    /\ \E m \in {"start", "check", "update"}, v \in {dest, Dev} \ {NoTag} :
         /\ mode' = [mode EXCEPT ![p] = m]
         /\ running' = [running EXCEPT ![p] = v]
         /\ pc' = [pc EXCEPT ![p] = IF m = "start" /\ v = Dev THEN "ended"
                                    ELSE "fetch"]
    /\ UNCHANGED <<world, cache, dest, old, tag, archive, temp, hadDest,
                   refreshing, disturbed>>

(* What follows the tag that was found: nothing, a report, a prompt or the  *)
(* download.                                                                *)
Decide(p, t) ==
    /\ tag' = [tag EXCEPT ![p] = t]
    /\ pc' = [pc EXCEPT ![p] =
                IF ~IsNewer(t, running[p]) \/ mode[p] = "check" THEN "ended"
                ELSE IF mode[p] = "start" THEN "prompt" ELSE "download"]

Fetched(p) ==
    /\ pc[p] = "fetch"
    /\ IF mode[p] = "start" THEN cache' \in Saved(latest)
       ELSE UNCHANGED cache
    /\ Decide(p, latest)
    /\ UNCHANGED <<world, dest, old, local, archive, temp, hadDest,
                   refreshing, disturbed>>

(* The 1.2 seconds of a start pass: the saved tag is offered while the      *)
(* check goes on in the background.  "showagent update" gives up.           *)
FetchFailed(p) ==
    /\ pc[p] = "fetch"
    /\ \/ /\ mode[p] = "start"
          /\ Decide(p, LoadCached)
          /\ refreshing' = refreshing \cup {p}
       \/ /\ mode[p] # "start"
          /\ pc' = [pc EXCEPT ![p] = "ended"]
          /\ UNCHANGED <<tag, refreshing>>
    /\ UNCHANGED <<world, cache, dest, old, local, archive, temp, hadDest,
                   disturbed>>

(* The background check of a process that is still there answers. *)
Refreshed(p) ==
    /\ p \in refreshing
    /\ cache' \in Saved(latest) \cup {cache}
    /\ refreshing' = refreshing \ {p}
    /\ UNCHANGED <<world, dest, old, pc, local, tag, archive, temp, hadDest,
                   disturbed>>

(* The user answers y, or anything else. *)
Answer(p) ==
    /\ pc[p] = "prompt"
    /\ \E next \in {"download", "ended"} : pc' = [pc EXCEPT ![p] = next]
    /\ UNCHANGED <<world, cache, dest, old, local, tag, archive, temp,
                   hadDest, refreshing, disturbed>>

-----------------------------------------------------------------------------
(* installRelease.  A request for a release that was never published, a     *)
(* failing transfer and one over its limit all bring nothing.               *)
Downloaded(t) == {NoTag} \cup (IF t \in released THEN {t, Torn} ELSE {})

(* The entry of SHA256SUMS for the asset, if the file arrives and has one.  *)
ChecksumFor(t) == {NoTag} \cup (IF t \in released THEN {t} ELSE {})

(* Wrong on purpose: an archive without an entry is taken as it is. *)
VerifiedIfListed(a, sum) == sum = NoTag \/ a = sum

Verified(a, sum) == sum # NoTag /\ a = sum

(* Extracting the binary gives the archive's binary or an error, when the   *)
(* archive has none, is damaged or is over the limit.                       *)
Extracted(a) == IF a = Torn THEN {NoTag, Torn} ELSE {NoTag, a}

(* A copy that a package manager owns is refused; there may be no home.     *)
InstallDestination == {"found", "managed", "noHome"}

(* The end of a call: its process exits, and its background check with it.  *)
Exit(p) ==
    /\ pc' = [pc EXCEPT ![p] = "ended"]
    /\ refreshing' = refreshing \ {p}

Download(p) ==
    /\ pc[p] = "download"
    /\ \E a \in Downloaded(tag[p]), sum \in ChecksumFor(tag[p]) :
         \E b \in Extracted(a), d \in InstallDestination :
           IF a # NoTag /\ Verified(a, sum) /\ b # NoTag /\ d = "found"
           THEN /\ archive' = [archive EXCEPT ![p] = b]
                /\ pc' = [pc EXCEPT ![p] = "install"]
                /\ UNCHANGED refreshing
           ELSE UNCHANGED archive /\ Exit(p)
    /\ UNCHANGED <<world, cache, dest, old, local, tag, temp, hadDest,
                   disturbed>>

(* installBinary: a temporary file beside the destination ... *)
CreateTemp(p) ==
    /\ pc[p] = "install"
    /\ \/ /\ temp' = [temp EXCEPT ![p] = Torn]
          /\ pc' = [pc EXCEPT ![p] = "copy"]
          /\ UNCHANGED refreshing
       \/ UNCHANGED temp /\ Exit(p)
    /\ UNCHANGED <<world, cache, dest, old, local, tag, archive, hadDest,
                   disturbed>>

(* Wrong on purpose: the result of the copy is not looked at. *)
CopyUnchecked(p) ==
    /\ pc[p] = "copy"
    /\ \E bytes \in {archive[p], Torn} : temp' = [temp EXCEPT ![p] = bytes]
    /\ pc' = [pc EXCEPT ![p] = "replace"]
    /\ UNCHANGED <<world, cache, dest, old, local, tag, archive, hadDest,
                   refreshing, disturbed>>

(* ... is filled, made executable, synced and closed ...  *)
CopyBinary(p) ==
    /\ pc[p] = "copy"
    /\ \/ /\ temp' = [temp EXCEPT ![p] = archive[p]]
          /\ pc' = [pc EXCEPT ![p] = "replace"]
          /\ UNCHANGED refreshing
       \/ temp' = [temp EXCEPT ![p] = NoTag] /\ Exit(p)
    /\ UNCHANGED <<world, cache, dest, old, local, tag, archive, hadDest,
                   disturbed>>

(* ... and on Unix renamed over the destination in one step. *)
ReplaceUnix(p) ==
    /\ pc[p] = "replace" /\ os = "unix"
    /\ dest' \in {dest, temp[p]}
    /\ temp' = [temp EXCEPT ![p] = NoTag]
    /\ Exit(p)
    /\ UNCHANGED <<world, cache, old, local, tag, archive, hadDest,
                   disturbed>>

-----------------------------------------------------------------------------
(* On Windows: remove an earlier backup, if it is not in use, ... *)
RemoveBackup(p) ==
    /\ pc[p] = "replace" /\ os = "windows"
    /\ old' \in {old, NoTag}
    /\ pc' = [pc EXCEPT ![p] = "aside"]
    /\ disturbed' = \/ disturbed
                     \/ dest = NoTag
                     \/ \E q \in Procs : pc[q] \in Between \cup {"aside", "cleanup"}
    /\ UNCHANGED <<world, cache, dest, local, tag, archive, temp, hadDest,
                   refreshing>>

(* Wrong on purpose: the old binary is removed to make room.  *)
RemoveFirst(p) ==
    /\ pc[p] = "aside"
    /\ dest' = NoTag
    /\ pc' = [pc EXCEPT ![p] = "place"]
    /\ UNCHANGED <<world, cache, old, local, tag, archive, temp, hadDest,
                   refreshing, disturbed>>

(* ... move the installed binary aside, if there is one, ... *)
MoveAside(p) ==
    /\ pc[p] = "aside"
    /\ \/ /\ dest # NoTag
          /\ old' = dest /\ dest' = NoTag
          /\ hadDest' = [hadDest EXCEPT ![p] = TRUE]
          /\ pc' = [pc EXCEPT ![p] = "place"]
          /\ UNCHANGED <<temp, refreshing>>
       \/ /\ dest = NoTag
          /\ pc' = [pc EXCEPT ![p] = "place"]
          /\ UNCHANGED <<dest, old, hadDest, temp, refreshing>>
       \/ /\ dest # NoTag
          /\ temp' = [temp EXCEPT ![p] = NoTag]
          /\ Exit(p)
          /\ UNCHANGED <<dest, old, hadDest>>
    /\ UNCHANGED <<world, cache, local, tag, archive, disturbed>>

(* ... put the new one in its place ... *)
Place(p) ==
    /\ pc[p] = "place"
    /\ \/ /\ dest' = temp[p]
          /\ temp' = [temp EXCEPT ![p] = NoTag]
          /\ IF hadDest[p]
             THEN pc' = [pc EXCEPT ![p] = "cleanup"] /\ UNCHANGED refreshing
             ELSE Exit(p)
       \/ /\ IF hadDest[p]
             THEN /\ pc' = [pc EXCEPT ![p] = "rollback"]
                  /\ UNCHANGED <<temp, refreshing>>
             ELSE temp' = [temp EXCEPT ![p] = NoTag] /\ Exit(p)
          /\ UNCHANGED dest
    /\ UNCHANGED <<world, cache, old, local, tag, archive, hadDest,
                   disturbed>>

(* ... or the old one back, if that works: its error is not looked at, ... *)
RollBack(p) ==
    /\ pc[p] = "rollback"
    /\ \/ old # NoTag /\ dest' = old /\ old' = NoTag
       \/ UNCHANGED <<dest, old>>
    /\ temp' = [temp EXCEPT ![p] = NoTag]
    /\ Exit(p)
    /\ UNCHANGED <<world, cache, local, tag, archive, hadDest, disturbed>>

(* ... and remove the backup, unless it is the running program. *)
CleanUp(p) ==
    /\ pc[p] = "cleanup"
    /\ old' \in {old, NoTag}
    /\ Exit(p)
    /\ UNCHANGED <<world, cache, dest, local, tag, archive, temp, hadDest,
                   disturbed>>

(* A process dies; what it left in the install directory stays. *)
Crash(p) ==
    /\ pc[p] \notin {"idle", "ended", "dead"}
    /\ pc' = [pc EXCEPT ![p] = "dead"]
    /\ refreshing' = refreshing \ {p}
    /\ UNCHANGED <<world, cache, dest, old, local, tag, archive, temp,
                   hadDest, disturbed>>

Next ==
    \/ Publish
    \/ \E p \in Procs :
         \/ Start(p) \/ Fetched(p) \/ FetchFailed(p) \/ Refreshed(p)
         \/ Answer(p) \/ Download(p) \/ CreateTemp(p) \/ CopyBinary(p)
         \/ ReplaceUnix(p) \/ RemoveBackup(p) \/ MoveAside(p) \/ Place(p)
         \/ RollBack(p) \/ CleanUp(p) \/ Crash(p)

Spec == Init /\ [][Next]_vars

-----------------------------------------------------------------------------
(* An update never leaves the user without a program.  On Unix the install  *)
(* path always holds one; on Windows the path or its ".old" copy does,      *)
(* whatever fails and whenever the process dies, until an update begins     *)
(* while another one replaces the binary or when the path is empty.         *)
BinarySurvives ==
    \/ dest # NoTag
    \/ os = "windows" /\ (old # NoTag \/ disturbed)

(* Only a whole, published release is ever put at the install path, and the *)
(* ".old" copy is one too: no mix of a damaged download, a missing checksum *)
(* or a full disk leaves another file there.                                *)
OnlyReleasesInstalled ==
    {dest, old} \subseteq released \cup {[n |-> 1, pre |-> TRUE], NoTag}

(* A process of an installed release never replaces what is installed by a  *)
(* release older than itself, or by a pre-release of its own number, even   *)
(* from a tag that was saved long ago.  (It may replace a newer release     *)
(* that another process put there after it had asked.)                      *)
NeverOlderThanItself ==
    [][dest' \notin {dest, NoTag, old} =>
         \E p \in Procs :
            /\ dest' = temp[p]
            /\ \/ running[p] = Dev
               \/ dest'.n > running[p].n
               \/ dest'.n = running[p].n /\ running[p].pre /\ ~dest'.pre]_vars
=============================================================================
