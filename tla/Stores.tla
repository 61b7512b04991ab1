------------------------------- MODULE Stores -------------------------------
(***************************************************************************)
(* What showagent does in the session stores of the agents.  While one     *)
(* process lists the sessions (Discovery), others delete and convert those *)
(* they have listed before, the agents go on saving their own sessions,    *)
(* Claude keeps its index, a process dies at any step, and the machine may *)
(* lose its power.                                                         *)
(*                                                                         *)
(* A session is its main file; a JCode session also has a backup and a     *)
(* journal; one of OpenCode is a record of its database.  A conversion     *)
(* writes a temporary file, syncs it and renames it; one to OpenCode writes *)
(* an export file and has `opencode import` store it.                      *)
(***************************************************************************)
EXTENDS Discovery

CONSTANTS
    Sessions,   \* ids, those that conversions will take included
    StoreOf,    \* "codex", "opencode", "claude", "pi" or "jcode"
    New,        \* the ids that conversions take (newUUID)
    Native,     \* sessions whose agents may save them
    HandoffOnly,\* sessions under multica-sessions
    Actors,     \* processes that run one command each
    MaxSaves,   \* saves by agents
    MaxStarted  \* processes started, that of the listing included

VARIABLES
    index,      \* the sessions in Claude's sessions-index.json
    pc,         \* what an actor does next
    row,        \* the session that it deletes, or that its conversion makes
    original,   \* the index as it read it
    removed,    \* JCode: a file has been removed
    failed,     \* a step has failed
    known,      \* sessions that some process has listed
    saves,      \* saves by agents so far
    saving,     \* sessions in the middle of a save
    \* for the properties
    erased,     \* sessions reported deleted and not saved since
    touched,    \* actors whose session was saved since they began to delete it
    late,       \* index entries made between a comparison and its rename
    lost        \* index entries of others that a rename has taken away

acting == <<pc, row, original, removed, failed>>
agents == <<saves, saving>>
history == <<erased, touched, late, lost>>
svars == <<dvars, index, acting, known, agents, history>>

Main(s) == <<s, "main">>
Backup(s) == <<s, "bak">>
Journal(s) == <<s, "journal">>
Temp(a) == <<a, "temp">>
Parts(s) == IF StoreOf[s] = "jcode" THEN {Main(s), Backup(s), Journal(s)}
                                    ELSE {Main(s)}

ASSUME StoresAssumption ==
    /\ "no row" \notin Sessions
    /\ StoreOf \in [Sessions -> {"codex", "opencode", "claude", "pi", "jcode"}]
    /\ New \cup Native \cup HandoffOnly \subseteq Sessions
    /\ Native \cap New = {}
    /\ Files = (UNION {Parts(s) : s \in Sessions}) \cup {Temp(a) : a \in Actors}
    /\ Named = {Main(s) : s \in Sessions}
    /\ MaxSaves \in Nat /\ MaxStarted \in Nat

NoRow == "no row"

\* Ends of a command.
Ends == {"deleted", "converted", "refused", "dead"}
Over == Ends \cup {"idle"}

Started == Cardinality({a \in Actors : pc[a] # "idle"})
             + (IF scan = "idle" THEN 0 ELSE 1)

-----------------------------------------------------------------------------
Init ==
    /\ DiscoveryInit
    /\ \E absent \in SUBSET (Native \cap {s \in Sessions : StoreOf[s] = "claude"}) :
         LET there == Sessions \ (New \cup absent)
         IN  /\ file = [f \in Files |->
                          IF \E s \in there : f \in Parts(s) THEN "synced"
                                                             ELSE None]
             /\ known = there
             /\ index = {s \in there : StoreOf[s] = "claude"}
    /\ pc = [a \in Actors |-> "idle"]
    /\ row = [a \in Actors |-> NoRow]
    /\ original = [a \in Actors |-> {}]
    /\ removed = [a \in Actors |-> FALSE]
    /\ failed = [a \in Actors |-> FALSE]
    /\ saves = 0 /\ saving = {}
    /\ erased = {} /\ touched = {} /\ late = {} /\ lost = {}

Goto(a, label) == pc' = [pc EXCEPT ![a] = label]
Put(f, state) == file' = [file EXCEPT ![f] = state] /\ Watch

\* Of the index only the comparison and the rename have a use.
Forget(a) == original' = [original EXCEPT ![a] = {}]

\* Entries that appear in the index after another process compared it.
MadeLate(mine, entries) ==
    late' = IF \E b \in Actors \ mine : pc[b] = "rename" THEN late \cup entries
                                                         ELSE late

\* How a deletion ends.
Report(a) ==
    /\ Goto(a, "deleted")
    /\ erased' = IF a \in touched THEN erased ELSE erased \cup {row[a]}

-----------------------------------------------------------------------------
(* Deleting.                                                               *)

FirstStep(s) == CASE StoreOf[s] = "jcode" -> "backup"
                  [] StoreOf[s] = "claude" -> "readIndex"
                  [] StoreOf[s] \in {"codex", "opencode"} -> "cli"
                  [] OTHER -> "unlink"

\* Delete: ValidateNativeActions, then the provider's own.
Delete(a, s) ==
    /\ pc[a] = "idle" /\ Started < MaxStarted /\ s \in known
    /\ Goto(a, IF s \in HandoffOnly THEN "refused" ELSE FirstStep(s))
    /\ row' = [row EXCEPT ![a] = s]
    /\ UNCHANGED <<dvars, index, original, removed, failed, known, agents,
                   history>>

\* os.Remove of one of JCode's files: done, not there, or an error.
RemovePart(a, label, f, next) ==
    /\ pc[a] = label /\ Goto(a, next)
    /\ \/ /\ file[f] # None /\ Put(f, None)
          /\ removed' = [removed EXCEPT ![a] = TRUE]
          /\ UNCHANGED failed
       \/ /\ file[f] = None
          /\ UNCHANGED <<file, watched, removed, failed>>
       \/ /\ file[f] # None
          /\ failed' = [failed EXCEPT ![a] = TRUE]
          /\ UNCHANGED <<file, watched, removed>>
    /\ UNCHANGED <<scans, index, row, original, known, agents, history>>

RemoveBackup(a) == RemovePart(a, "backup", Backup(row[a]), "journal")
RemoveJournal(a) == RemovePart(a, "journal", Journal(row[a]), "main")
RemoveMain(a) == RemovePart(a, "main", Main(row[a]), "report")

\* Wrong on purpose: deleted as soon as one of the files is.
SomeRemoved(a) == removed[a]

AllRemoved(a) == removed[a] /\ ~failed[a]

ReportJCode(a) ==
    /\ pc[a] = "report"
    /\ IF AllRemoved(a) THEN Report(a)
                        ELSE Goto(a, "refused") /\ UNCHANGED erased
    /\ removed' = [removed EXCEPT ![a] = FALSE]
    /\ failed' = [failed EXCEPT ![a] = FALSE]
    /\ UNCHANGED <<dvars, index, row, original, known, agents, touched, late,
                   lost>>

\* removeClaudeIndexEntry: an index that is missing, unreadable or without
\* the session is left alone.
ReadIndex(a) ==
    /\ pc[a] = "readIndex"
    /\ \/ /\ row[a] \in index /\ Goto(a, "compare")
          /\ original' = [original EXCEPT ![a] = index]
       \/ Goto(a, "unlink") /\ UNCHANGED original
    /\ UNCHANGED <<dvars, index, row, removed, failed, known, agents, history>>

\* Wrong on purpose: the index is not read again.
StillOriginal(a) == TRUE

Unchanged(a) == index = original[a]

CompareIndex(a) ==
    /\ pc[a] = "compare"
    /\ IF Unchanged(a) THEN Goto(a, "rename") /\ UNCHANGED original
                       ELSE Goto(a, "unlink") /\ Forget(a)
    /\ UNCHANGED <<dvars, index, row, removed, failed, known, agents,
                   history>>

\* writeFileAtomic of the index; on an error the old index stays.
RenameIndex(a) ==
    /\ pc[a] = "rename" /\ Goto(a, "unlink") /\ Forget(a)
    /\ \/ /\ index' = original[a] \ {row[a]}
          /\ lost' = lost \cup (index \ (index' \cup {row[a]}))
          /\ MadeLate({a}, index' \ index)
       \/ UNCHANGED <<index, lost, late>>
    /\ UNCHANGED <<dvars, row, removed, failed, known, agents, erased, touched>>

\* os.Remove(row.File)
Unlink(a) ==
    /\ pc[a] = "unlink"
    /\ \/ /\ file[Main(row[a])] # None
          /\ Put(Main(row[a]), None) /\ Report(a)
       \/ Goto(a, "refused") /\ UNCHANGED <<file, watched, erased>>
    /\ UNCHANGED <<scans, index, row, original, removed, failed, known, agents,
                   touched, late, lost>>

\* `codex delete --force`, with 30 seconds: it may have deleted the session
\* and still fail, or be killed before it has.
CliDelete(a) ==
    /\ pc[a] = "cli"
    /\ \/ Put(Main(row[a]), None) /\ Report(a)
       \/ Put(Main(row[a]), None) /\ Goto(a, "refused") /\ UNCHANGED erased
       \/ Goto(a, "refused") /\ UNCHANGED <<file, watched, erased>>
    /\ UNCHANGED <<scans, index, row, original, removed, failed, known, agents,
                   touched, late, lost>>

-----------------------------------------------------------------------------
(* Converting: Convert and writeFileAtomic.                                *)

Taken == {row[a] : a \in Actors}

\* Sessions that showagent writes itself.
Filed(s) == StoreOf[s] # "opencode"

\* The transcript is read first: it must be there and hold a turn.  Then a
\* new id.
Convert(a, s, new) ==
    /\ pc[a] = "idle" /\ Started < MaxStarted /\ s \in known /\ new \in New \ Taken
    /\ \/ /\ Parses(Main(s))
          /\ Goto(a, IF Filed(new) THEN "create" ELSE "export")
          /\ row' = [row EXCEPT ![a] = new]
       \/ ~SureToParse(Main(s)) /\ Goto(a, "refused") /\ UNCHANGED row
    /\ UNCHANGED <<dvars, index, original, removed, failed, known, agents,
                   history>>

\* A step has failed: the temporary file is removed, unless that fails too.
GiveUp(a) ==
    /\ Goto(a, "refused")
    /\ \E left \in {None, file[Temp(a)]} : Put(Temp(a), left)

WriterStep(a, label, state, next) ==
    /\ pc[a] = label
    /\ \/ Put(Temp(a), state) /\ Goto(a, next)
       \/ GiveUp(a)
    /\ UNCHANGED <<scans, index, row, original, removed, failed, known, agents,
                   history>>

\* Wrong on purpose: the bytes are left to the system.
SyncNothing(a) == WriterStep(a, "sync", "written", "place")

\* CreateTemp and the first of what write writes; write; Sync.
CreateTemp(a) == WriterStep(a, "create", "partial", "write")
Write(a) == WriterStep(a, "write", "written", "sync")
Sync(a) == WriterStep(a, "sync", "synced", "place")

Place(a) ==
    /\ pc[a] = "place"
    /\ \/ /\ file' = [file EXCEPT ![Main(row[a])] = file[Temp(a)],
                                  ![Temp(a)] = None]
          /\ Watch /\ Goto(a, "converted")
       \/ GiveUp(a)
    /\ UNCHANGED <<scans, index, row, original, removed, failed, known, agents,
                   history>>

\* writeOpenCodeConverted: the export file, which nobody syncs.
Export(a) == WriterStep(a, "export", "written", "import")

\* `opencode import`, with its time limit: it may have stored the session, or
\* a part of it, and still fail or be killed.  Only its acknowledgement makes
\* the conversion a success.
CliImport(a) ==
    /\ pc[a] = "import"
    /\ \E stored \in {None, "partial", "synced"}, left \in {None, file[Temp(a)]} :
         /\ file' = [file EXCEPT ![Main(row[a])] = stored, ![Temp(a)] = left]
         /\ \/ stored = "synced" /\ Goto(a, "converted")
            \/ Goto(a, "refused")
    /\ Watch
    /\ UNCHANGED <<scans, index, row, original, removed, failed, known, agents,
                   history>>

-----------------------------------------------------------------------------
(* The others.                                                             *)

\* From now on a deletion of the session need not be its last.
Touch(s) ==
    /\ erased' = erased \ {s}
    /\ touched' = touched \cup {a \in Actors : pc[a] \notin Over /\ row[a] = s}

\* An agent saves a session of its own: it begins to write its files ...
SaveBegins(s) ==
    /\ saves < MaxSaves /\ s \notin saving
    /\ saves' = saves + 1 /\ saving' = saving \cup {s}
    /\ file' = [f \in Files |-> IF f \in Parts(s) THEN "partial" ELSE file[f]]
    /\ Watch /\ Touch(s)
    /\ UNCHANGED <<scans, index, acting, known, late, lost>>

\* ... and has written them, those that were removed meanwhile too or, where
\* it has them open, without a name.
SaveEnds(s) ==
    /\ s \in saving /\ saving' = saving \ {s}
    /\ \E kept \in {Parts(s), {f \in Parts(s) : file[f] # None}} :
         file' = [f \in Files |-> IF f \in kept THEN "written" ELSE file[f]]
    /\ Watch /\ Touch(s)
    /\ UNCHANGED <<scans, index, acting, known, saves, late, lost>>

\* Claude adds a session to its index.
ClaudeIndexes(s) ==
    /\ StoreOf[s] = "claude" /\ file[Main(s)] # None /\ s \notin index
    /\ index' = index \cup {s}
    /\ MadeLate({}, {s})
    /\ UNCHANGED <<dvars, acting, known, agents, erased, touched, lost>>

Die(a) ==
    /\ pc[a] \notin Over /\ Goto(a, "dead") /\ Forget(a)
    /\ removed' = [removed EXCEPT ![a] = FALSE]
    /\ failed' = [failed EXCEPT ![a] = FALSE]
    /\ UNCHANGED <<dvars, index, row, known, agents, history>>

\* Every process dies, and what was not synced may be torn.
PowerCut ==
    /\ pc' = [a \in Actors |-> "dead"]
    /\ original' = [a \in Actors |-> {}]
    /\ removed' = [a \in Actors |-> FALSE]
    /\ failed' = [a \in Actors |-> FALSE]
    /\ Abandon
    /\ \E torn \in SUBSET {f \in Files : file[f] = "written"} :
         file' = [f \in Files |-> IF f \in torn THEN "partial" ELSE file[f]]
    /\ saving' = {}
    /\ UNCHANGED <<index, row, known, saves, history>>

-----------------------------------------------------------------------------
NoOther == UNCHANGED <<index, acting, agents, history>>

Scans == /\ scan = "running" /\ NoOther
         /\ \/ Discovered /\ known' = known \cup {f[1] : f \in rows'}
            \/ \E p \in Targets : TargetStep(p) /\ UNCHANGED known

Lists == (scan = "idle" => Started < MaxStarted) /\ Start /\ UNCHANGED known /\ NoOther
ListerDies == scan = "running" /\ Abandon /\ UNCHANGED <<file, known>> /\ NoOther

Act(a) ==
    \/ \E s \in Sessions : Delete(a, s)
    \/ \E s \in Sessions, new \in New : Convert(a, s, new)
    \/ RemoveBackup(a) \/ RemoveJournal(a) \/ RemoveMain(a) \/ ReportJCode(a)
    \/ ReadIndex(a) \/ CompareIndex(a) \/ RenameIndex(a) \/ Unlink(a)
    \/ CliDelete(a)
    \/ CreateTemp(a) \/ Write(a) \/ Sync(a) \/ Place(a)
    \/ Export(a) \/ CliImport(a)
    \/ Die(a)

Next == \/ Lists \/ Scans \/ ListerDies \/ PowerCut
        \/ \E a \in Actors : Act(a)
        \/ \E s \in Native : SaveBegins(s) \/ SaveEnds(s)
        \/ \E s \in Sessions : ClaudeIndexes(s)

Spec == Init /\ [][Next]_svars

\* The goroutines of a listing are scheduled; nobody else need do anything.
FairSpec == Spec /\ WF_svars(Scans)

-----------------------------------------------------------------------------
(* What holds of the stores.                                               *)

\* Delete: when it reports success, no file of the session is left, unless
\* its agent has saved it since the deletion began, also when two processes
\* delete the same session.
ReportedDeleteIsComplete ==
    \A s \in erased : \A f \in Parts(s) : file[f] = None

\* removeClaudeIndexEntry: of the entries of other sessions, only one that
\* Claude makes, or another deletion brings back, between the comparison and
\* the rename can be lost.
IndexKeepsOthers == lost \subseteq late

\* writeFileAtomic: a session that showagent writes is never there in part,
\* also after a crash of the process or of the machine ("a crash mid-write must
\* never leave a partial file that the other tool could try to load"), and an
\* attempt that reports an error has made no session.  Neither is so of a
\* conversion to OpenCode.
ConversionIsAllOrNothing ==
    /\ \A s \in New : Filed(s) => file[Main(s)] # "partial"
    /\ \A a \in Actors :
         pc[a] = "refused" /\ row[a] \in New \ known /\ Filed(row[a])
         => file[Main(row[a])] = None
=============================================================================
