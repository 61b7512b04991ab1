------------------------------ MODULE Discovery ------------------------------
(***************************************************************************)
(* One listing of the sessions (Discover) while other programs write and   *)
(* remove session files.                                                   *)
(*                                                                         *)
(* Each provider is scanned by a goroutine of its own.  A scan target is   *)
(* walked for the files that look like sessions.  JCode's are read during  *)
(* the walk; those of a pooled target are handed by a feeder to a few      *)
(* workers, and their rows go through a channel with room for one row per  *)
(* worker to a collector (parseRowsBounded).  The order in which files are *)
(* read is left open: the final sort hides it.  Codex has two targets; the *)
(* code scans one after the other, here they are independent.              *)
(*                                                                         *)
(* What a file half written comes to depends on its format.  The readers   *)
(* of Codex and Claude skip the lines they cannot decode, take the id from *)
(* the file name and the time from the file: they list whatever there is.  *)
(* Pi's wants the header and a turn.  JCode's session is one document, of  *)
(* which a part decodes to nothing.                                        *)
(***************************************************************************)
EXTENDS Integers, FiniteSets, Sequences

CONSTANTS
    Files,      \* every file that can come to be in a store
    TargetOf,   \* the scan target a file is under
    Named,      \* the files with the name of a session file
    Targets,
    Pooled,     \* the targets that parseRowsBounded reads
    Queried,    \* those that a command of the agent lists in one query
    Documents,  \* those with sessions that are one document each
    Headed,     \* those that want some lines before they list a file
    Readers     \* workers of one parseRowsBounded, at most

ASSUME DiscoveryAssumption ==
    /\ IsFiniteSet(Files)
    /\ Named \subseteq Files
    /\ TargetOf \in [Files -> Targets]
    /\ Pooled \cup Queried \cup Documents \cup Headed \subseteq Targets
    /\ Readers \in Nat \ {0}

VARIABLES
    file,       \* what there is of each file
    scan,       \* "idle", "running" or "listed"
    stage,      \* of each target: "walk", "read" or "done"
    paths,      \* files found there that nobody has started to read
    staff,      \* workers
    busy,       \* files that a worker is reading
    ready,      \* files whose row a worker wants to send
    done,       \* how many workers have returned
    queue,      \* rows in the channel to the collector
    found,      \* rows collected
    rows,       \* the last complete listing
    through,    \* for the properties: sessions that could be read all the
                \* time it ran
    sometime    \* those that could at some time while it ran

pools == <<stage, paths, staff, busy, ready, done, queue, found>>
scans == <<scan, pools, rows>>
watched == <<through, sometime>>
dvars == <<file, scans, watched>>

-----------------------------------------------------------------------------
None == "none"
States == {None, "partial", "written", "synced"}

\* All of the file has been written.
Whole(f) == file[f] \in {"written", "synced"}

\* Files that may come to a row, and those that are sure to.
Parses(f) == \/ Whole(f)
             \/ file[f] = "partial" /\ TargetOf[f] \notin Documents
SureToParse(f) == Parses(f) /\ (TargetOf[f] \in Headed => Whole(f))

Readable == {f \in Named : Parses(f)}
Sure == {f \in Named : SureToParse(f)}

\* The names that the walks look at.  The temporary files, backups and
\* journals in the same directories end in something else.
LooksRight(f) == f \in Named

Idle(p) == staff[p] - Cardinality(busy[p]) - Cardinality(ready[p]) - done[p]

\* Beside every step that changes a file.
Watch == IF scan = "running"
           THEN /\ through' = through \cap Sure'
                /\ sometime' = sometime \cup Readable'
           ELSE UNCHANGED watched

-----------------------------------------------------------------------------
Nothing == [p \in Targets |-> {}]
Zero == [p \in Targets |-> 0]

PoolsEmpty ==
    /\ stage = [p \in Targets |-> "walk"]
    /\ paths = Nothing /\ busy = Nothing /\ ready = Nothing
    /\ queue = Nothing /\ found = Nothing
    /\ staff = Zero /\ done = Zero

DiscoveryInit ==
    /\ scan = "idle" /\ PoolsEmpty
    /\ rows = {} /\ through = {} /\ sometime = {}

\* A goroutine per provider.
Start ==
    /\ scan # "running"
    /\ scan' = "running"
    /\ stage' = [p \in Targets |-> "walk"]
    /\ found' = Nothing
    /\ rows' = {}
    /\ through' = Sure /\ sometime' = Readable
    /\ UNCHANGED <<file, paths, staff, busy, ready, done, queue>>

\* discoverOpenCode: what the database holds when the query is answered.
Query(p) ==
    /\ scan = "running" /\ stage[p] = "walk" /\ p \in Queried
    /\ stage' = [stage EXCEPT ![p] = "done"]
    /\ \E listed \in SUBSET {f \in Readable : TargetOf[f] = p} :
         /\ {f \in Sure : TargetOf[f] = p} \subseteq listed
         /\ found' = [found EXCEPT ![p] = listed]
    /\ UNCHANGED <<file, scan, paths, staff, busy, ready, done, queue, rows,
                   watched>>

\* jsonlPaths, WalkDir: no file, no worker.
Walk(p) ==
    /\ scan = "running" /\ stage[p] = "walk" /\ p \notin Queried
    /\ LET seen == {f \in Files : /\ TargetOf[f] = p
                                  /\ file[f] # None
                                  /\ LooksRight(f)}
           size == Cardinality(seen)
       IN  IF seen = {}
             THEN /\ stage' = [stage EXCEPT ![p] = "done"]
                  /\ UNCHANGED <<paths, staff>>
             ELSE /\ paths' = [paths EXCEPT ![p] = seen]
                  /\ stage' = [stage EXCEPT ![p] = "read"]
                  /\ staff' = [staff EXCEPT ![p] =
                                 IF size < Readers THEN size ELSE Readers]
    /\ UNCHANGED <<file, scan, busy, ready, done, queue, found, rows, watched>>

\* jobs <- path: the channel has no room, a worker must be waiting.
Feed(p, f) ==
    /\ p \in Pooled /\ f \in paths[p] /\ Idle(p) > 0
    /\ paths' = [paths EXCEPT ![p] = @ \ {f}]
    /\ busy' = [busy EXCEPT ![p] = @ \cup {f}]
    /\ UNCHANGED <<file, scan, stage, staff, ready, done, queue, found,
                   rows, watched>>

\* row, ok := parse(path)
Read(p, f) ==
    /\ f \in busy[p]
    /\ busy' = [busy EXCEPT ![p] = @ \ {f}]
    /\ \/ Parses(f) /\ ready' = [ready EXCEPT ![p] = @ \cup {f}]
       \/ ~SureToParse(f) /\ UNCHANGED ready
    /\ UNCHANGED <<file, scan, stage, paths, staff, done, queue, found,
                   rows, watched>>

\* rows <- row
Send(p, f) ==
    /\ f \in ready[p] /\ Cardinality(queue[p]) < staff[p]
    /\ ready' = [ready EXCEPT ![p] = @ \ {f}]
    /\ queue' = [queue EXCEPT ![p] = @ \cup {f}]
    /\ UNCHANGED <<file, scan, stage, paths, staff, busy, done, found,
                   rows, watched>>

\* Wrong on purpose: the feeder returns without close(jobs).
LeftOpen(p) == FALSE

JobsClosed(p) == stage[p] = "read" /\ paths[p] = {}

\* range jobs has come to its end for an idle worker.
Return(p) ==
    /\ p \in Pooled /\ JobsClosed(p) /\ Idle(p) > 0
    /\ done' = [done EXCEPT ![p] = @ + 1]
    /\ UNCHANGED <<file, scan, stage, paths, staff, busy, ready, queue,
                   found, rows, watched>>

Collect(p, f) ==
    /\ f \in queue[p]
    /\ queue' = [queue EXCEPT ![p] = @ \ {f}]
    /\ found' = [found EXCEPT ![p] = @ \cup {f}]
    /\ UNCHANGED <<file, scan, stage, paths, staff, busy, ready, done,
                   rows, watched>>

\* JCode: the file is read where the walk finds it.
Visit(p, f) ==
    /\ p \notin Pooled /\ f \in paths[p]
    /\ paths' = [paths EXCEPT ![p] = @ \ {f}]
    /\ \/ Parses(f) /\ found' = [found EXCEPT ![p] = @ \cup {f}]
       \/ ~SureToParse(f) /\ UNCHANGED found
    /\ UNCHANGED <<file, scan, stage, staff, busy, ready, done, queue,
                   rows, watched>>

\* Wrong on purpose: rows is closed once the last path has been fed.
ClosedEarly(p) == paths[p] = {} /\ queue[p] = {}

\* wg.Wait, close(rows), and the collector has drained the channel.
Drained(p) == /\ paths[p] = {} /\ queue[p] = {}
              /\ p \in Pooled => done[p] = staff[p]

Close(p) ==
    /\ stage[p] = "read" /\ Drained(p)
    /\ stage' = [stage EXCEPT ![p] = "done"]
    /\ staff' = [staff EXCEPT ![p] = 0]
    /\ done' = [done EXCEPT ![p] = 0]
    /\ UNCHANGED <<file, scan, paths, busy, ready, queue, found, rows, watched>>

\* wg.Wait in Discover, and the rows of all providers together.
Discovered ==
    /\ scan = "running" /\ \A p \in Targets : stage[p] = "done"
    /\ scan' = "listed"
    /\ rows' = UNION {found[p] : p \in Targets}
    /\ UNCHANGED <<file, pools, watched>>

\* The process that lists dies, and all its goroutines with it.
Abandon ==
    /\ scan' = "idle"
    /\ stage' = [p \in Targets |-> "walk"]
    /\ paths' = Nothing /\ busy' = Nothing /\ ready' = Nothing
    /\ queue' = Nothing /\ found' = Nothing
    /\ staff' = Zero /\ done' = Zero
    /\ rows' = {} /\ through' = {} /\ sometime' = {}

ListingDies == Abandon /\ file' \in [Files -> States]

TargetStep(p) ==
    \/ Query(p) \/ Walk(p) \/ Return(p) \/ Close(p)
    \/ \E f \in paths[p] : Feed(p, f) \/ Visit(p, f)
    \/ \E f \in busy[p] : Read(p, f)
    \/ \E f \in ready[p] : Send(p, f)
    \/ \E f \in queue[p] : Collect(p, f)

\* What any other program may do to the files.
Others == file' \in [Files -> States] /\ Watch /\ UNCHANGED scans

DiscoveryNext == \/ Start \/ Discovered \/ ListingDies \/ Others
                 \/ \E p \in Targets : TargetStep(p)

DiscoverySpec == /\ file \in [Files -> States] /\ DiscoveryInit
                 /\ [][DiscoveryNext]_dvars

-----------------------------------------------------------------------------
(* What a listing promises.                                                *)

\* Discover: a session that could be read for as long as the listing takes is
\* listed, whatever the workers and the other programs do meanwhile, and so is
\* one of Codex or Claude that is being written all the while; and what is
\* listed is a session file that its reader took at some time while it ran:
\* of a document, all of it.
ScanIsFaithful ==
    scan = "listed" => through \subseteq rows /\ rows \subseteq sometime

\* parseRowsBounded: with an unbuffered channel in, a bounded one out and
\* workers that wait for both, a listing comes to its end.
ScanEnds == (scan = "running") ~> (scan # "running")
=============================================================================
