# A verification project for showagent

showagent finds the sessions of several coding agents on one machine (Claude
Code, Codex, Gemini CLI, Antigravity, opencode, Jcode, Pi, MiMo), shows them in
a picker, starts, converts, branches and deletes them, and imports conversations
that were shared on the web into them. It owns almost none of the files it
works on: the session stores belong to the agents, which read and write them
at the same time.

This directory holds TLA+ models of showagent, the TLC configurations that
check them, and proofs for TLAPS. The code is the reference: every definition
that models code is listed with its lines under `map` in `PROJECT.json`.

    tlc -workers 2 -config MCImportOnce.cfg MCImport       # check one run
    tlapm ImportProofs.tla                                 # check one module's proofs

Contents: 1 inventory · 2 plan · 3 models and code · 4 runs · 5 fairness and
deadlock · 6 proofs · 7 findings · 8 what is not covered.

## 1. Inventory

### Import of a reviewed conversation — `internal/session/import*.go`

*State.* For each key (hash of destination and reviewed messages) two receipt
files, `<key>.prepared.json` and `<key>.committed.json`; the native session
files; the plan the user reviewed (with the revision of the target).
*Operations.* `PlanImport` reads the target and takes its revision;
`ApplyImport` reads the receipts, creates its own prepared receipt
exclusively, writes natively (a session file, `opencode import`, or a Codex
app-server session), verifies, commits the receipt, removes the prepared one.
*Hard.* It may die anywhere; its native write may take effect after it gave
up; it may fail after the write; two imports may overlap in one process (MCP
server) or in two; the agents change the same sessions.
*Correct when.* Messages reach the store at most once; a retry is offered only
when nothing was written; a "no-op" is one; an append keeps what was reviewed
in front of it; an attempt that committed did write.

### Codex app-server client — `import_codex.go`

*State.* A child process with two pipes, a channel of 64 responses, four
goroutines (caller, reader, waiter, context), the number of the last request.
*Operations.* start, `call`, `notify`, `close`.
*Hard.* Every one of the goroutines can block on another; answers can be late,
missing, or for nobody; the server makes requests of its own; it can stop reading.
*Correct when.* An answer is the answer to its own request; nothing is injected
unless the handshake succeeded; no goroutine, and no server, outlives a closed
client; the caller always comes to an end.

### Codex path locks — `import_codex.go`

*State.* A table from path to a counted mutex, itself under a mutex.
*Correct when.* It acts as one mutex per path although mutexes come and go.

### Interactive picker — `internal/tui/tui.go`, `keys.go`

*State.* The rows it loaded, the list widget's copy of them, the search, the
provider filter, the collapsed workspaces, the cursor, an armed deletion, a
previewed conversion, the background action in progress.
*Operations.* Keys; the messages of the commands it started (rescan, delete,
convert, branch, copy, share); the messages of the list's own search.
*Interaction.* Commands call the session package from their own goroutines and
come back as messages; other programs change the stores meanwhile; the wizard
replaces its key handling while it is open.
*Hard.* Messages that are out of date when they arrive; a two-press safety that
every cursor move must respect; a list that is a function of four things.
*Correct when.* See `PROJECT.json`, hazards of `tui.go`.

### Import wizard — `internal/tui/import.go`

*State.* Step, source, the text given and what the editor makes of it, focus,
the parsed conversation, destination, plan, the command in progress.
*Operations.* Keys of eight steps, clipboard pastes, and the answers to parse,
plan and apply. *Hard.* Clipboard answers at any time; going back and changing a
choice after a plan was made; a wizard closed and opened again.
*Correct when.* What is applied is what was given, reviewed and chosen; it is
applied once; no answer is taken by another wizard; keys are never dead for ever.

### Discovery, parsing and writing of sessions — rest of `internal/session`

*State.* The agents' stores (JSONL, JSON, SQLite through CLIs, index files).
*Operations.* `Discover` scans every provider with a goroutine, most of them with a
pool of workers; a provider's parser makes a row of a file and its reader a
transcript; `Convert` reads a transcript, keeps what `HandoffOptions` ask for and
writes a session of another agent through a temporary file and a rename.
*Hard.* Files that change or go while they are listed; two readings of one file that
must agree; formats in which an agent edits, rewinds, compresses or branches; records
over the size limit; a page of a CLI's output that is cut off; death in the middle.
*Correct when.* A listing misses no session that could be read all the time and invents
none; the transcript is the conversation as it stands; row and transcript agree; what a
conversion returns is what the next listing finds; one to a file is there whole or not at all.

### Deleting sessions — `Delete` of every provider

*State.* One file, or a main file with a backup and a journal (JCode), or a file and an
entry of an index (Claude), or whatever the provider's CLI keeps.
*Hard.* Any of the files may fail to go; another process deletes too; Claude writes
its index, and the agent its session, meanwhile.
*Correct when.* What is reported deleted is gone, all of it; entries of other
sessions stay in the index.

### Conversation importer — `internal/importer`

Fetches a shared conversation (limits on redirects and size) and recognises its
format. Pure functions, except for the redirect loop of the fetcher.

### Self-update — `cmd/showagent/update.go`, `replace_*.go`

*State.* The installed binary, its `.old` copy on Windows, a temporary file, a cached tag.
*Operations.* The check at a start (1.2 s, then in the background), `update` and
`update --check`, download, verification, extraction, replacement.
*Hard.* Death, or a second update, between two renames; a stale, torn or pre-release
tag in the cache; damaged or missing downloads.
*Correct when.* There is always a program to start; it is a whole release; an update
never goes back.

### The rest

MCP server (stateless calls of the session package, many at a time), command
line, compound learnings (moves a directory once), provider tables and recipes,
rendering, star hint, scripts and docs. Each is listed in `PROJECT.json` with
its status and the reason.

## 2. Plan

Ordered by what is lost when the part is wrong.

| # | modules | about | state |
|---|---------|-------|-------|
| 1 | `OnceImport` ← `Import` | import with receipts, refined | done, proved |
| 2 | `CodexRpc` | app-server client | done, safety proved |
| 3 | `PathMutex` ← `PathLock` | counted mutexes, refined | done, proved |
| 4 | `Picker` | picker against changing stores | done, safety proved |
| 5 | `ImportWizard` | the wizard inside the picker | done, safety proved |
| 6 | `Updater` | check, cache, download and replacement of the binary | done, safety proved |
| 7 | `Discovery` ← `Stores` | a listing with its workers; deletions, conversions and agents on the same stores | done, safety proved |
| 8 | `Conversions` | readers and writers of every format, `HandoffOptions`, rows of the list | done, proved |
| 9 | `Lines` | `scanLines` and `reverseLines` over blocks, against a reference | later |
| 10 | `LearningsMove` | the move of the learnings directory; receipts in directories that are not synced | later |

Composition: `Import` takes the path lock as a set of holders (`locks`), which
is the abstract mutex that `PathLock` is shown to implement; it takes one Codex
append as the requests whose order and failures `CodexRpc` establishes
(`InjectedAfterResume` is why an early failure is retryable); `ImportWizard`
uses that nothing else of the picker runs beside it, which is `OneCommand` of
`Picker`; and `Picker` has the wizard as one mode whose outcome is a new row.
`Stores` extends `Discovery` and runs it beside everything else that works on the
session files; `Discovery` by itself allows the rest of the world any change, and
`StoresImplementDiscovery` shows that `Stores` is such a world. `Conversions` has
the contents of one file, of which `Stores` only knows how much there is.

Every safety property of the runs is stated by a theorem. `Import` with directories that are not
synced is a variation of module 1.

## 3. Models and code

### `Import` (with `OnceImport`, `ImportInvariants`, `MCImport`)

A *call* is one `ApplyImport` with its own OperationID; a *key* is what
`importReceiptKey` hashes, that is, a destination with reviewed messages.
`key`, `pc`, `outcome`, `seen`, `before` and `prior` (the committed receipt it
read, which is the one it rechecks the session with, `import.go:246-252`) are a call's
locals; `prepared`,
`torn` and `committed` are the receipt directory; `inflight`, `session`, `file`
the native stores. `written` is history: which calls' messages got there.

| actions | code |
|---|---|
| `Plan`, `Start`, `MissingCLI` | `PlanImport`, the entry of `ApplyImport` |
| `ReadCommitted` … `FillFails` | `prepareImportReceipt`: two reads, the exclusive creation, the filling |
| `WriteFile` … `ObserveAfter` | `applyImportNative` with a session file, its revision taken afterwards |
| `RunCLI` … `CLIFails` | the same through `opencode import`: a request that `Store` or `Drop` decides at any later time, 60 s limit |
| `LockPath` … `Release` | `applyCodexContextImport`: lock, observe, handshake, inject, unsubscribe, verify, release |
| the actions `…Retryable` beside `…Fails` | `errImportNotStarted` and the tail of `ApplyImport` that removes the prepared receipt for it |
| `Commit`, `RemovePrepared` and their failures | `commitImportReceipt` |
| `Recheck…`, `ConfirmFile` | `verifiedCommittedImport` |
| `Crash(p)` | the process dies: its calls stop, its requests remain |
| `OtherClient`, `UseSession` | other programs on the same sessions |

The message contents are one record per key: no property distinguishes two
messages of one import. A file is a sequence of such records with a stamp that
stands for its hash. `Filtered` names the keys with a user message that the
transcript reader hides, a detail of the contents that control depends on; so are
`Twins`, the appended messages that another client may add as well. `Verify` cannot tell the two apart
(roles and texts after the prefix, `import_codex.go:239-267`), so `Stored`, and with it
`CommittedIsWritten` and `NoOpIsTruthful`, means for them: found behind the records observed.
`OnceImport` is what `docs/web-import.md:75-79` promises as four actions
(intend, abandon, write, record). The mapping reads `phase` off the receipts:
a committed one is "recorded", a prepared one "intended".

### `CodexRpc`

One client from `startCodexImportClient` to `closeClient`. `stdin`, `stdout` and
`responses` are bounded sequences: a write to a full pipe blocks as in the code.
The caller issues the requests in the order of `applyCodexContextImport`; a
request ends by its answer, its own timer, the end of the server (`done`) or the
context. The reader can be blocked with a line in hand. Closing
waits for `done`, kills, and waits once more. The server is external: it reads, answers in any
order or never, with a result or an error, writes notifications, garbage, and requests of its
own under any number (`ServerTalks`, `MaxNoise` lines of them), and may exit at any point. The
client compares the number of a line and nothing else, and has no field for a method, so a request
under the number it waits for is read as a success without a result (`Decoded`); `asked` is
history, the numbers the server used. `Following` is what each request makes of its answer: those
to `thread/read` and `thread/resume` must name the session.

### `PathLock` (with `PathMutex`)

`acquireCodexImportPathLock` and the function it returns, at the grain of the two
mutexes: `LockTable`, `Lookup` (find or make the
entry, count, unlock the table), `Acquire`,
`Unlock`, `RelockTable`, `Drop` (uncount, forget at zero). A lock is memory:
`Lookup` takes a piece that nothing points to. `PathMutex` has `Get` and `Put`.

### `Picker`

A list item is a session or a folder; `items` is the widget's copy and `found`
what its last finished search left visible. `rows` are the sessions in memory,
`disk` those in the stores, which `Outside` edits. `GroupedItems` and `FlatItems`
build the list as `groupedItems` and `flatItems` do, from what they are given. Every key of
`handleKey` that changes state has an action; a key that moves the cursor goes
through `reconcileDeleteArm` when the code does, and not when it does not.
Background commands take what they need when they start, act on `disk` when
they run, and their message is handled later. `strayed` is history for the
two-press property: the cursor was off the armed row since it was armed.
The list widget (bubbles/list) is external, modelled by how the picker uses it:
all items are on one page, and its asynchronous search (a command that filters
the items of its start) delivers late and in any order.

### `ImportWizard`

`KeyStep` has the keys of each step; `Paste` is a bracketed paste; `ClipboardAnswers` the
read started by ctrl+v; `Run` and `Answer` the background commands. A text is an
abstract value; `Edited` says what the text area makes of it (tabs become
spaces, control characters go), which is why the code keeps `pasteOriginal`
beside it. `given` is history: the last text accepted from the user. A plan
remembers the conversation and the target it was made from; `spent` is history:
it was applied. A place stands for the folder text, which a new wizard has as the
working directory (`Open`).

### `Updater` (with `MCUpdater`)

Several processes on Unix or Windows. A version is a number with or without a
pre-release suffix (the three numbers are one, ordered as they are); `Torn` is
bytes that are no release. `Start` is the entry of each mode; `Fetched`, `FetchFailed` and
`Refreshed` the check in time, out of time and in the background, with what
`os.WriteFile` may leave in the cache (`Saved`); `Decide` is `isNewerVersion` and what
follows; `Answer` the prompt; `Download` is `downloadVerified` up to the extracted
binary; `CreateTemp` and `CopyBinary` are `installBinary`; `ReplaceUnix` is
`replace_unix.go`; `RemoveBackup`, `MoveAside`, `Place`, `RollBack` and `CleanUp` are the
steps of `replace_windows.go`; `Crash` is death at any of them. `disturbed` is history: a replacement on
Windows began during another one, or with no binary in place.

### `Discovery` and `Stores` (with `MCStores`)

`Discovery` is one `Discover`: a goroutine per target walks it, a feeder hands the
files to workers, their rows go through a bounded channel to a collector
(`parseRowsBounded`: `Walk`, `Feed`, `Read`, `Send`, `Return`, `Collect`, `Close`), or the file is
read during the walk (`Visit`, JCode), or a command of the agent lists its database (`Query`,
OpenCode). A file is absent, partial, written or synced. What a partial
one comes to depends on its format: Codex and Claude skip what they cannot decode, take the id from
the file name and the time from the file, and so list whatever there is; Pi lists it once it has
the header and a turn (`Headed`, which the run leaves empty and the proofs do not); of one JSON document (`Documents`, JCode) a part comes to nothing. `Parses` is
"may come to a row", `SureToParse` "must". `through` and `sometime` are history: the sessions that had
to be readable all the time, and that could be read at some time, while it ran. `Others` is any
change of any file.

`Stores` puts beside it processes that run one command each. `Delete` leads to the
provider's own steps: `RemoveBackup`, `RemoveJournal`, `RemoveMain`, `ReportJCode`;
`ReadIndex`, `CompareIndex`, `RenameIndex`, `Unlink` for Claude; `Unlink` for one
file; `CliDelete` for Codex and opencode. `Convert` leads to `CreateTemp`, `Write`, `Sync`,
`Place`, the steps of `writeFileAtomic`, any of which may fail and then remove the temporary file
or not (`GiveUp`); to opencode it leads to `Export` and `CliImport`: the command may store the session,
or a part of it, and still fail. `SaveBegins` and `SaveEnds` are an agent that writes its session, which
others meet half written in between; `ClaudeIndexes` is Claude's index; `Die` and
`ListerDies` are deaths; `PowerCut` kills all and tears what is not synced. A command
takes only a session that some process has listed (`known`). `erased`, `touched`,
`late` and `lost` are history: what was reported deleted, whose session was saved
meanwhile, index entries made between a comparison and its rename, and entries lost.

### `Conversions` (with `MCConversions`)

The contents of one session, and how it stands with its agent (`standing`: the user's own, one of
a tool call, archived, MiMo's copy of a Claude session, or one whose messages do not name its
directory). A record has a kind, an id, a parent, a role and parts;
a text is a sequence of marks: a word, a mark that some reader looks for (injected
context, a slash command, Antigravity's wrapper), or "huge", one that the mimo CLI cuts off
even by itself. Every reader is an operator over
the records (`CodexTranscript` … `AntigravityTranscript`), a loop that collects what each
record gives (`Gathered`). Where the code carries a state from record to record
there is a recursive function: `LoadGeminiConversation` replays messages, rewinds and checkpoints with
the index of the messages, `PiParents` follows each entry's parents, `MimoRows` fetches pages and
halves them, and fails when a single row is cut off, `MimoGrouped` puts their rows together. So are
the rows (`ParseCodex` …) and the writers (`WriteCodex` …). The scans of the head go on until they
have all that they look for (`HeadReadable`): Codex the meta record and a prompt, Claude the launch
directory and a prompt. The agents `Say`, branch
(`PiBranch`), edit, rewind and compress (`GeminiEdit`, `GeminiGoBack`, `GeminiCompress`) and
write records that say nothing (`Aside`), one of which may be oversized; the user may archive the
session or delete the one it was copied from (`Archive`, `OriginalGone`). `told` is what was said, kept
without any format: the reference, one conversation for every record. A new record has an
id that no other has (`NewId`, above all that a conversion can give). `Convert` hands the conversation over; the new
agent goes on with it.

Every model holds, beside an action, variants marked "Wrong on purpose": the
action with a plausible mistake in it. No run uses them; for each property one of
them, put in the place of the action, makes TLC find the property violated
(`mutants` in `PROJECT.json`). They say which mistake a property is for.

## 4. Runs

| run | instance | states | what it shows |
|---|---|---|---|
| `import_once` | 3 attempts in turn, 3 keys (file, CLI, append) | 297 k | `AtMostOnce`; refinement of `OnceImport`, with a crash, failure or late write at any step |
| `import_concurrent` | 2 overlapping attempts of 2 processes, 4 keys, 2 writes of another client, which may be the same messages | 1 779 k | `IntentCoversWrite`, `RetryableIsSafe`, `CommittedIsWritten`, `ReviewedHistoryKept`, `NoOpIsTruthful`: everything but `AtMostOnce` survives the overlap |
| `import_one_process` | 2 overlapping appends of 1 process, 1 write of another client | 70 k | `SerializedAppends`; `EveryCallReturns` |
| `import_race` | 2 overlapping attempts with one key | | violation of `AtMostOnce`, section 7 |
| `codex_rpc` | channel 1, pipes of 1 line, 1 line of the server's own | 201 k | `OwnAnswer`, `InjectedAfterResume`, `AnswerArrives`; `CallerReturns`, `ReaderEnds` |
| `path_lock` | 3 imports, 2 paths, 3 locks | 8 k | refinement of `PathMutex`; `EventuallyIn` |
| `picker` | 3 sessions, 2 agents, 2 workspaces, 2 scopes, 1 outside change | 215 k | `OneCommand`, `PreviewIsCurrent`, `NoGhost`, `NoBlankList`, `DeleteKeepsPlace`; `BusyEnds` |
| `picker_search` | 2 sessions of 2 agents, a query that leaves the new one out, 2 results under way, 1 outside change | 584 k | `ListIsCurrent`, `NewSessionSelected`, with late and reordered search results |
| `wizard` | opened twice, 3 texts (one the editor changes), 2 sessions (one appendable), 2 agents, 2 places | 206 k | `ResultIsMine`, `PreviewIsOfSource`, `PlanIsForScreen`, `AppliesOnce`; `WizardAnswers` |
| `updater` | 2 processes, 2 release numbers with and without suffix, both systems | 818 k | `BinarySurvives`, `OnlyReleasesInstalled`, `NeverOlderThanItself` |
| `conversions` | 3 records in 9 formats and one hand-over, pages of 4 parts of which 2 are printed; every standing | 81 k | `TranscriptIsConversation`, `RowShowsTranscript`, `HandedRowIsFound` |
| `stores` | a session each of Claude, JCode and OpenCode, 1 new one of Claude and 1 of OpenCode, 2 commands or a command and a listing with pools of 2, 1 save by an agent | 310 k | `ScanIsFaithful`, `ReportedDeleteIsComplete`, `IndexKeepsOthers`, `ConversionIsAllOrNothing`; `ScanEnds` |

Type invariants, the shape of tables and indexes (`TypeOK`, `IndexInRange`,
`NoStaleEntry`, `ServerGone`) are proved (section 6) rather than run again.

*Why the bounds are enough.* A third attempt is needed to repeat an import whose
repetition failed; a second key to find receipts mixed up; two overlapping calls
already show every race between two reads and one creation. Two writes of another
client (`MaxStamp`) can come before and after the call's own write. A channel and pipes of one line make
full buffers the rule: one stray line and one of the five answers fill the channel and the reader's
hand. Three
imports let one hold, one wait and one arrive. Three sessions in two
workspaces of two agents give a group with two and one with one, so that the last
of a group can go while another group follows. One search under way is enough for its result
to be older than the items, two for results out of order; `MaxReads` 1 lets a clipboard answer
arrive anywhere. Two updates can overlap at any pair of their steps, and two numbers
with a suffix give every outcome of a comparison. Three records are a message, what is
done to it (edited, rewound past, branched from, compressed) and what follows; pages of
two parts make a message straddle pages and an oversized page be halved. Two commands, or
one and a listing, show every race of two on one store; a pool of two over two files has one
worker wait while the other returns. The two processes differ in their names alone, so the
constraint `InOrder` of `MCStores` starts the first one first. What the bounds exclude (longer histories, more
processes) is what the proofs of section 6 are for: they hold for every value of the constants.

## 5. Fairness and deadlock

*Import* (`FairSpec`): a call's next step happens if it stays possible. Each wait is
bounded by a timeout of the code; the path lock is given back on every path, and
a starving waiter gets a Go mutex. Crashes, stores by the providers and other
programs are not fair.
*CodexRpc* (`FairSpec`): the caller's steps, the deadline of the context, and the kill that it leads to. Nothing is asked of the server. `ReaderEnds` alone also assumes
that the reader goroutine is scheduled and `command.Wait` returns.
*PathLock*: weak fairness inside the critical sections, strong fairness for taking
a mutex: Go's `sync.Mutex` hands itself to a waiter after one millisecond.
*Picker* and *ImportWizard*: a command that was started ends (each has a time
limit or is local I/O), and Bubble Tea delivers its message. Nothing is
asked of the user or of the list's searches.

*Stores*: the goroutines of a listing are scheduled (`WF_svars(Scans)`); nobody else
need do anything. `Updater` and `Conversions` have no liveness: an update may fail for ever.

`CHECK_DEADLOCK FALSE` is set where the system does stop: all import calls have
ended, the client is closed, the picker has quit, the wizard has been opened as
often as the bound allows, every process of the updater or the stores has run its
command, no record may be added any more. `PathLock` never stops and is checked for deadlock.

## 6. Proofs

All are proofs of `Spec => [](…)` or of a refinement, for every value of the constants
that satisfies the named assumptions, which TLC evaluates on every run:
`ConstantsAssumption`, `SizesAssumption`, `NamesAssumption`, `PickerAssumption`,
`WizardAssumption`, `UpdaterAssumption`, `DiscoveryAssumption`, `StoresAssumption`, and
`ConversionsAssumption`. They say what sort each constant has, and that the special
values ("no receipt", "nobody", `None`) are none of the real ones, nor a folder a session. `WizardAssumption`
adds that the editor changes a text that went through it no further.

**`ImportProofs`.** `IInv` (module `ImportInvariants`) has five
parts beside the types. `ReceiptInv`: a call past its exclusive creation is named in
the prepared receipt, and what reached the store, or may still, is announced
by a receipt; `IntentCoversWrite` alone is not inductive, because it does not say
that only the owner removes a receipt. `StoreInv`: what a call has verified was
written by itself (`DataInv`, `VerifiedInv`), unless others may write the same, and follows the records
observed under the lock; what it committed stays so, since it has no step left that could change
it (`RecordedInv`); it gives `CommittedIsWritten` and `ReviewedHistoryKept`. `SequentialInv`: when calls do not
overlap nothing changes between a call's two reads and its creation; it gives
`AtMostOnce` and `OnceRefinement`. `SerialInv`: the holder of a path lock is alone with its
file in its process (`LockInv`), and every write gives the file a newer stamp (`StampInv`), so
whoever comes later and passes the comparison has reviewed it later (`OrderInv`); it
gives `SerializedAppends`, which alone says nothing of calls on their way. `RepeatInv`: a
call that rechecks holds the receipt of an attempt that recorded its messages; it gives `NoOpIsTruthful`.
That proof needs the receipt to be the one that the call read (`prior`): another attempt may
commit the same key meanwhile. **`AtMostOnceHolds` and `OnceRefinement` assume
`~Concurrent`**: with overlap they are false (section 7). `OnceRefinement` assumes `Twins = {}`
besides: an import that is recorded on the strength of another client's messages has not gone through
"write". The other theorems need neither.

**`CodexRpcProofs`.** Every line with an id, wherever it is, is what the server
answered, or asked under a number of its own (`LinesInv`); requests follow one another (`OrderInv`); who gave up on
the server killed it (`GoneInv`); what was answered was received, and the request
being written was not (`FreshInv`), so that no answer precedes its wait. A success
without a result is the most that a request of the server's can pass for. From them `OwnAnswer`, `InjectedAfterResume`, `AnswerArrives`, `ServerGone`, and the bounds of channel and pipes as part of `TypeCorrect`.

**`PathLockProofs`.** Whoever is past `Lookup` points to the lock the table names
(`PointerInv`), whose count is the number of its users (`CountInv`, with a lemma on
cardinalities for one user more or less). From them `Exclusive`, `NoStaleEntry`
and `MutexRefinement`: `Acquire` is `Get`, `Unlock` is `Put`, the rest stutters.

**`PickerProofs`.** A command excludes every other one (`CommandInv`); what a
message brings was not deleted (`GhostInv`: a rescan that read before a deletion is what could
violate it, and `OneCommand` is why it cannot); the filter has only providers
that have rows (`FilterInv`); a preview under way is for the settings on the screen
(`PreviewInv`); the items are what rows, filter, groups and search ask for (`ListIsCurrent`,
which needs that `pruneCollapsedGroups` leaves only folders that have a listed session,
`CollapsedIsListed`). The types are the long part: an item comes out of a list
that is flattened recursively. `Flattened` says what `FlattenSeq` contains, by
induction over the sequence; `GroupedElements` what the grouped list contains: the listed
sessions whose folder is open, and the folder of each listed session. From
it follow `NewSessionSelected` (the folder of a new session is opened, so the row is an item,
and `selectRowItem` finds it) and `DeleteKeepsPlace`.

**`ImportWizardProofs`.** One request at most, of the open wizard and of its step
(`CommandInv`); made from what is given and chosen (`RequestInv`); the plan under
review matches and is unused (`ReviewInv`); the index is one of the list (`IndexInv`).

**`UpdaterProofs`.** `IInv` adds to what is proved: a tag on offer is newer than the
program that offers it (`OfferInv`); an archive past its verification, and a temporary
file past its copy, hold that release (`BytesInv`); who asks runs a
release or a development build (`StartedInv`); and, on Windows, unless `disturbed`, whoever
replaces the binary is alone, and has the old one in `.old` while the path is empty (`SwapInv`). `BinarySurvives` is not inductive without it: it
does not say whose the backup is.

**`StoresProofs`.** Of `Discovery` by itself, against any change of the files: no more workers
are busy than a pool has (`PoolInv`, with cardinalities of sets that gain and lose a file), and a
file that could surely be read from the start on is, once walked, in the hands of exactly the pool
that must deliver it (`ScanInv`). `ScanIsFaithful` alone says nothing before the end. Then
every step of `Stores` is one of `Discovery` or a stutter (`StoresImplementDiscovery`), so the listing's
theorem holds there. `IndexInv` says which entries a rename under way would lose;
it gives `IndexKeepsOthers`. `SInv` gives the other two: what a deletion has removed so far
stays away unless its session is saved (`ActorInv`), and for that an id that a conversion has taken
must name nothing that anybody could delete or list before the conversion is over, and be
the id of that conversion alone (`FreshInv`, `UniqueInv`). It rests on the listing's
invariant: a session becomes known only when a listing has found its file.

**`ConversionsProofs`.** `TranscriptIsConversation` is not inductive: that a transcript is
what was said, cut to some turns and without what no format keeps, does not determine what it is
after one more record. `IInv` says it without the cuts, for each way of reading. `LinearInv` and
`AntigravityInv`: the turns of the log are what was heard. `GeminiInv`: the
replayed messages mirror what was said, and the index has the place of each (`Mirrors`);
a checkpoint that leaves the index as it was breaks it a rewind later. `PiInv`:
not only the last line of parents is the conversation at its end, but every one, for a branch may
start anywhere; after a record over the reader's limit, an end of it. Which sessions are left out of the
list follows from `standing` and from what the scan of a head has found before an oversized record
(`HeadSettles`), not from the invariant. `PartsInv`: a prompt
whose last part is one is one as a whole, so that the row's query finds what the transcript has. `IdInv` and
`SizeInv` bound the ids, so that a new one is new. `TranscriptFits` and `RowShows` draw the
invariants from it.

The argument has three layers. A loop gives nothing for no record and what it has so far, then the last
record's, for one more (`TurnsSteps`, `UsersSteps`, … over `FlattenSteps`); the four
recursive functions have such steps too (`ReplaySteps`, `GroupedSteps`, `PagesGiveAll`:
pages that shrink still give every part once and in order, or an error when a single part is too
large, `PathsAre`). Then what is
written is read: `WrittenIsRead` for turns one after another, `SnapshotIs`, `PiWritten`, `RowOfWritten`
for the row. Last, every action of an agent adds a record that fits
(`AddKeeps` with `MessageFits`, `MirrorsSay`, `MirrorsGoBack`, `PiFits` …), and `Convert` starts a log
that fits (`ConvertingKeeps`). `HandedRowIsFound` speaks of the state after a conversion
alone, and follows from that step. The proof corrected the model: new records once took ids that
the writer of a conversion gives as well, when the session had been longer than the runs
allow, and `IdInv` could not be proved.

*Induction.* The induction theorems of the proof library take an operator as a parameter,
which the provers cannot instantiate. What they can use is that every nonempty set of finite
sets has a smallest one (`FS_StrictSubsetOrderingWellFounded` with `WFMin`): from it `LeastExists`, every
set of numbers has a least one, and `UpTo`, induction from 1 to n over a set of numbers.

Only model-checked: all liveness (`EveryCallReturns`, `CallerReturns`, `ReaderEnds`,
`EventuallyIn`, `BusyEnds`, `WizardAnswers`, `ScanEnds`), which is beyond the prover.

## 7. Findings

Where a model disagrees with what the project says of itself. One has a run:

- `import_race`: an attempt can read "not committed", pause, and read "not prepared"
  after another attempt with the same key has come and gone. It then writes the
  messages a second time (`import_receipt.go:87` against `docs/web-import.md:76-78`). It
  needs two overlapping imports of the same conversation.

Four are definitions that no run checks because the code does not do what they say;
adding the definition to a configuration shows it:

- `RepeatIsNoOp` (`Import`, with `Filtered = {cli1}`): a conversation with a user message that the
  transcript reader filters out, imported through a CLI, is reported as failed
  verification when it is repeated, although nothing changed.
- `TwoPressDelete` (`Picker`): hiding and showing the provider of an armed session moves
  the cursor off it and back without disarming it.
- `ServerRequestsSkipped` (`CodexRpc`): a request of the app-server with the number of the call in
  flight ends that call as a success without a result (`import_codex.go:438`), although the comment at
  439-440 has the server's own messages skipped. It can stand for the answer to `initialize` and to
  `thread/inject_items`, not for one that must name the session; what was injected is verified in the
  file all the same (`InjectedAfterResume`, `CommittedIsWritten`).
- `KeysReachInput` (`ImportWizard`): after a parse that was started from Review fails, no input
  has the focus until tab is pressed twice.

Others are exceptions that a property has to make, or follow from reading:

- An append is recorded as done when another Codex client has written the same messages behind the
  observed prefix, whether or not the app-server stored what it acknowledged: they are matched by role and text
  (`import_codex.go:239-267`; `Twins` in `CommittedIsWritten`). The app-server may store its own copy later.
- Pi: a record over the size limit that says nothing breaks the line of parents, and
  everything before it is lost (`pi.go:296`), although `session.go:515-518` says that only
  the record is skipped. It is the exception in `TranscriptIsConversation`.
- A converted conversation without a user turn is not listed by JCode; a prompt that begins with
  "/" is lost in a session converted to Gemini. They are the exceptions in
  `HandedRowIsFound`.
- MiMo: when a single part is more than its CLI prints, the session has no transcript; when it is a first
  or last prompt, the list has no MiMo session at all (`TranscriptIsConversation`, `HandedRowIsFound`).
- Codex and Claude: an oversized record before the meta record, or before one that names the launch
  directory, drops the session from the list even if a prompt came first (`RowShowsTranscript`).
- A session of Codex or Claude that its agent is writing is listed, and converted, as far as it has got
  (`codex.go:140-233`, `claude.go:161-245`).
- A conversion to opencode that reports an error may have stored the session, or a part of it
  (`opencode.go:389-523`); `ConversionIsAllOrNothing` speaks of files alone. Of those too the temporary
  file may stay, for the error of its removal is ignored (`handoff.go:133-136`).
- Windows: an update that begins during another one, or after a failed roll-back, may remove
  the only copy of the program (`disturbed` in `BinarySurvives`).
- Claude may write its index between the comparison and the rename of a deletion; its
  new entry is then lost (`late` in `IndexKeepsOthers`).
- JCode: the comment at `jcode.go:57-59` has the main file kept when another file of the
  session cannot be removed; the code removes it all the same, and reports the error.
- `claudeTranscript` reads `isSidechain` records, which `recipe.go:68` lists as dropped.
- The old name of a learnings directory is the same for `/a/b-c` and `/a/b/c`.
- `writeFileAtomic` syncs the file and its directory, but not the directories that its caller has just made.

## 8. What is not covered

- `Import` has one record for the messages of a key: two keys that share some of their messages, and a
  verification that finds one message here and one there, are left out. `Twins` are shared whole.
- Contents: messages, names and paths are abstract values. The ids and timestamps of
  records, working directories, previews as they are cleaned, and rendering are left out; so are
  how lines are cut out of blocks (`scanLines`, `reverseLines`) and branching into the same agent.
- The order of a listing (a sort at its end), and the two targets of Codex one after
  the other: here all targets are independent, which allows more.
- A file that cannot be read, and a query that fails, leave their sessions out of a listing on purpose:
  here every read works.
- A walk of a directory is one step; a file that appears behind the walk is missed by
  code and model alike.
- Power loss: a crash in `Import` keeps what was written to the directories;
  the code syncs the receipts but not their directories. `Stores` tears files that were not synced.
- Each process of `Stores` and `Updater` runs one command, as the command line does.
- Picker: several pages of the list, the preview column, the help overlay and
  the yolo switch. The first would refine the cursor; nothing depends on the rest.
- External programs (Codex app-server, `opencode`, `mimo`, GitHub, the list widget, Bubble Tea)
  are modelled from how the code uses them: they may answer late, wrongly, or not at all, and act of their
  own accord. A request of the app-server is taken to carry no `result`: one that held a `thread` with the
  right id besides is left out.
- Agents go on with the sessions they had (`Native`), not with those that a conversion of the same run
  has made.
- Claude's sidechains are left out: the models have one line of messages in a Claude session.
- The conversation importer (`internal/importer`), the MCP server, the command line, provider tables
  and the learnings: see the notes in `PROJECT.json`.
