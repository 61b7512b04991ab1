------------------------------- MODULE Import -------------------------------
(***************************************************************************)
(* PlanImport and ApplyImport (src/internal/session/import.go,              *)
(* import_receipt.go, import_codex.go): importing a reviewed conversation   *)
(* into a session store that showagent does not own.                        *)
(*                                                                         *)
(* A call is one attempt, with its own OperationID.  Calls share the        *)
(* receipt directory and the native stores, run in operating-system        *)
(* processes that may die at any point, and meet other programs that        *)
(* change the same native sessions.  Two files per key record what an       *)
(* attempt did: <key>.prepared.json before the native write and             *)
(* <key>.committed.json after it was verified.                              *)
(***************************************************************************)
EXTENDS Naturals, Sequences, SequencesExt

CONSTANTS
    Calls,      \* ApplyImport calls, each with an OperationID of its own
    Keys,       \* importReceiptKey: destination and reviewed messages
    Targets,    \* Codex session files that can be appended to
    Procs,      \* operating-system processes running showagent
    ProcOf,     \* the process that makes each call
    Kind,       \* how a key is written: "file", "cli" or "append"
    TargetOf,   \* the session file of an "append" key
    Filtered,   \* keys with a user message the transcript reader hides
    Twins,      \* "append" keys whose very messages others may write too
    Concurrent, \* may calls overlap in time?
    MaxStamp,   \* bound: writes to a session file by other programs
    NoCall      \* "no receipt"

ASSUME ConstantsAssumption ==
    /\ ProcOf \in [Calls -> Procs]
    /\ Kind \in [Keys -> {"file", "cli", "append"}]
    /\ TargetOf \in [Keys -> Targets]
    /\ Filtered \subseteq Keys
    /\ Twins \subseteq {k \in Keys : Kind[k] = "append"}
    /\ Concurrent \in BOOLEAN
    /\ MaxStamp \in Nat
    /\ NoCall \notin Calls
    /\ {"old", "ext"} \cap Keys = {}

VARIABLES
    key,        \* the key each call was asked to import
    pc,         \* where each call is
    outcome,    \* what each call told its caller
    seen,       \* the target's revision when the plan was reviewed
    before,     \* the target's revision when the call checked it again
    scanned,    \* the records a verification of the target read
    prior,      \* the committed receipt each call read, or NoCall
    after,      \* AfterRevision of a created session: its state when hashed
    prepared,   \* the operation in <key>.prepared.json, or NoCall
    torn,       \* prepared files created but not completely written
    committed,  \* the operation in <key>.committed.json, or NoCall
    locks,      \* calls holding a codexImportPathLock
    inflight,   \* native requests sent and not yet acted on
    session,    \* the session each creating call made, as its provider has it
    file,       \* the Codex session files: their records and a write stamp
    written     \* history: the calls whose messages reached the store, by key

callVars == <<outcome, seen, before, scanned, after>>
receiptVars == <<prepared, torn, committed>>
nativeVars == <<inflight, session, file, written>>
vars == <<key, prior, pc, callVars, receiptVars, locks, nativeVars>>

Records == Keys \cup {"old", "ext"}
Revisions == [data : Seq(Records), stamp : Nat]

Sessions == {"absent", "intact", "rewritten", "altered"}

(* The stages in which the call's own prepared receipt must be on disk. *)
BeforeWrite == {"writeFile", "runCLI", "lockPath", "observe", "handshake",
                "inject", "release"}
MayHaveWritten == {"awaitCLI", "observeAfter", "awaitInject", "unsubscribe",
                   "verify", "confirm", "commit"}
Holding == {"fill"} \cup BeforeWrite \cup MayHaveWritten

Active == {"readCommitted", "readPrepared", "create", "removePrepared",
           "recheckSession", "recheckFile", "confirmFile"} \cup Holding
Stages == {"idle", "planned", "ended", "crashed"} \cup Active

(* Between acquireCodexImportPathLock and its release. *)
LockedStages == {"observe", "handshake", "inject", "awaitInject",
                 "unsubscribe", "verify", "confirm"}

(* refused: stopped with nothing written and no intent of its own, or with *)
(*          a store it could not read                                       *)
(* uncertain: found another attempt's prepared receipt                      *)
(* retryable: nothing written, its prepared receipt withdrawn               *)
(* unknown: failed when the write may have happened, prepared receipt kept  *)
(* mismatch: the committed import could not be found again                  *)
Outcomes == {"none", "refused", "uncertain", "retryable", "unknown",
             "mismatch", "done", "noop"}

TypeOK ==
    /\ key \in [Calls -> Keys]
    /\ pc \in [Calls -> Stages]
    /\ outcome \in [Calls -> Outcomes]
    /\ seen \in [Calls -> Revisions]
    /\ before \in [Calls -> Revisions]
    /\ scanned \in [Calls -> Seq(Records)]
    /\ after \in [Calls -> Sessions \cup {"unknown"}]
    /\ prior \in [Calls -> Calls \cup {NoCall}]
    /\ prepared \in [Keys -> Calls \cup {NoCall}]
    /\ torn \in SUBSET Keys
    /\ committed \in [Keys -> Calls \cup {NoCall}]
    /\ locks \in SUBSET Calls
    /\ inflight \in SUBSET Calls
    /\ session \in [Calls -> Sessions]
    /\ file \in [Targets -> Revisions]
    /\ written \in [Keys -> SUBSET Calls]

-----------------------------------------------------------------------------
FirstRevision == [data |-> <<"old">>, stamp |-> 0]

Init ==
    /\ key \in [Calls -> Keys]
    /\ pc = [c \in Calls |-> "idle"]
    /\ outcome = [c \in Calls |-> "none"]
    /\ seen = [c \in Calls |-> FirstRevision]
    /\ before = [c \in Calls |-> FirstRevision]
    /\ scanned = [c \in Calls |-> <<>>]
    /\ after = [c \in Calls |-> "unknown"]
    /\ prior = [c \in Calls |-> NoCall]
    /\ prepared = [k \in Keys |-> NoCall]
    /\ torn = {}
    /\ committed = [k \in Keys |-> NoCall]
    /\ locks = {}
    /\ inflight = {}
    /\ session = [c \in Calls |-> "absent"]
    /\ file = [t \in Targets |-> FirstRevision]
    /\ written = [k \in Keys |-> {}]

Goto(c, from, to) == pc[c] = from /\ pc' = [pc EXCEPT ![c] = to]

End(c, from, result) ==
    /\ pc[c] \in from
    /\ pc' = [pc EXCEPT ![c] = "ended"]
    /\ outcome' = [outcome EXCEPT ![c] = result]

Target(c) == TargetOf[key[c]]

(* A write to a session file: new records, a new modification time. *)
Written(t, data) ==
    [file EXCEPT ![t] = [data |-> data, stamp |-> file[t].stamp + 1]]

-----------------------------------------------------------------------------
(* PlanImport.  An append plan keeps the revision of the target the user    *)
(* reviewed; a create plan touches nothing.                                 *)
Plan(c) ==
    /\ Goto(c, "idle", "planned")
    /\ seen' = IF Kind[key[c]] = "append"
               THEN [seen EXCEPT ![c] = file[Target(c)]] ELSE seen
    /\ UNCHANGED <<key, prior, outcome, before, scanned, after, receiptVars,
                   locks, nativeVars>>

(* ApplyImport begins.  Only a key that is created through a CLI needs the  *)
(* CLI to be in PATH.                                                       *)
Start(c) ==
    /\ Concurrent \/ \A d \in Calls : pc[d] \notin Active
    /\ Goto(c, "planned", "readCommitted")
    /\ UNCHANGED <<key, prior, callVars, receiptVars, locks, nativeVars>>

MissingCLI(c) ==
    /\ Kind[key[c]] = "cli"
    /\ End(c, {"planned"}, "refused")
    /\ UNCHANGED <<key, prior, seen, before, scanned, after, receiptVars,
                   locks, nativeVars>>

-----------------------------------------------------------------------------
(* prepareImportReceipt: two reads, then an exclusive create. *)
Recheck(k) == IF Kind[k] = "append" THEN "recheckFile" ELSE "recheckSession"

ReadCommitted(c) ==
    /\ prior' = [prior EXCEPT ![c] = committed[key[c]]]
    /\ Goto(c, "readCommitted", IF committed[key[c]] # NoCall
                                THEN Recheck(key[c]) ELSE "readPrepared")
    /\ UNCHANGED <<key, callVars, receiptVars, locks, nativeVars>>

ReadPrepared(c) ==
    /\ prepared[key[c]] = NoCall
    /\ Goto(c, "readPrepared", "create")
    /\ UNCHANGED <<key, prior, callVars, receiptVars, locks, nativeVars>>

(* ErrImportOutcomeUncertain; a torn receipt is an error of its own. *)
FindPrepared(c) ==
    /\ prepared[key[c]] # NoCall
    /\ End(c, {"readPrepared"},
           IF key[c] \in torn THEN "refused" ELSE "uncertain")
    /\ UNCHANGED <<key, prior, seen, before, scanned, after, receiptVars,
                   locks, nativeVars>>

(* O_CREATE|O_EXCL *)
CreatePrepared(c) ==
    /\ prepared[key[c]] = NoCall
    /\ Goto(c, "create", "fill")
    /\ prepared' = [prepared EXCEPT ![key[c]] = c]
    /\ torn' = torn \cup {key[c]}
    /\ UNCHANGED <<key, prior, callVars, committed, locks, nativeVars>>

(* os.ErrExist: the loser of the race starts over. *)
LoseRace(c) ==
    /\ prepared[key[c]] # NoCall
    /\ Goto(c, "create", "readCommitted")
    /\ UNCHANGED <<key, prior, callVars, receiptVars, locks, nativeVars>>

(* An unreadable receipt or directory, a receipt that cannot be created. *)
PrepareFails(c) ==
    /\ End(c, {"readCommitted", "readPrepared", "create"}, "refused")
    /\ UNCHANGED <<key, prior, seen, before, scanned, after, receiptVars,
                   locks, nativeVars>>

NativeStage(k) == CASE Kind[k] = "file" -> "writeFile"
                    [] Kind[k] = "cli" -> "runCLI"
                    [] Kind[k] = "append" -> "lockPath"

(* Wrong on purpose: the native write starts on an incomplete receipt. *)
FillLater(c) ==
    /\ Goto(c, "fill", NativeStage(key[c]))
    /\ UNCHANGED <<key, prior, callVars, receiptVars, locks, nativeVars>>

(* Encode, chmod, sync and close the prepared receipt. *)
FillPrepared(c) ==
    /\ Goto(c, "fill", NativeStage(key[c]))
    /\ torn' = torn \ {key[c]}
    /\ UNCHANGED <<key, prior, callVars, prepared, committed, locks,
                   nativeVars>>

(* ... or fail: the deferred removal may itself fail, silently. *)
FillFails(c) ==
    /\ End(c, {"fill"}, "refused")
    /\ \/ /\ prepared' = [prepared EXCEPT ![key[c]] = NoCall]
          /\ torn' = torn \ {key[c]}
       \/ /\ torn' \in {torn, torn \ {key[c]}}
          /\ UNCHANGED prepared
    /\ UNCHANGED <<key, prior, seen, before, scanned, after, committed,
                   locks, nativeVars>>

-----------------------------------------------------------------------------
(* applyImportNative: a provider that writes a session file.  A local       *)
(* writer fails before its atomic rename or not at all.                     *)
WriteFile(c) ==
    /\ Goto(c, "writeFile", "observeAfter")
    /\ session' = [session EXCEPT ![c] = "intact"]
    /\ written' = [written EXCEPT ![key[c]] = @ \cup {c}]
    /\ UNCHANGED <<key, prior, callVars, receiptVars, locks, inflight,
                   file>>

(* Wrong on purpose: a writer that can fail after its rename. *)
FailAfterRename(c) ==
    /\ Goto(c, "writeFile", "release")
    /\ session' = [session EXCEPT ![c] = "intact"]
    /\ written' = [written EXCEPT ![key[c]] = @ \cup {c}]
    /\ UNCHANGED <<key, prior, callVars, receiptVars, locks, inflight,
                   file>>

WriteFileFails(c) ==
    /\ Goto(c, "writeFile", "release")
    /\ UNCHANGED <<key, prior, callVars, receiptVars, locks, nativeVars>>

(* observeImportRevision of the new file; an error leaves it unknown. *)
ObserveAfter(c) ==
    /\ Goto(c, "observeAfter", "commit")
    /\ after' \in {after} \cup
          IF session[c] = "absent" THEN {}
          ELSE {[after EXCEPT ![c] = session[c]]}
    /\ UNCHANGED <<key, prior, outcome, seen, before, scanned, receiptVars,
                   locks, nativeVars>>

(* writeOpenCodeConverted: `opencode import` runs, and is believed when it  *)
(* prints "Imported session: <id>".  Any other end, the 60-second timeout   *)
(* included, leaves the prepared receipt: the store may have been written.  *)
RunCLI(c) ==
    /\ Goto(c, "runCLI", "awaitCLI")
    /\ inflight' = inflight \cup {c}
    /\ UNCHANGED <<key, prior, callVars, receiptVars, locks, session, file,
                   written>>

(* Wrong on purpose: exit status 0 is taken for success. *)
CLIExitsZero(c) ==
    /\ Goto(c, "awaitCLI", "commit")
    /\ UNCHANGED <<key, prior, callVars, receiptVars, locks, nativeVars>>

CLIConfirms(c) ==
    /\ c \in written[key[c]]
    /\ Goto(c, "awaitCLI", "commit")
    /\ UNCHANGED <<key, prior, callVars, receiptVars, locks, nativeVars>>

(* Wrong on purpose: a failed CLI is taken to have written nothing. *)
CLIFailsRetryable(c) ==
    /\ \E stage \in {"runCLI", "awaitCLI"} : Goto(c, stage, "release")
    /\ UNCHANGED <<key, prior, callVars, receiptVars, locks, nativeVars>>

CLIFails(c) ==
    /\ End(c, {"runCLI", "awaitCLI"}, "unknown")
    /\ UNCHANGED <<key, prior, seen, before, scanned, after, receiptVars,
                   locks, nativeVars>>

-----------------------------------------------------------------------------
(* Wrong on purpose: no lock on the session file. *)
LockNothing(c) ==
    /\ Goto(c, "lockPath", "observe")
    /\ locks' = locks \cup {c}
    /\ UNCHANGED <<key, prior, callVars, receiptVars, nativeVars>>

(* applyCodexContextImport.  acquireCodexImportPathLock excludes only the   *)
(* other calls of this process.                                             *)
LockPath(c) ==
    /\ \A d \in locks : ProcOf[d] = ProcOf[c] => Target(d) # Target(c)
    /\ Goto(c, "lockPath", "observe")
    /\ locks' = locks \cup {c}
    /\ UNCHANGED <<key, prior, callVars, receiptVars, nativeVars>>

(* Every return runs the deferred client.close and releasePathLock. *)
ReturnFrom(c) == locks' = locks \ {c}

(* Wrong on purpose: the reviewed revision is not compared. *)
ObserveOnly(c) ==
    /\ Goto(c, "observe", "handshake")
    /\ before' = [before EXCEPT ![c] = file[Target(c)]]
    /\ UNCHANGED <<key, prior, outcome, seen, scanned, after, receiptVars,
                   locks, nativeVars>>

Observe(c) ==
    /\ file[Target(c)] = seen[c]
    /\ Goto(c, "observe", "handshake")
    /\ before' = [before EXCEPT ![c] = file[Target(c)]]
    /\ UNCHANGED <<key, prior, outcome, seen, scanned, after, receiptVars,
                   locks, nativeVars>>

(* ErrImportTargetChanged *)
TargetChanged(c) ==
    /\ file[Target(c)] # seen[c]
    /\ Goto(c, "observe", "release")
    /\ ReturnFrom(c)
    /\ UNCHANGED <<key, prior, callVars, receiptVars, nativeVars>>

(* app-server start, initialize, initialized, thread/read and thread/resume *)
(* with the identity checks: nothing is written, every error is a           *)
(* codexImportPreWriteError.                                                *)
Handshake(c) ==
    /\ Goto(c, "handshake", "inject")
    /\ UNCHANGED <<key, prior, callVars, receiptVars, locks, nativeVars>>

PreWriteFails(c) ==
    /\ \E stage \in {"observe", "handshake"} : Goto(c, stage, "release")
    /\ ReturnFrom(c)
    /\ UNCHANGED <<key, prior, callVars, receiptVars, nativeVars>>

Inject(c) ==
    /\ Goto(c, "inject", "awaitInject")
    /\ inflight' = inflight \cup {c}
    /\ UNCHANGED <<key, prior, callVars, receiptVars, locks, session, file,
                   written>>

(* The app-server acknowledges; it may store the items before or after. *)
InjectConfirmed(c) ==
    /\ Goto(c, "awaitInject", "unsubscribe")
    /\ UNCHANGED <<key, prior, callVars, receiptVars, locks, nativeVars>>

(* Wrong on purpose: a failed request is taken to have written nothing. *)
InjectFailsRetryable(c) ==
    /\ \E stage \in {"inject", "awaitInject"} : Goto(c, stage, "release")
    /\ ReturnFrom(c)
    /\ UNCHANGED <<key, prior, callVars, receiptVars, nativeVars>>

(* Wrong on purpose: this error path keeps the lock. *)
InjectFailsLocked(c) ==
    /\ End(c, {"inject", "awaitInject"}, "unknown")
    /\ UNCHANGED <<key, prior, seen, before, scanned, after, receiptVars,
                   locks, nativeVars>>

(* A request that cannot be sent, an error reply, the 10-second timeout, or *)
(* the server's exit.  thread/unsubscribe is tried and its result ignored.  *)
InjectFails(c) ==
    /\ End(c, {"inject", "awaitInject"}, "unknown")
    /\ ReturnFrom(c)
    /\ UNCHANGED <<key, prior, seen, before, scanned, after, receiptVars,
                   nativeVars>>

(* thread/unsubscribe, then client.close. *)
Unsubscribe(c) ==
    /\ Goto(c, "unsubscribe", "verify")
    /\ UNCHANGED <<key, prior, callVars, receiptVars, locks, nativeVars>>

(* Wrong on purpose: taken for a failure before the write. *)
UnsubscribeFailsRetryable(c) ==
    /\ Goto(c, "unsubscribe", "release")
    /\ ReturnFrom(c)
    /\ UNCHANGED <<key, prior, callVars, receiptVars, nativeVars>>

UnsubscribeFails(c) ==
    /\ End(c, {"unsubscribe"}, "unknown")
    /\ ReturnFrom(c)
    /\ UNCHANGED <<key, prior, seen, before, scanned, after, receiptVars,
                   nativeVars>>

(* verifyCodexImportPersistence, up to the end of the scan: the original    *)
(* bytes are an exact prefix and the imported messages follow it, whoever   *)
(* wrote them: they are told by their roles and texts.                      *)
Persisted(k, original, data) ==
    /\ IsPrefix(original, data)
    /\ \E i \in Len(original) + 1 .. Len(data) : data[i] = k

(* Wrong on purpose: the server's acknowledgement is believed. *)
VerifyNothing(c) ==
    /\ Goto(c, "verify", "confirm")
    /\ scanned' = [scanned EXCEPT ![c] = file[Target(c)].data]
    /\ UNCHANGED <<key, prior, outcome, seen, before, after, receiptVars,
                   locks, nativeVars>>

Verify(c) ==
    /\ Persisted(key[c], before[c].data, file[Target(c)].data)
    /\ Goto(c, "verify", "confirm")
    /\ scanned' = [scanned EXCEPT ![c] = file[Target(c)].data]
    /\ UNCHANGED <<key, prior, outcome, seen, before, after, receiptVars,
                   locks, nativeVars>>

(* ... and its last check: the file did not grow or shrink meanwhile. *)
Unmoved(c) == Len(file[Target(c)].data) = Len(scanned[c])

Confirm(c) ==
    /\ Unmoved(c)
    /\ Goto(c, "confirm", "commit")
    /\ ReturnFrom(c)
    /\ UNCHANGED <<key, prior, callVars, receiptVars, nativeVars>>

(* ErrImportVerification, or a read error: the receipt stays prepared. *)
VerifyFails(c) ==
    /\ End(c, {"verify"}, "unknown")
    /\ ReturnFrom(c)
    /\ UNCHANGED <<key, prior, seen, before, scanned, after, receiptVars,
                   nativeVars>>

MovedMeanwhile(c) ==
    /\ ~Unmoved(c)
    /\ End(c, {"confirm"}, "unknown")
    /\ ReturnFrom(c)
    /\ UNCHANGED <<key, prior, seen, before, scanned, after, receiptVars,
                   nativeVars>>

-----------------------------------------------------------------------------
(* ApplyImport after an error that proves nothing was written: the prepared *)
(* receipt is removed, and a failure to remove it is ignored.               *)
Release(c) ==
    /\ End(c, {"release"}, "retryable")
    /\ prepared' \in {prepared, [prepared EXCEPT ![key[c]] = NoCall]}
    /\ UNCHANGED <<key, prior, seen, before, scanned, after, torn,
                   committed, locks, nativeVars>>

(* commitImportReceipt: only over the call's own prepared receipt. *)
OwnPrepared(c) == prepared[key[c]] = c /\ key[c] \notin torn

Commit(c) ==
    /\ OwnPrepared(c)
    /\ Goto(c, "commit", "removePrepared")
    /\ committed' = [committed EXCEPT ![key[c]] = c]
    /\ UNCHANGED <<key, prior, callVars, prepared, torn, locks, nativeVars>>

(* The error wraps ErrImportOutcomeUncertain; also a failed atomic write. *)
CommitFails(c) ==
    /\ End(c, {"commit"}, "unknown")
    /\ UNCHANGED <<key, prior, seen, before, scanned, after, receiptVars,
                   locks, nativeVars>>

RemovePrepared(c) ==
    /\ End(c, {"removePrepared"}, "done")
    /\ prepared' = [prepared EXCEPT ![key[c]] = NoCall]
    /\ UNCHANGED <<key, prior, seen, before, scanned, after, torn,
                   committed, locks, nativeVars>>

RemoveFails(c) ==
    /\ End(c, {"removePrepared"}, "unknown")
    /\ UNCHANGED <<key, prior, seen, before, scanned, after, receiptVars,
                   locks, nativeVars>>

-----------------------------------------------------------------------------
(* verifiedCommittedImport of a created session.  The session must be found *)
(* again, and then either its bytes up to AfterRevision are the ones hashed *)
(* (committedImportPrefixIntact) or its transcript starts with the messages *)
(* (importMessagesAtStart), as far as the transcript reader shows them.     *)
PrefixIntact(d) == after[d] # "unknown" /\ after[d] = session[d]

MessagesAtStart(d) ==
    session[d] \in {"intact", "rewritten"} /\ key[d] \notin Filtered

(* Wrong on purpose: a session of that id is enough. *)
StillFound(d) == session[d] # "absent"

StillThere(d) ==
    session[d] # "absent" /\ (PrefixIntact(d) \/ MessagesAtStart(d))

RecheckSession(c) ==
    /\ End(c, {"recheckSession"},
           IF StillThere(prior[c]) THEN "noop" ELSE "mismatch")
    /\ UNCHANGED <<key, prior, seen, before, scanned, after, receiptVars,
                   locks, nativeVars>>

(* Wrong on purpose: the file is not searched for the messages again. *)
RecheckNothing(c) ==
    /\ Goto(c, "recheckFile", "confirmFile")
    /\ scanned' = [scanned EXCEPT ![c] = file[Target(c)].data]
    /\ UNCHANGED <<key, prior, outcome, seen, before, after, receiptVars,
                   locks, nativeVars>>

(* ... of an append: the checks of Verify and Confirm once more, against    *)
(* the revision stored in the receipt.                                      *)
RecheckFile(c) ==
    /\ Goto(c, "recheckFile", "confirmFile")
    /\ Persisted(key[c], before[prior[c]].data, file[Target(c)].data)
    /\ scanned' = [scanned EXCEPT ![c] = file[Target(c)].data]
    /\ UNCHANGED <<key, prior, outcome, seen, before, after, receiptVars,
                   locks, nativeVars>>

ConfirmFile(c) ==
    /\ Unmoved(c)
    /\ End(c, {"confirmFile"}, "noop")
    /\ UNCHANGED <<key, prior, seen, before, scanned, after, receiptVars,
                   locks, nativeVars>>

(* ErrImportVerification: the messages are missing, or the scan fails. *)
RecheckFails(c) ==
    /\ End(c, {"recheckFile"}, "mismatch")
    /\ UNCHANGED <<key, prior, seen, before, scanned, after, receiptVars,
                   locks, nativeVars>>

RecheckMoved(c) ==
    /\ ~Unmoved(c)
    /\ End(c, {"confirmFile"}, "mismatch")
    /\ UNCHANGED <<key, prior, seen, before, scanned, after, receiptVars,
                   locks, nativeVars>>

(* The created session's store cannot be read. *)
RecheckUnreadable(c) ==
    /\ End(c, {"recheckSession"}, "refused")
    /\ UNCHANGED <<key, prior, seen, before, scanned, after, receiptVars,
                   locks, nativeVars>>

-----------------------------------------------------------------------------
(* The process dies: ctrl+c in the picker, a kill, a power cut that keeps   *)
(* the directory.  Its locks go, its requests to other programs do not.     *)
Crash(p) ==
    LET dead == {c \in Calls : ProcOf[c] = p /\ pc[c] \in Active}
    IN  /\ dead # {}
        /\ pc' = [c \in Calls |-> IF c \in dead THEN "crashed" ELSE pc[c]]
        /\ locks' = locks \ dead
        /\ UNCHANGED <<key, prior, callVars, receiptVars, nativeVars>>

(* External: the provider program acts on a request, now or much later. *)
Store(c) ==
    /\ c \in inflight
    /\ inflight' = inflight \ {c}
    /\ written' = [written EXCEPT ![key[c]] = @ \cup {c}]
    /\ IF Kind[key[c]] = "append"
       THEN /\ file' = Written(Target(c), Append(file[Target(c)].data, key[c]))
            /\ UNCHANGED session
       ELSE /\ session' = [session EXCEPT ![c] = "intact"]
            /\ UNCHANGED file
    /\ UNCHANGED <<key, prior, pc, callVars, receiptVars, locks>>

(* External: it rejects the request, or dies before acting on it. *)
Drop(c) ==
    /\ c \in inflight
    /\ inflight' = inflight \ {c}
    /\ UNCHANGED <<key, prior, pc, callVars, receiptVars, locks, session,
                   file, written>>

(* External: another Codex client continues or rewrites a session file, or  *)
(* adds the same messages as an import.                                     *)
OtherClient(t) ==
    /\ file[t].stamp < MaxStamp
    /\ \/ file' = Written(t, <<"ext">>)
       \/ \E r \in {"ext"} \cup {k \in Twins : TargetOf[k] = t} :
             file' = Written(t, Append(file[t].data, r))
    /\ UNCHANGED <<key, prior, pc, callVars, receiptVars, locks, inflight,
                   session, written>>

(* External: the user goes on with a created session (a provider may        *)
(* rewrite its whole file), edits it, or deletes it.                        *)
UseSession(c) ==
    /\ session[c] # "absent"
    /\ \E to \in Sessions \ {"intact", session[c]} :
           /\ session[c] = "altered" => to = "absent"
           /\ session' = [session EXCEPT ![c] = to]
    /\ UNCHANGED <<key, prior, pc, callVars, receiptVars, locks, inflight,
                   file, written>>

PrepareStep(c) ==
    \/ ReadCommitted(c) \/ ReadPrepared(c) \/ FindPrepared(c)
    \/ CreatePrepared(c) \/ LoseRace(c) \/ PrepareFails(c)
    \/ FillPrepared(c) \/ FillFails(c)

CreateStep(c) ==
    \/ WriteFile(c) \/ WriteFileFails(c) \/ ObserveAfter(c)
    \/ RunCLI(c) \/ CLIConfirms(c) \/ CLIFails(c)

AppendStep(c) ==
    \/ LockPath(c) \/ Observe(c) \/ TargetChanged(c) \/ Handshake(c)
    \/ PreWriteFails(c) \/ Inject(c) \/ InjectConfirmed(c) \/ InjectFails(c)
    \/ Unsubscribe(c) \/ UnsubscribeFails(c) \/ Verify(c) \/ VerifyFails(c)
    \/ Confirm(c) \/ MovedMeanwhile(c)

FinishStep(c) ==
    \/ Release(c) \/ Commit(c) \/ CommitFails(c) \/ RemovePrepared(c)
    \/ RemoveFails(c)

RecheckStep(c) ==
    \/ RecheckSession(c) \/ RecheckFile(c) \/ RecheckFails(c)
    \/ ConfirmFile(c) \/ RecheckMoved(c) \/ RecheckUnreadable(c)

CallStep(c) ==
    \/ PrepareStep(c) \/ CreateStep(c) \/ AppendStep(c)
    \/ FinishStep(c) \/ RecheckStep(c)

Next ==
    \/ \E c \in Calls : Plan(c) \/ Start(c) \/ MissingCLI(c)
    \/ \E c \in Calls : CallStep(c)
    \/ \E p \in Procs : Crash(p)
    \/ \E c \in Calls : Store(c) \/ Drop(c) \/ UseSession(c)
    \/ \E t \in Targets : OtherClient(t)

Spec == Init /\ [][Next]_vars

(* A call runs on its own goroutine, every read, wait and request of it is  *)
(* bounded by a timeout, and the scheduler is fair to it.                   *)
FairSpec == Spec /\ \A c \in Calls : WF_vars(CallStep(c))
-----------------------------------------------------------------------------
(* The calls whose messages are in the native store, or on their way to it. *)
Reached(k) == written[k] \cup {c \in inflight : key[c] = k}

(* What may be in the store is announced: whenever a call's native write     *)
(* happened, or may still happen, a complete receipt on disk says so, across *)
(* errors, late writes and crashes, so no later run can miss it              *)
(* (ApplyImport's order of prepare, write, commit and remove).               *)
IntentCoversWrite ==
    \A k \in Keys : \A c \in Reached(k) :
        committed[k] # NoCall \/ (prepared[k] = c /\ k \notin torn)

(* An error after which showagent lets the import be repeated - a missing    *)
(* CLI, a changed target, errImportNotStarted - is never given by a call     *)
(* whose messages were written or still can be (import.go:255-259).          *)
RetryableIsSafe ==
    \A c \in Calls : outcome[c] \in {"refused", "retryable"} =>
        c \notin Reached(key[c])

(* docs/web-import.md:75-79: repeating the same reviewed content for the     *)
(* same target never writes it a second time, whatever failed before.        *)
AtMostOnce ==
    \A k \in Keys : \A c, d \in Reached(k) : c = d

(* The messages of a call are in the store and not merely on their way.  Of *)
(* messages that another client may write as well nobody can tell whose they *)
(* are: they were found behind what the call had observed.                   *)
Stored(c) ==
    \/ c \in written[key[c]] \ inflight
    \/ key[c] \in Twins /\ Persisted(key[c], before[c].data, scanned[c])

(* A committed receipt, which turns every repetition into a no-op, names an  *)
(* operation whose messages are in the store: an acknowledgement by the      *)
(* provider is not enough (verifyCodexImportPersistence, "Imported           *)
(* session:").                                                               *)
CommittedIsWritten ==
    \A k \in Keys : committed[k] # NoCall =>
        key[committed[k]] = k /\ Stored(committed[k])

(* A successful append kept every record the user saw when reviewing it,     *)
(* in front of the imported messages, although another client may write the  *)
(* file at any time (ObservedRevision, verifyCodexImportPersistence).        *)
ReviewedHistoryKept ==
    \A c \in Calls : outcome[c] = "done" /\ Kind[key[c]] = "append" =>
        Persisted(key[c], seen[c].data, scanned[c])

(* Two successful appends of one process to one session were reviewed        *)
(* against different revisions of it: the later one saw the earlier one      *)
(* (codexImportPathLock with the comparison of ObservedRevision).            *)
SerializedAppends ==
    \A c, d \in Calls :
        /\ c # d
        /\ outcome[c] = "done" /\ outcome[d] = "done"
        /\ Kind[key[c]] = "append" /\ Kind[key[d]] = "append"
        /\ ProcOf[c] = ProcOf[d] /\ Target(c) = Target(d)
        => seen[c] # seen[d]

(* A call that reports a no-op wrote nothing itself, and found the committed *)
(* messages: in a created session that was not altered since its revision   *)
(* was recorded, or in the appended file (verifiedCommittedImport).          *)
NoOpIsTruthful ==
    [][\A c \in Calls :
          LET d == prior[c]
          IN  outcome'[c] = "noop" /\ outcome[c] # "noop" =>
                /\ c \notin Reached(key[c])
                /\ key[d] = key[c] /\ Stored(d)
                /\ IF Kind[key[c]] = "append"
                   THEN Persisted(key[c], seen[d].data, scanned[c])
                   ELSE /\ session[d] # "absent"
                        /\ session[d] = "altered" => after[d] = "altered"
      ]_vars

(* docs/web-import.md:76-77: repeating an import whose session is as it was  *)
(* created becomes a verified no-op, unless the store cannot be read.        *)
RepeatIsNoOp ==
    [][\A c \in Calls :
          /\ pc[c] = "recheckSession" /\ pc'[c] = "ended"
          /\ session[prior[c]] = "intact"
          => outcome'[c] \in {"noop", "refused"}
      ]_vars

(* Every call that started returns to its caller, unless its process dies:   *)
(* no error path keeps the path lock, no wait is without a timeout.          *)
EveryCallReturns ==
    \A c \in Calls : pc[c] \in Active ~> pc[c] \in {"ended", "crashed"}

-----------------------------------------------------------------------------
(* The receipts and the native store, as OnceImport sees them. *)
Phase(k) == IF committed[k] # NoCall THEN "recorded"
            ELSE IF prepared[k] # NoCall THEN "intended" ELSE "fresh"

Once == INSTANCE OnceImport WITH phase <- [k \in Keys |-> Phase(k)]

(* Calls that do not overlap implement the promise. *)
ImplementsOnce == Once!Spec
=============================================================================
