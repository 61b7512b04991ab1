------------------------------ MODULE CodexRpc ------------------------------
(***************************************************************************)
(* codexImportRPCClient (src/internal/session/import_codex.go:322-516): one *)
(* client of `codex app-server --stdio`, from its start to its close, as    *)
(* applyCodexContextImport drives it.                                       *)
(*                                                                         *)
(* Four goroutines share a client: the caller sends a request, waits for    *)
(* its answer and sends the next one; the reader moves lines from the       *)
(* server's stdout to a channel of limited capacity; the waiter closes      *)
(* `done` when the server has gone; and the command's context kills the     *)
(* server when the time for the whole import is over.  The server is        *)
(* another program: it may answer late or never, send notifications and     *)
(* requests of its own, which it numbers as it likes, stop reading, or exit. *)
(***************************************************************************)
EXTENDS Naturals, Sequences

CONSTANTS
    Capacity,   \* of the channel `responses` (64)
    PipeSize,   \* lines that fit in the stdin and in the stdout pipe
    MaxNoise    \* bound: lines of the server that answer nothing

ASSUME SizesAssumption ==
    Capacity \in Nat \ {0} /\ PipeSize \in Nat \ {0} /\ MaxNoise \in Nat

(* The requests in the order of applyCodexContextImport.  Their number is   *)
(* their id; 0 stands for the notification "initialized" and, in stdout,    *)
(* for a line without an id, or with one that no request has.               *)
Initialize == 1
Read == 2
Resume == 3
InjectItems == 4
Unsubscribe == 5
Ids == 1..Unsubscribe

VARIABLES
    pc,         \* where the caller is
    id,         \* nextID: the number of the last request
    result,     \* what each call returned
    stdin,      \* lines on their way to the server
    stdout,     \* lines on their way to the reader
    server,     \* is the app-server "up"?
    received,   \* requests the server has read
    answer,     \* history: how the server answered each request
    asked,      \* history: the numbers of the server's own requests
    noise,      \* lines so far that answer nothing
    reader,     \* where the reader goroutine is
    held,       \* the line it is publishing
    responses,  \* the channel
    done,       \* closed by the waiter goroutine
    expired     \* the context of the whole import is done

serverVars == <<server, received, answer, asked, noise>>
readerVars == <<reader, held>>
vars == <<pc, id, result, stdin, stdout, serverVars, readerVars, responses,
          done, expired>>

Answers == {"ok", "error"}
Lines == [id : {0} \cup Ids, what : Answers \cup {"request", "garbage"}]
Failure == [id |-> 0, what |-> "failed"]    \* codexImportRPCRead{err: ...}
Reads == Lines \cup {Failure}

TypeOK ==
    /\ pc \in {"ready", "writing", "waiting", "notify", "closing", "killed",
               "closed"}
    /\ id \in {0} \cup Ids
    /\ result \in [Ids -> Answers \cup {"empty", "none", "failed", "timeout",
                                        "exited"}]
    /\ stdin \in Seq({0} \cup Ids) /\ Len(stdin) <= PipeSize
    /\ stdout \in Seq(Lines) /\ Len(stdout) <= PipeSize
    /\ server \in {"up", "exited"}
    /\ received \in SUBSET Ids
    /\ answer \in [Ids -> Answers \cup {"none"}]
    /\ asked \in SUBSET Ids
    /\ noise \in 0..MaxNoise
    /\ reader \in {"scan", "publish", "ended"}
    /\ held \in Reads
    /\ responses \in Seq(Reads) /\ Len(responses) <= Capacity
    /\ done \in BOOLEAN
    /\ expired \in BOOLEAN

(* startCodexImportClient *)
Init ==
    /\ pc = "ready"
    /\ id = 0
    /\ result = [i \in Ids |-> "none"]
    /\ stdin = <<>>
    /\ stdout = <<>>
    /\ server = "up"
    /\ received = {}
    /\ answer = [i \in Ids |-> "none"]
    /\ asked = {}
    /\ noise = 0
    /\ reader = "scan"
    /\ held = Failure
    /\ responses = <<>>
    /\ done = FALSE
    /\ expired = FALSE

(* close(client.finished) is the first thing closeClient does. *)
Finished == pc \in {"closing", "killed", "closed"}

-----------------------------------------------------------------------------
(* Wrong on purpose: an error of the handshake is not looked at. *)
FollowingBlindly(i, r) ==
    CASE i = Initialize -> {"notify"}
      [] i \in Read..InjectItems -> {"ready"}
      [] OTHER -> {"closing"}

(* What applyCodexContextImport does when request i came back with r: every *)
(* error ends the exchange, but an injection is followed by unsubscribe.    *)
(* The answers to thread/read and thread/resume must name the target        *)
(* (verifyCodexRPCThread); no other result is looked at.                    *)
Following(i, r) ==
    CASE r \in {"ok", "empty"} /\ i = Initialize -> {"notify"}
      [] r = "ok" /\ i \in Read..Resume -> {"ready", "closing"}
      [] i = InjectItems -> {"ready"}
      [] OTHER -> {"closing"}

(* call returns. *)
Return(r) ==
    /\ result' = [result EXCEPT ![id] = r]
    /\ pc' \in Following(id, r)

BeginCall ==
    /\ pc = "ready"
    /\ pc' = "writing"
    /\ id' = id + 1
    /\ UNCHANGED <<result, stdin, stdout, serverVars, readerVars, responses,
                   done, expired>>

(* client.stdin.Write blocks while the pipe is full. *)
Write ==
    /\ pc = "writing"
    /\ server = "up" /\ Len(stdin) < PipeSize
    /\ stdin' = Append(stdin, id)
    /\ pc' = "waiting"
    /\ UNCHANGED <<id, result, stdout, serverVars, readerVars, responses,
                   done, expired>>

WriteFails ==
    /\ pc = "writing"
    /\ server = "exited"
    /\ Return("failed")
    /\ UNCHANGED <<id, stdin, stdout, serverVars, readerVars, responses, done,
                   expired>>

(* codexImportRPCResponse has an id, a result and an error, but no method:  *)
(* a request of the server's is read as a success without a result.         *)
Decoded(line) == IF line.what = "request" THEN "empty" ELSE line.what

(* Wrong on purpose: the id of the answer is not compared. *)
ReceiveAny ==
    /\ pc = "waiting"
    /\ responses # <<>>
    /\ LET read == Head(responses)
       IN  IF read = Failure THEN Return("failed") ELSE Return(Decoded(read))
    /\ responses' = Tail(responses)
    /\ UNCHANGED <<id, stdin, stdout, serverVars, readerVars, done, expired>>

(* case read := <-client.responses: only a line with the number of this     *)
(* request ends it.                                                         *)
Receive ==
    /\ pc = "waiting"
    /\ responses # <<>>
    /\ LET read == Head(responses)
       IN  CASE read = Failure -> Return("failed")
             [] read # Failure /\ read.id # id -> UNCHANGED <<pc, result>>
             [] OTHER -> Return(Decoded(read))
    /\ responses' = Tail(responses)
    /\ UNCHANGED <<id, stdin, stdout, serverVars, readerVars, done, expired>>

(* case <-client.done *)
SeeExit ==
    /\ pc = "waiting"
    /\ done
    /\ Return("exited")
    /\ UNCHANGED <<id, stdin, stdout, serverVars, readerVars, responses, done,
                   expired>>

(* case <-callCtx.Done(): 10 seconds for this request, or no time is left.  *)
TimeOut ==
    /\ pc = "waiting"
    /\ Return("timeout")
    /\ UNCHANGED <<id, stdin, stdout, serverVars, readerVars, responses, done,
                   expired>>

(* notify("initialized") *)
Notify ==
    /\ pc = "notify"
    /\ \/ /\ server = "up" /\ Len(stdin) < PipeSize
          /\ stdin' = Append(stdin, 0)
          /\ pc' = "ready"
       \/ /\ server = "exited"
          /\ pc' = "closing"
          /\ UNCHANGED stdin
    /\ UNCHANGED <<id, result, stdout, serverVars, readerVars, responses, done,
                   expired>>

(* closeClient: two waits of two seconds, a kill between them. *)
SeeDone ==
    /\ pc \in {"closing", "killed"}
    /\ done
    /\ pc' = "closed"
    /\ UNCHANGED <<id, result, stdin, stdout, serverVars, readerVars,
                   responses, done, expired>>

(* Wrong on purpose: the server is left running. *)
CloseWaits ==
    /\ pc = "closing"
    /\ pc' = "killed"
    /\ UNCHANGED <<id, result, stdin, stdout, serverVars, readerVars,
                   responses, done, expired>>

CloseKills ==
    /\ pc = "closing"
    /\ pc' = "killed"
    /\ server' = "exited"
    /\ UNCHANGED <<id, result, stdin, stdout, received, answer, asked, noise,
                   readerVars, responses, done, expired>>

GiveUp ==
    /\ pc = "killed"
    /\ pc' = "closed"
    /\ UNCHANGED <<id, result, stdin, stdout, serverVars, readerVars,
                   responses, done, expired>>

-----------------------------------------------------------------------------
(* client.read.  A line that is no JSON, or too long, ends it with an error. *)
Scan ==
    /\ reader = "scan"
    /\ stdout # <<>>
    /\ held' = IF Head(stdout).what = "garbage" THEN Failure ELSE Head(stdout)
    /\ stdout' = Tail(stdout)
    /\ reader' = "publish"
    /\ UNCHANGED <<pc, id, result, stdin, serverVars, responses, done, expired>>

ScanEnds ==
    /\ reader = "scan"
    /\ server = "exited" /\ stdout = <<>>
    /\ reader' = "ended"
    /\ UNCHANGED <<pc, id, result, stdin, stdout, serverVars, held, responses,
                   done, expired>>

(* command.Wait closed the pipe before the reader came to its end: what was *)
(* still in it is lost.                                                     *)
ScanFails ==
    /\ reader = "scan"
    /\ done
    /\ held' = Failure
    /\ reader' = "publish"
    /\ stdout' = <<>>
    /\ UNCHANGED <<pc, id, result, stdin, serverVars, responses, done, expired>>

(* Wrong on purpose: a channel without a limit. *)
PublishUnbounded ==
    /\ reader = "publish"
    /\ responses' = Append(responses, held)
    /\ reader' = IF held = Failure THEN "ended" ELSE "scan"
    /\ UNCHANGED <<pc, id, result, stdin, stdout, serverVars, held, done,
                   expired>>

(* Wrong on purpose: a full channel drops the line. *)
PublishOrDrop ==
    /\ reader = "publish"
    /\ responses' = IF Len(responses) < Capacity
                    THEN Append(responses, held) ELSE responses
    /\ reader' = IF held = Failure THEN "ended" ELSE "scan"
    /\ UNCHANGED <<pc, id, result, stdin, stdout, serverVars, held, done,
                   expired>>

(* publish: to the channel, or nowhere once the client is finished. *)
Publish ==
    /\ reader = "publish"
    /\ Len(responses) < Capacity
    /\ responses' = Append(responses, held)
    /\ reader' = IF held = Failure THEN "ended" ELSE "scan"
    /\ UNCHANGED <<pc, id, result, stdin, stdout, serverVars, held, done,
                   expired>>

(* Wrong on purpose: publish does not watch `finished` while it waits. *)
StopWithRoom ==
    /\ reader = "publish"
    /\ Finished /\ Len(responses) < Capacity
    /\ reader' = "ended"
    /\ UNCHANGED <<pc, id, result, stdin, stdout, serverVars, held, responses,
                   done, expired>>

StopPublishing ==
    /\ reader = "publish"
    /\ Finished
    /\ reader' = "ended"
    /\ UNCHANGED <<pc, id, result, stdin, stdout, serverVars, held, responses,
                   done, expired>>

(* command.Wait returned; it also waits for every writer of stderr. *)
WaitReturns ==
    /\ server = "exited" /\ ~done
    /\ done' = TRUE
    /\ UNCHANGED <<pc, id, result, stdin, stdout, serverVars, readerVars,
                   responses, expired>>

(* importContext ends: 30 seconds, the caller's deadline, or cancel(). *)
Expire ==
    /\ ~expired
    /\ expired' = TRUE
    /\ UNCHANGED <<pc, id, result, stdin, stdout, serverVars, readerVars,
                   responses, done>>

(* Wrong on purpose: the command is not bound to the context. *)
ContextKillsLate ==
    /\ expired /\ server = "up" /\ Finished
    /\ server' = "exited"
    /\ UNCHANGED <<pc, id, result, stdin, stdout, received, answer, asked, noise,
                   readerVars, responses, done, expired>>

(* exec.CommandContext *)
ContextKills ==
    /\ expired /\ server = "up"
    /\ server' = "exited"
    /\ UNCHANGED <<pc, id, result, stdin, stdout, received, answer, asked, noise,
                   readerVars, responses, done, expired>>

-----------------------------------------------------------------------------
(* External: the app-server. *)
ServerReads ==
    /\ server = "up" /\ stdin # <<>>
    /\ received' = received \cup ({Head(stdin)} \ {0})
    /\ stdin' = Tail(stdin)
    /\ UNCHANGED <<pc, id, result, stdout, server, answer, asked, noise,
                   readerVars, responses, done, expired>>

ServerAnswers ==
    /\ server = "up" /\ Len(stdout) < PipeSize
    /\ \E i \in received, what \in Answers :
           /\ answer[i] = "none"
           /\ answer' = [answer EXCEPT ![i] = what]
           /\ stdout' = Append(stdout, [id |-> i, what |-> what])
    /\ UNCHANGED <<pc, id, result, stdin, server, received, asked, noise,
                   readerVars, responses, done, expired>>

(* A notification or a request of its own, or something that is no JSON. *)
ServerTalks ==
    /\ server = "up" /\ Len(stdout) < PipeSize
    /\ noise < MaxNoise
    /\ noise' = noise + 1
    /\ \E line \in [id : {0} \cup Ids, what : {"request"}]
                      \cup {[id |-> 0, what |-> "garbage"]} :
           /\ stdout' = Append(stdout, line)
           /\ asked' = asked \cup ({line.id} \ {0})
    /\ UNCHANGED <<pc, id, result, stdin, server, received, answer, readerVars,
                   responses, done, expired>>

ServerExits ==
    /\ server = "up"
    /\ server' = "exited"
    /\ UNCHANGED <<pc, id, result, stdin, stdout, received, answer, asked, noise,
                   readerVars, responses, done, expired>>

CallerStep ==
    \/ BeginCall \/ Write \/ WriteFails \/ Receive \/ SeeExit \/ TimeOut
    \/ Notify \/ SeeDone \/ CloseKills \/ GiveUp
ReaderStep == Scan \/ ScanEnds \/ ScanFails \/ Publish \/ StopPublishing
ContextStep == Expire \/ ContextKills
ServerStep == ServerReads \/ ServerAnswers \/ ServerTalks \/ ServerExits

Next == CallerStep \/ ReaderStep \/ WaitReturns \/ ContextStep \/ ServerStep

Spec == Init /\ [][Next]_vars

(* The runtime is fair to the caller and every timer fires: the one of the  *)
(* request, the one of the close, the deadline of the context.  Nothing is  *)
(* expected of the server, of the reader or of command.Wait.                *)
FairSpec == Spec /\ WF_vars(CallerStep) /\ WF_vars(Expire) /\ WF_vars(ContextKills)

-----------------------------------------------------------------------------
(* A call that returns a result or an error returns the server's answer to   *)
(* its own request: no notification and no late answer to an earlier request *)
(* is taken for it.  A success without a result may also come of a request   *)
(* that the server made under the same number, and of nothing else           *)
(* (rpcResponseIDEquals, call).                                              *)
OwnAnswer ==
    \A i \in Ids : /\ result[i] \in Answers => result[i] = answer[i]
                   /\ result[i] = "empty" => i \in asked

(* import_codex.go:439-440: "Notifications and server-initiated messages are *)
(* unrelated to the one sequential import request currently in flight", and  *)
(* are skipped.  One with the number of that request is not.                 *)
ServerRequestsSkipped == \A i \in Ids : result[i] # "empty"

(* Messages are injected only when every earlier request succeeded, and the  *)
(* server itself has answered that it found and resumed the thread, whatever *)
(* requests of its own it made: after any earlier failure nothing was or     *)
(* will be injected, which is what makes codexImportPreWriteError retryable. *)
InjectedAfterResume ==
    InjectItems \in received \cup {stdin[n] : n \in DOMAIN stdin} =>
        /\ result[Initialize] \in {"ok", "empty"}
        /\ \A i \in Read..Resume : result[i] = "ok" /\ answer[i] = "ok"

(* The answer a caller is waiting for is never dropped on its way, however   *)
(* full the channel and the pipes are, while the client is in one piece      *)
(* (publish blocks instead of skipping).                                     *)
Underway ==
    {stdout[n] : n \in DOMAIN stdout} \cup {responses[n] : n \in DOMAIN responses}
       \cup IF reader = "publish" THEN {held} ELSE {}
AnswerArrives ==
    /\ pc = "waiting" /\ answer[id] # "none"
    /\ reader # "ended" /\ ~done
    => [id |-> id, what |-> answer[id]] \in Underway

(* When close has returned the app-server is gone, so the file is verified   *)
(* without a server that could still write to it (closeClient).              *)
ServerGone == pc = "closed" => server = "exited"

(* The exchange always comes to its end, even with a server that stops       *)
(* reading while the reader waits for room in the channel.                   *)
CallerReturns == <>(pc = "closed")

(* The reader goroutine does not outlive the client for ever: if it is       *)
(* scheduled, and command.Wait returns after the exit of the server, it ends *)
(* although nobody takes lines out of the channel (publish with `finished`). *)
ReaderEnds ==
    WF_vars(ReaderStep) /\ WF_vars(WaitReturns) => <>(reader = "ended")

-----------------------------------------------------------------------------
(* The inductive invariant.  A line with an id is what the server answered, *)
(* or asked, wherever it is, ...                                            *)
Genuine(line) ==
    line.id # 0 => IF line.what = "request" THEN line.id \in asked
                                            ELSE line.what = answer[line.id]
LinesInv ==
    /\ \A n \in DOMAIN stdout : Genuine(stdout[n])
    /\ \A n \in DOMAIN responses : Genuine(responses[n])
    /\ Genuine(held)

(* ... a request is sent only after the ones of the handshake succeeded, ... *)
OrderInv ==
    /\ \A i \in 1..Resume :
          i < id \/ (i = id /\ pc \in {"ready", "notify"}) =>
             result[i] = "ok" \/ (i = Initialize /\ result[i] = "empty")
    /\ \A n \in DOMAIN stdin : stdin[n] <= id
    /\ \A i \in received : i <= id
    /\ pc = "ready" => id < Unsubscribe
    /\ pc = "notify" => id = Initialize
    /\ pc \in {"writing", "waiting"} => id # 0

(* ... only a server that is gone is given up, ...                          *)
GoneInv ==
    pc \in {"killed", "closed"} \/ done => server = "exited"

(* ... and nothing is answered before it was sent.                          *)
FreshInv ==
    /\ \A i \in Ids : answer[i] # "none" => i \in received
    /\ pc = "writing" =>
          id \notin received /\ \A n \in DOMAIN stdin : stdin[n] # id

IInv ==
    /\ TypeOK /\ LinesInv /\ OrderInv /\ GoneInv /\ FreshInv
    /\ OwnAnswer /\ AnswerArrives
=============================================================================
