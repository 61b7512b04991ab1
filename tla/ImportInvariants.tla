-------------------------- MODULE ImportInvariants --------------------------
(***************************************************************************)
(* The inductive invariant of Import: why the receipts announce every write *)
(* (ReceiptInv), why a committed receipt names a stored import (StoreInv),  *)
(* why calls that do not overlap write a key once (SequentialInv), why the  *)
(* appends of a process follow one another (SerialInv), and what a call     *)
(* that repeats an import knows of the first one (RepeatInv).               *)
(* TLC checks it on small instances, ImportProofs proves it.                *)
(***************************************************************************)
EXTENDS Import

Finished == {"ended", "crashed"}

(* A call that holds the prepared receipt of its key is named in it. *)
HolderInv ==
    \A c \in Calls : pc[c] \in Holding \cup {"removePrepared"} =>
        /\ prepared[key[c]] = c
        /\ pc[c] # "fill" => key[c] \notin torn

(* A receipt removed after success leaves the committed one. *)
RemovalInv ==
    \A c \in Calls : pc[c] = "removePrepared" => committed[key[c]] # NoCall

(* Only a call that went past its last safe stage has reached the store; it  *)
(* reached it under its own key, and a complete receipt says so.  A request  *)
(* still under way is announced by the prepared receipt, unless another      *)
(* client's messages have been taken for its own.                            *)
ReachedInv ==
    \A k \in Keys : \A c \in Reached(k) :
        /\ key[c] = k
        /\ pc[c] \in MayHaveWritten \cup {"removePrepared"} \cup Finished
        /\ outcome[c] \notin {"refused", "retryable"}
        /\ committed[k] # NoCall \/ (prepared[k] = c /\ k \notin torn)
        /\ c \in inflight =>
              /\ c \notin written[k]
              /\ k \in Twins \/ (prepared[k] = c /\ k \notin torn)

OutcomeInv ==
    \A c \in Calls : outcome[c] # "none" => pc[c] = "ended"

ReceiptInv == HolderInv /\ RemovalInv /\ ReachedInv /\ OutcomeInv

(* A stage is reached only by calls of the matching kind. *)
AppendStages == LockedStages \cup {"lockPath"}
KindInv ==
    \A c \in Calls :
        /\ pc[c] \in AppendStages => Kind[key[c]] = "append"
        /\ pc[c] \in {"writeFile", "observeAfter"} => Kind[key[c]] = "file"
        /\ pc[c] \in {"runCLI", "awaitCLI"} => Kind[key[c]] = "cli"

(* While a call works on a session file, its messages appear there after    *)
(* the records it observed only if it wrote them itself, or others may.      *)
Watching == LockedStages \ {"observe"}
DataInv ==
    \A c \in Calls : pc[c] \in Watching =>
        \A i \in Len(before[c].data) + 1 .. Len(file[Target(c)].data) :
            file[Target(c)].data[i] = key[c] =>
                c \in written[key[c]] \/ key[c] \in Twins

(* Verified means written, and is about what the user reviewed. *)
Verified(c) ==
    /\ pc[c] \in {"observeAfter", "confirm", "commit", "removePrepared"}
         \/ outcome[c] = "done" => c \in written[key[c]] \/ key[c] \in Twins
    /\ pc[c] \in Watching => before[c] = seen[c]
    /\ Kind[key[c]] = "append" /\
         (pc[c] \in {"confirm", "commit", "removePrepared"}
            \/ outcome[c] = "done")
         => before[c] = seen[c] /\ Persisted(key[c], seen[c].data, scanned[c])

VerifiedInv == \A c \in Calls : Verified(c)

(* A call that committed its receipt does nothing any more that could make  *)
(* it untrue.                                                               *)
Recorded(c) ==
    /\ Stored(c)
    /\ pc[c] \in {"removePrepared"} \cup Finished
    /\ Kind[key[c]] = "append" => before[c] = seen[c]

RecordedInv ==
    \A k \in Keys : committed[k] # NoCall =>
        key[committed[k]] = k /\ Recorded(committed[k])

StoreInv == KindInv /\ DataInv /\ VerifiedInv /\ RecordedInv

(* Without overlap, nobody disturbs a call between its reads of the receipts *)
(* and its own receipt, and a key it writes has never been written.          *)
SequentialInv ==
    ~Concurrent =>
        /\ \A c, d \in Calls : pc[c] \in Active /\ pc[d] \in Active => c = d
        /\ \A c \in Calls :
              /\ pc[c] \in {"readPrepared", "create"} \cup Holding =>
                    committed[key[c]] = NoCall
              /\ pc[c] = "create" => prepared[key[c]] = NoCall
              /\ pc[c] \in Holding => Reached(key[c]) \subseteq {c}
        /\ AtMostOnce

(* The path lock is held exactly while a call works on a session file, and  *)
(* keeps the other calls of its process away from that file.                *)
LockInv ==
    /\ \A c \in Calls : c \in locks <=> pc[c] \in LockedStages
    /\ \A c, d \in locks :
          ProcOf[c] = ProcOf[d] /\ Target(c) = Target(d) => c = d

(* An append that gave its lock back after its verification. *)
Settled(c) ==
    /\ Kind[key[c]] = "append"
    /\ pc[c] \in {"commit", "removePrepared"} \/ outcome[c] = "done"

(* Every write leaves a newer revision: an append that is in the file, or    *)
(* was found there, makes it newer than what its user reviewed.              *)
StampInv ==
    \A c \in Calls :
        /\ seen[c].stamp <= file[Target(c)].stamp
        /\ seen[c].stamp = file[Target(c)].stamp => seen[c] = file[Target(c)]
        /\ (c \in written[key[c]] /\ Kind[key[c]] = "append")
             \/ pc[c] = "confirm" \/ Settled(c)
             => seen[c].stamp < file[Target(c)].stamp

(* Whoever of the same process comes to the file later reviewed it later.   *)
OrderInv ==
    \A c, d \in Calls :
        /\ c # d /\ ProcOf[c] = ProcOf[d] /\ Target(c) = Target(d)
        /\ Settled(c) /\ (Settled(d) \/ pc[d] \in Watching)
        => seen[c] # seen[d]

SerialInv == LockInv /\ StampInv /\ OrderInv

(* A call that checks an import again holds the receipt of one that is in   *)
(* the store; what it scanned follows what was reviewed then.               *)
RepeatInv ==
    \A c \in Calls :
        /\ pc[c] \in {"recheckSession", "recheckFile", "confirmFile"} =>
              /\ prior[c] \in Calls /\ key[prior[c]] = key[c]
              /\ Recorded(prior[c])
        /\ pc[c] \in {"recheckFile", "confirmFile"} => Kind[key[c]] = "append"
        /\ pc[c] = "recheckSession" => Kind[key[c]] # "append"
        /\ pc[c] = "confirmFile" =>
              Persisted(key[c], seen[prior[c]].data, scanned[c])

IInv ==
    TypeOK /\ ReceiptInv /\ StoreInv /\ SequentialInv /\ SerialInv /\ RepeatInv
=============================================================================
