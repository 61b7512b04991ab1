----------------------------- MODULE OnceImport -----------------------------
(***************************************************************************)
(* What an import promises, without saying how: reviewed content (a key)    *)
(* reaches the native store of its target at most once, every native write  *)
(* is announced by an intent recorded before it and is never forgotten, and *)
(* an announcement is withdrawn only while nothing was written.             *)
(*                                                                         *)
(* This is docs/web-import.md:75-79 as a state machine.  Import.tla is the  *)
(* code that implements it.                                                 *)
(***************************************************************************)
CONSTANTS
    Keys,       \* reviewed content together with its destination
    Calls       \* attempts to import, each of which may write

VARIABLES
    phase,      \* phase[k]: what the receipts on disk say about key k
    written     \* written[k]: the attempts whose messages were stored

vars == <<phase, written>>

Phases == {"fresh", "intended", "recorded"}

TypeOK ==
    /\ phase \in [Keys -> Phases]
    /\ written \in [Keys -> SUBSET Calls]

Init ==
    /\ phase = [k \in Keys |-> "fresh"]
    /\ written = [k \in Keys |-> {}]

(* An attempt announces that it is about to write. *)
Intend(k) ==
    /\ phase[k] = "fresh"
    /\ phase' = [phase EXCEPT ![k] = "intended"]
    /\ UNCHANGED written

(* The announcement is withdrawn: nothing was written, a retry is safe. *)
Abandon(k) ==
    /\ phase[k] = "intended"
    /\ written[k] = {}
    /\ phase' = [phase EXCEPT ![k] = "fresh"]
    /\ UNCHANGED written

(* The one native write of the key. *)
Write(k, c) ==
    /\ phase[k] = "intended"
    /\ written[k] = {}
    /\ written' = [written EXCEPT ![k] = {c}]
    /\ UNCHANGED phase

(* The write is recorded for good: a repetition becomes a no-op. *)
Record(k) ==
    /\ phase[k] = "intended"
    /\ written[k] # {}
    /\ phase' = [phase EXCEPT ![k] = "recorded"]
    /\ UNCHANGED written

Next ==
    \E k \in Keys :
        \/ Intend(k)
        \/ Abandon(k)
        \/ \E c \in Calls : Write(k, c)
        \/ Record(k)

Spec == Init /\ [][Next]_vars
=============================================================================
