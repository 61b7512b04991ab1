---------------------------- MODULE ImportProofs ----------------------------
(***************************************************************************)
(* Import for every number of calls, keys, targets and processes; and calls *)
(* that do not overlap implement OnceImport: the receipt files are its      *)
(* phases, and every call keeps its promise through errors, late answers of *)
(* the provider programs and crashes.                                       *)
(***************************************************************************)
EXTENDS ImportInvariants, TLAPS

(* A write to a session file is a revision again. *)
LEMMA WrittenType ==
  ASSUME TypeOK, NEW t \in Targets, NEW data \in Seq(Records)
  PROVE  Written(t, data) \in [Targets -> Revisions]
  BY DEF TypeOK, Written, Revisions

(* The target of a call is a session file. *)
LEMMA TargetType ==
  ASSUME TypeOK, NEW c \in Calls
  PROVE  Target(c) \in Targets /\ file[Target(c)].data \in Seq(Records)
  BY ConstantsAssumption DEF TypeOK, Target, Revisions

(* The initial state is well typed. *)
LEMMA TypeCorrectInit == Init => TypeOK
  BY ConstantsAssumption DEF Init, TypeOK, FirstRevision, Revisions, Records, Stages, Outcomes, Sessions

(* Every step keeps every variable in its type. *)
LEMMA TypeStep ==
  ASSUME TypeOK, [Next]_vars
  PROVE  TypeOK'
<1> USE ConstantsAssumption
<1> USE DEF TypeOK, Goto, End, callVars, receiptVars, nativeVars, Stages, Active,
            Holding, BeforeWrite, MayHaveWritten, Outcomes
<1>1. CASE \E c \in Calls : Plan(c)
  BY <1>1 DEF Plan, Target
<1>2. CASE \E c \in Calls : Start(c)
  BY <1>2 DEF Start
<1>3. CASE \E c \in Calls : MissingCLI(c)
  BY <1>3 DEF MissingCLI
<1>4. CASE \E c \in Calls : ReadCommitted(c)
  BY <1>4 DEF ReadCommitted, Recheck
<1>5. CASE \E c \in Calls : ReadPrepared(c)
  BY <1>5 DEF ReadPrepared
<1>6. CASE \E c \in Calls : FindPrepared(c)
  BY <1>6 DEF FindPrepared
<1>7. CASE \E c \in Calls : CreatePrepared(c)
  <2> SUFFICES ASSUME NEW c \in Calls, CreatePrepared(c) PROVE TypeOK'
    BY <1>7
  <2>1. prepared' \in [Keys -> Calls \cup {NoCall}] /\ torn' \in SUBSET Keys
    BY DEF CreatePrepared
  <2>2. \E to \in {"fill", "readCommitted"} : pc' = [pc EXCEPT ![c] = to]
    BY DEF CreatePrepared
  <2> QED
    BY <2>1, <2>2 DEF CreatePrepared
<1>8. CASE \E c \in Calls : LoseRace(c)
  BY <1>8 DEF LoseRace
<1>9. CASE \E c \in Calls : PrepareFails(c)
  BY <1>9 DEF PrepareFails
<1>10. CASE \E c \in Calls : FillPrepared(c)
  BY <1>10 DEF FillPrepared, NativeStage
<1>11. CASE \E c \in Calls : FillFails(c)
  <2> SUFFICES ASSUME NEW c \in Calls, FillFails(c) PROVE TypeOK'
    BY <1>11
  <2>1. prepared' \in [Keys -> Calls \cup {NoCall}] /\ torn' \in SUBSET Keys
    BY DEF FillFails
  <2> QED
    BY <2>1 DEF FillFails
<1>12. CASE \E c \in Calls : WriteFile(c)
  BY <1>12 DEF WriteFile, Sessions
<1>13. CASE \E c \in Calls : WriteFileFails(c)
  BY <1>13 DEF WriteFileFails
<1>14. CASE \E c \in Calls : ObserveAfter(c)
  BY <1>14 DEF ObserveAfter, Sessions
<1>15. CASE \E c \in Calls : RunCLI(c)
  BY <1>15 DEF RunCLI
<1>16. CASE \E c \in Calls : CLIConfirms(c)
  BY <1>16 DEF CLIConfirms
<1>17. CASE \E c \in Calls : CLIFails(c)
  BY <1>17 DEF CLIFails
<1>18. CASE \E c \in Calls : LockPath(c)
  BY <1>18 DEF LockPath
<1>19. CASE \E c \in Calls : Observe(c)
  BY <1>19 DEF Observe, Target
<1>20. CASE \E c \in Calls : TargetChanged(c)
  BY <1>20 DEF TargetChanged, ReturnFrom
<1>21. CASE \E c \in Calls : Handshake(c)
  BY <1>21 DEF Handshake
<1>22. CASE \E c \in Calls : PreWriteFails(c)
  BY <1>22 DEF PreWriteFails, ReturnFrom
<1>23. CASE \E c \in Calls : Inject(c)
  BY <1>23 DEF Inject
<1>24. CASE \E c \in Calls : InjectConfirmed(c)
  BY <1>24 DEF InjectConfirmed
<1>25. CASE \E c \in Calls : InjectFails(c)
  BY <1>25 DEF InjectFails, ReturnFrom
<1>26. CASE \E c \in Calls : Unsubscribe(c)
  BY <1>26 DEF Unsubscribe
<1>27. CASE \E c \in Calls : UnsubscribeFails(c)
  BY <1>27 DEF UnsubscribeFails, ReturnFrom
<1>28. CASE \E c \in Calls : Verify(c)
  BY <1>28 DEF Verify, Target, Revisions
<1>29. CASE \E c \in Calls : VerifyFails(c)
  BY <1>29 DEF VerifyFails, ReturnFrom
<1>30. CASE \E c \in Calls : Confirm(c)
  BY <1>30 DEF Confirm, ReturnFrom
<1>31. CASE \E c \in Calls : MovedMeanwhile(c)
  BY <1>31 DEF MovedMeanwhile, ReturnFrom
<1>32. CASE \E c \in Calls : Release(c)
  <2> SUFFICES ASSUME NEW c \in Calls, Release(c) PROVE TypeOK'
    BY <1>32
  <2>1. prepared' \in [Keys -> Calls \cup {NoCall}]
    BY DEF Release
  <2> QED
    BY <2>1 DEF Release
<1>33. CASE \E c \in Calls : Commit(c)
  BY <1>33 DEF Commit
<1>34. CASE \E c \in Calls : CommitFails(c)
  BY <1>34 DEF CommitFails
<1>35. CASE \E c \in Calls : RemovePrepared(c)
  BY <1>35 DEF RemovePrepared
<1>36. CASE \E c \in Calls : RemoveFails(c)
  BY <1>36 DEF RemoveFails
<1>37. CASE \E c \in Calls : RecheckSession(c)
  BY <1>37 DEF RecheckSession
<1>38. CASE \E c \in Calls : RecheckFile(c)
  <2> SUFFICES ASSUME NEW c \in Calls, RecheckFile(c) PROVE TypeOK'
    BY <1>38
  <2>1. scanned' \in [Calls -> Seq(Records)]
  <3>1. file[Target(c)].data \in Seq(Records)
      BY TargetType
  <3> QED
      BY <3>1 DEF RecheckFile
  <2> QED
    BY <2>1 DEF RecheckFile
<1>39. CASE \E c \in Calls : RecheckFails(c)
  BY <1>39 DEF RecheckFails
<1>40. CASE \E c \in Calls : ConfirmFile(c)
  BY <1>40 DEF ConfirmFile
<1>41. CASE \E c \in Calls : RecheckMoved(c)
  BY <1>41 DEF RecheckMoved
<1>42. CASE \E c \in Calls : RecheckUnreadable(c)
  BY <1>42 DEF RecheckUnreadable
<1>43. CASE \E c \in Calls : Store(c)
  <2> SUFFICES ASSUME NEW c \in Calls, Store(c) PROVE TypeOK'
    BY <1>43
  <2>1. Append(file[Target(c)].data, key[c]) \in Seq(Records)
    BY TargetType DEF Records
  <2>2. file' \in [Targets -> Revisions]
  <3>1. Written(Target(c), Append(file[Target(c)].data, key[c])) \in [Targets -> Revisions]
      BY <2>1, TargetType, WrittenType
  <3> QED
      BY <3>1 DEF Store
  <2> QED
    BY <2>2 DEF Store, Sessions
<1>44. CASE \E c \in Calls : Drop(c)
  BY <1>44 DEF Drop
<1>45. CASE \E c \in Calls : UseSession(c)
  BY <1>45 DEF UseSession, Sessions
<1>46. CASE \E p \in Procs : Crash(p)
  BY <1>46 DEF Crash
<1>47. CASE \E t \in Targets : OtherClient(t)
  <2> SUFFICES ASSUME NEW t \in Targets, OtherClient(t) PROVE TypeOK'
    BY <1>47
  <2>1. file[t].data \in Seq(Records) /\ {"ext"} \cup Twins \subseteq Records
    BY DEF Revisions, Records
  <2>2. <<"ext">> \in Seq(Records)
        /\ \A r \in Records : Append(file[t].data, r) \in Seq(Records)
    BY <2>1
  <2>3. file' \in [Targets -> Revisions]
    <3>1. CASE file' = Written(t, <<"ext">>)
      BY <2>2, <3>1, WrittenType
    <3>2. ASSUME NEW r \in {"ext"} \cup {k \in Twins : TargetOf[k] = t},
                 file' = Written(t, Append(file[t].data, r))
          PROVE  file' \in [Targets -> Revisions]
      <4>1. Append(file[t].data, r) \in Seq(Records)
        BY <2>1, <2>2
      <4> QED
        BY <3>2, <4>1, WrittenType
    <3> QED
      BY <3>1, <3>2 DEF OtherClient
  <2> QED
    BY <2>3 DEF OtherClient
<1>48. CASE UNCHANGED vars
  BY <1>48 DEF vars
<1> QED
  BY <1>1, <1>2, <1>3, <1>4, <1>5, <1>6, <1>7, <1>8, <1>9, <1>10, <1>11, <1>12, <1>13, <1>14, <1>15, <1>16, <1>17, <1>18, <1>19, <1>20, <1>21, <1>22, <1>23, <1>24, <1>25, <1>26, <1>27, <1>28, <1>29, <1>30, <1>31, <1>32, <1>33, <1>34, <1>35, <1>36, <1>37, <1>38, <1>39, <1>40, <1>41, <1>42, <1>43, <1>44, <1>45, <1>46, <1>47, <1>48 DEF Next, CallStep, PrepareStep, CreateStep, AppendStep, FinishStep, RecheckStep

(* Type correctness: no stage, receipt or record outside the ones named. *)
THEOREM TypeCorrect == Spec => []TypeOK
  BY TypeCorrectInit, TypeStep, PTL DEF Spec

-----------------------------------------------------------------------------
(* Only its owner removes a prepared receipt. *)
LEMMA HolderStep ==
  ASSUME TypeOK, HolderInv, [Next]_vars
  PROVE  HolderInv'
<1> USE ConstantsAssumption DEF Goto, End, callVars, receiptVars, nativeVars,
           TypeOK, HolderInv, Holding, BeforeWrite, MayHaveWritten
<1>1. CASE \E c \in Calls : Plan(c) \/ Start(c) \/ MissingCLI(c)
  BY <1>1 DEF Plan, Start, MissingCLI
<1>2. CASE \E c \in Calls : PrepareStep(c)
  BY <1>2 DEF PrepareStep, ReadCommitted, ReadPrepared, FindPrepared,
     CreatePrepared, LoseRace, PrepareFails, FillPrepared, FillFails,
     Recheck, NativeStage
<1>3. CASE \E c \in Calls : CreateStep(c)
  BY <1>3 DEF CreateStep, WriteFile, WriteFileFails, ObserveAfter, RunCLI,
     CLIConfirms, CLIFails
<1>4. CASE \E c \in Calls : AppendStep(c)
  BY <1>4 DEF AppendStep, LockPath, Observe, TargetChanged, Handshake,
     PreWriteFails, Inject, InjectConfirmed, InjectFails, Unsubscribe,
     UnsubscribeFails, Verify, VerifyFails, Confirm, MovedMeanwhile,
     ReturnFrom
<1>5. CASE \E c \in Calls : FinishStep(c)
  BY <1>5 DEF FinishStep, Release, Commit, CommitFails, RemovePrepared,
     RemoveFails, OwnPrepared
<1>6. CASE \E c \in Calls : RecheckStep(c)
  BY <1>6 DEF RecheckStep, RecheckSession, RecheckFile, RecheckFails,
     ConfirmFile, RecheckMoved, RecheckUnreadable
<1>7. CASE \E p \in Procs : Crash(p)
  BY <1>7 DEF Crash, Active
<1>8. CASE \E c \in Calls : Store(c) \/ Drop(c) \/ UseSession(c)
  BY <1>8 DEF Store, Drop, UseSession
<1>9. CASE \E t \in Targets : OtherClient(t)
  BY <1>9 DEF OtherClient
<1>10. CASE UNCHANGED vars
  BY <1>10 DEF vars
<1> QED
  BY <1>1, <1>2, <1>3, <1>4, <1>5, <1>6, <1>7, <1>8, <1>9, <1>10 DEF Next, CallStep

(* A receipt is committed before the prepared one goes. *)
LEMMA RemovalStep ==
  ASSUME TypeOK, HolderInv, RemovalInv, [Next]_vars
  PROVE  RemovalInv'
<1> USE ConstantsAssumption DEF Goto, End, callVars, receiptVars, nativeVars,
           TypeOK, HolderInv, RemovalInv
<1>1. CASE \E c \in Calls : Plan(c) \/ Start(c) \/ MissingCLI(c)
  BY <1>1 DEF Plan, Start, MissingCLI
<1>2. CASE \E c \in Calls : PrepareStep(c)
  BY <1>2 DEF PrepareStep, ReadCommitted, ReadPrepared, FindPrepared,
     CreatePrepared, LoseRace, PrepareFails, FillPrepared, FillFails,
     Recheck, NativeStage
<1>3. CASE \E c \in Calls : CreateStep(c)
  BY <1>3 DEF CreateStep, WriteFile, WriteFileFails, ObserveAfter, RunCLI,
     CLIConfirms, CLIFails
<1>4. CASE \E c \in Calls : AppendStep(c)
  BY <1>4 DEF AppendStep, LockPath, Observe, TargetChanged, Handshake,
     PreWriteFails, Inject, InjectConfirmed, InjectFails, Unsubscribe,
     UnsubscribeFails, Verify, VerifyFails, Confirm, MovedMeanwhile,
     ReturnFrom
<1>5. CASE \E c \in Calls : FinishStep(c)
  BY <1>5 DEF FinishStep, Release, Commit, CommitFails, RemovePrepared,
     RemoveFails, OwnPrepared
<1>6. CASE \E c \in Calls : RecheckStep(c)
  BY <1>6 DEF RecheckStep, RecheckSession, RecheckFile, RecheckFails,
     ConfirmFile, RecheckMoved, RecheckUnreadable
<1>7. CASE \E p \in Procs : Crash(p)
  BY <1>7 DEF Crash, Active
<1>8. CASE \E c \in Calls : Store(c) \/ Drop(c) \/ UseSession(c)
  BY <1>8 DEF Store, Drop, UseSession
<1>9. CASE \E t \in Targets : OtherClient(t)
  BY <1>9 DEF OtherClient
<1>10. CASE UNCHANGED vars
  BY <1>10 DEF vars
<1> QED
  BY <1>1, <1>2, <1>3, <1>4, <1>5, <1>6, <1>7, <1>8, <1>9, <1>10 DEF Next, CallStep

(* A call has an outcome only when it returned. *)
LEMMA OutcomeStep ==
  ASSUME TypeOK, OutcomeInv, [Next]_vars
  PROVE  OutcomeInv'
<1> USE DEF Goto, End, callVars, receiptVars, nativeVars,
           TypeOK, OutcomeInv, Holding, BeforeWrite, MayHaveWritten
<1>1. CASE \E c \in Calls : Plan(c) \/ Start(c) \/ MissingCLI(c)
  <2> SUFFICES ASSUME NEW c \in Calls, Plan(c) \/ Start(c) \/ MissingCLI(c)
               PROVE  OutcomeInv'
    BY <1>1
  <2>1. CASE Plan(c)
    BY <2>1 DEF Plan
  <2>2. CASE Start(c) \/ MissingCLI(c)
    BY <2>2 DEF Start, MissingCLI
  <2> QED
    BY <2>1, <2>2
<1>2. CASE \E c \in Calls : PrepareStep(c)
  <2> SUFFICES ASSUME NEW c \in Calls, PrepareStep(c) PROVE OutcomeInv'
    BY <1>2
  <2>1. CASE ReadCommitted(c) \/ ReadPrepared(c) \/ FindPrepared(c)
    BY <2>1 DEF ReadCommitted, Recheck, ReadPrepared, FindPrepared
  <2>2. CASE CreatePrepared(c) \/ LoseRace(c) \/ PrepareFails(c)
    BY <2>2 DEF CreatePrepared, LoseRace, PrepareFails
  <2>3. CASE FillPrepared(c) \/ FillFails(c)
    BY <2>3 DEF FillPrepared, FillFails, NativeStage
  <2> QED
    BY <2>1, <2>2, <2>3 DEF PrepareStep
<1>3. CASE \E c \in Calls : CreateStep(c)
  <2> SUFFICES ASSUME NEW c \in Calls, CreateStep(c) PROVE OutcomeInv'
    BY <1>3
  <2>1. CASE WriteFile(c) \/ WriteFileFails(c)
    BY <2>1 DEF WriteFile, WriteFileFails
  <2>2. CASE ObserveAfter(c) \/ RunCLI(c)
    BY <2>2 DEF ObserveAfter, RunCLI
  <2>3. CASE CLIConfirms(c) \/ CLIFails(c)
    BY <2>3 DEF CLIConfirms, CLIFails
  <2> QED
    BY <2>1, <2>2, <2>3 DEF CreateStep
<1>4. CASE \E c \in Calls : AppendStep(c)
  <2> SUFFICES ASSUME NEW c \in Calls, AppendStep(c) PROVE OutcomeInv'
    BY <1>4
  <2>1. CASE LockPath(c) \/ Observe(c)
    BY <2>1 DEF LockPath, Observe
  <2>2. CASE TargetChanged(c) \/ Handshake(c)
    BY <2>2 DEF TargetChanged, Handshake, ReturnFrom
  <2>3. CASE PreWriteFails(c) \/ Inject(c)
    BY <2>3 DEF PreWriteFails, Inject, ReturnFrom
  <2>4. CASE InjectConfirmed(c) \/ InjectFails(c)
    BY <2>4 DEF InjectConfirmed, InjectFails, ReturnFrom
  <2>5. CASE Unsubscribe(c) \/ UnsubscribeFails(c)
    BY <2>5 DEF Unsubscribe, UnsubscribeFails, ReturnFrom
  <2>6. CASE Verify(c) \/ VerifyFails(c)
    BY <2>6 DEF Verify, VerifyFails, ReturnFrom
  <2>7. CASE Confirm(c) \/ MovedMeanwhile(c)
    BY <2>7 DEF Confirm, MovedMeanwhile, ReturnFrom
  <2> QED
    BY <2>1, <2>2, <2>3, <2>4, <2>5, <2>6, <2>7 DEF AppendStep
<1>5. CASE \E c \in Calls : FinishStep(c)
  <2> SUFFICES ASSUME NEW c \in Calls, FinishStep(c) PROVE OutcomeInv'
    BY <1>5
  <2>1. CASE Release(c)
    BY <2>1 DEF Release
  <2>2. CASE Commit(c) \/ CommitFails(c)
    BY <2>2 DEF Commit, CommitFails, OwnPrepared
  <2>3. CASE RemovePrepared(c) \/ RemoveFails(c)
    BY <2>3 DEF RemovePrepared, RemoveFails
  <2> QED
    BY <2>1, <2>2, <2>3 DEF FinishStep
<1>6. CASE \E c \in Calls : RecheckStep(c)
  <2> SUFFICES ASSUME NEW c \in Calls, RecheckStep(c) PROVE OutcomeInv'
    BY <1>6
  <2>1. CASE RecheckSession(c) \/ RecheckFile(c)
    BY <2>1 DEF RecheckSession, RecheckFile
  <2>2. CASE RecheckFails(c) \/ ConfirmFile(c)
    BY <2>2 DEF RecheckFails, ConfirmFile
  <2>3. CASE RecheckMoved(c) \/ RecheckUnreadable(c)
    BY <2>3 DEF RecheckMoved, RecheckUnreadable
  <2> QED
    BY <2>1, <2>2, <2>3 DEF RecheckStep
<1>7. CASE \E p \in Procs : Crash(p)
  BY <1>7 DEF Crash, Active
<1>8. CASE \E c \in Calls : Store(c) \/ Drop(c) \/ UseSession(c)
  BY <1>8 DEF Store, Drop, UseSession
<1>9. CASE \E t \in Targets : OtherClient(t)
  BY <1>9 DEF OtherClient
<1>10. CASE UNCHANGED vars
  BY <1>10 DEF vars
<1> QED
  BY <1>1, <1>2, <1>3, <1>4, <1>5, <1>6, <1>7, <1>8, <1>9, <1>10 DEF Next, CallStep

(* What reached the store stays announced; a call past its last safe stage
   cannot return as if it had written nothing. *)
LEMMA ReachedStep ==
  ASSUME TypeOK, ReceiptInv, VerifiedInv, [Next]_vars
  PROVE  ReachedInv'
<1> USE ConstantsAssumption DEF Goto, End, callVars, receiptVars, nativeVars, TypeOK, ReceiptInv, HolderInv, RemovalInv, OutcomeInv, ReachedInv, Reached, Finished, Holding, BeforeWrite, MayHaveWritten
<1>1. CASE \E c \in Calls : Plan(c)
  BY <1>1 DEF Plan
<1>2. CASE \E c \in Calls : Start(c)
  BY <1>2 DEF Start
<1>3. CASE \E c \in Calls : MissingCLI(c)
  BY <1>3 DEF MissingCLI
<1>4. CASE \E c \in Calls : ReadCommitted(c)
  BY <1>4 DEF ReadCommitted, Recheck
<1>5. CASE \E c \in Calls : ReadPrepared(c)
  BY <1>5 DEF ReadPrepared
<1>6. CASE \E c \in Calls : FindPrepared(c)
  BY <1>6 DEF FindPrepared
<1>7. CASE \E c \in Calls : CreatePrepared(c)
  BY <1>7 DEF CreatePrepared
<1>8. CASE \E c \in Calls : LoseRace(c)
  BY <1>8 DEF LoseRace
<1>9. CASE \E c \in Calls : PrepareFails(c)
  BY <1>9 DEF PrepareFails
<1>10. CASE \E c \in Calls : FillPrepared(c)
  BY <1>10 DEF FillPrepared, NativeStage
<1>11. CASE \E c \in Calls : FillFails(c)
  BY <1>11 DEF FillFails
<1>12. CASE \E c \in Calls : WriteFile(c)
  BY <1>12 DEF WriteFile
<1>13. CASE \E c \in Calls : WriteFileFails(c)
  BY <1>13 DEF WriteFileFails
<1>14. CASE \E c \in Calls : ObserveAfter(c)
  BY <1>14 DEF ObserveAfter
<1>15. CASE \E c \in Calls : RunCLI(c)
  BY <1>15 DEF RunCLI
<1>16. CASE \E c \in Calls : CLIConfirms(c)
  BY <1>16 DEF CLIConfirms
<1>17. CASE \E c \in Calls : CLIFails(c)
  BY <1>17 DEF CLIFails
<1>18. CASE \E c \in Calls : LockPath(c)
  BY <1>18 DEF LockPath
<1>19. CASE \E c \in Calls : Observe(c)
  BY <1>19 DEF Observe
<1>20. CASE \E c \in Calls : TargetChanged(c)
  BY <1>20 DEF TargetChanged, ReturnFrom
<1>21. CASE \E c \in Calls : Handshake(c)
  BY <1>21 DEF Handshake
<1>22. CASE \E c \in Calls : PreWriteFails(c)
  BY <1>22 DEF PreWriteFails, ReturnFrom
<1>23. CASE \E c \in Calls : Inject(c)
  BY <1>23 DEF Inject
<1>24. CASE \E c \in Calls : InjectConfirmed(c)
  BY <1>24 DEF InjectConfirmed
<1>25. CASE \E c \in Calls : InjectFails(c)
  BY <1>25 DEF InjectFails, ReturnFrom
<1>26. CASE \E c \in Calls : Unsubscribe(c)
  BY <1>26 DEF Unsubscribe
<1>27. CASE \E c \in Calls : UnsubscribeFails(c)
  BY <1>27 DEF UnsubscribeFails, ReturnFrom
<1>28. CASE \E c \in Calls : Verify(c)
  BY <1>28 DEF Verify
<1>29. CASE \E c \in Calls : VerifyFails(c)
  BY <1>29 DEF VerifyFails, ReturnFrom
<1>30. CASE \E c \in Calls : Confirm(c)
  BY <1>30 DEF Confirm, ReturnFrom
<1>31. CASE \E c \in Calls : MovedMeanwhile(c)
  BY <1>31 DEF MovedMeanwhile, ReturnFrom
<1>32. CASE \E c \in Calls : Release(c)
  BY <1>32 DEF Release
<1>33. CASE \E c \in Calls : Commit(c)
  BY <1>33 DEF Commit, OwnPrepared
<1>34. CASE \E c \in Calls : CommitFails(c)
  BY <1>34 DEF CommitFails
<1>35. CASE \E c \in Calls : RemovePrepared(c)
  <2> SUFFICES ASSUME NEW d \in Calls, RemovePrepared(d) PROVE ReachedInv'
    BY <1>35
  <2>1. committed[key[d]] # NoCall /\ prepared[key[d]] = d
    BY DEF RemovePrepared
  <2>2. d \in inflight => key[d] \in Twins
    BY DEF RemovePrepared, VerifiedInv, Verified
  <2> SUFFICES ASSUME NEW k \in Keys, NEW c \in Reached(k)
               PROVE  /\ pc'[c] \in MayHaveWritten \cup {"removePrepared"} \cup Finished
                      /\ outcome'[c] \notin {"refused", "retryable"}
                      /\ committed[k] # NoCall \/ (prepared'[k] = c /\ k \notin torn)
                      /\ c \in inflight /\ k \notin Twins => prepared'[k] = c
    BY DEF RemovePrepared
  <2> QED
    BY <2>1, <2>2 DEF RemovePrepared
<1>36. CASE \E c \in Calls : RemoveFails(c)
  BY <1>36 DEF RemoveFails
<1>37. CASE \E c \in Calls : RecheckSession(c)
  BY <1>37 DEF RecheckSession
<1>38. CASE \E c \in Calls : RecheckFile(c)
  BY <1>38 DEF RecheckFile
<1>39. CASE \E c \in Calls : RecheckFails(c)
  BY <1>39 DEF RecheckFails
<1>40. CASE \E c \in Calls : ConfirmFile(c)
  BY <1>40 DEF ConfirmFile
<1>41. CASE \E c \in Calls : RecheckMoved(c)
  BY <1>41 DEF RecheckMoved
<1>42. CASE \E c \in Calls : RecheckUnreadable(c)
  BY <1>42 DEF RecheckUnreadable
<1>43. CASE \E c \in Calls : Store(c)
  BY <1>43 DEF Store
<1>44. CASE \E c \in Calls : Drop(c)
  BY <1>44 DEF Drop
<1>45. CASE \E c \in Calls : UseSession(c)
  BY <1>45 DEF UseSession
<1>46. CASE \E p \in Procs : Crash(p)
  BY <1>46 DEF Crash, Active
<1>47. CASE \E t \in Targets : OtherClient(t)
  BY <1>47 DEF OtherClient
<1>48. CASE UNCHANGED vars
  BY <1>48 DEF vars
<1> QED
  BY <1>1, <1>2, <1>3, <1>4, <1>5, <1>6, <1>7, <1>8, <1>9, <1>10, <1>11, <1>12, <1>13, <1>14, <1>15, <1>16, <1>17, <1>18, <1>19, <1>20, <1>21, <1>22, <1>23, <1>24, <1>25, <1>26, <1>27, <1>28, <1>29, <1>30, <1>31, <1>32, <1>33, <1>34, <1>35, <1>36, <1>37, <1>38, <1>39, <1>40, <1>41, <1>42, <1>43, <1>44, <1>45, <1>46, <1>47, <1>48 DEF Next, CallStep, PrepareStep, CreateStep, AppendStep, FinishStep, RecheckStep

(* The stage of a call fits the kind of its key. *)
LEMMA KindStep ==
  ASSUME TypeOK, KindInv, [Next]_vars
  PROVE  KindInv'
<1> USE ConstantsAssumption DEF Goto, End, callVars, receiptVars, nativeVars,
           TypeOK, KindInv, AppendStages, LockedStages
<1>1. CASE \E c \in Calls : Plan(c) \/ Start(c) \/ MissingCLI(c)
  BY <1>1 DEF Plan, Start, MissingCLI
<1>2. CASE \E c \in Calls : PrepareStep(c)
  BY <1>2 DEF PrepareStep, ReadCommitted, ReadPrepared, FindPrepared,
     CreatePrepared, LoseRace, PrepareFails, FillPrepared, FillFails,
     Recheck, NativeStage
<1>3. CASE \E c \in Calls : CreateStep(c)
  BY <1>3 DEF CreateStep, WriteFile, WriteFileFails, ObserveAfter, RunCLI,
     CLIConfirms, CLIFails
<1>4. CASE \E c \in Calls : AppendStep(c)
  BY <1>4 DEF AppendStep, LockPath, Observe, TargetChanged, Handshake,
     PreWriteFails, Inject, InjectConfirmed, InjectFails, Unsubscribe,
     UnsubscribeFails, Verify, VerifyFails, Confirm, MovedMeanwhile,
     ReturnFrom
<1>5. CASE \E c \in Calls : FinishStep(c)
  BY <1>5 DEF FinishStep, Release, Commit, CommitFails, RemovePrepared,
     RemoveFails, OwnPrepared
<1>6. CASE \E c \in Calls : RecheckStep(c)
  BY <1>6 DEF RecheckStep, RecheckSession, RecheckFile, RecheckFails,
     ConfirmFile, RecheckMoved, RecheckUnreadable
<1>7. CASE \E p \in Procs : Crash(p)
  BY <1>7 DEF Crash, Active
<1>8. CASE \E c \in Calls : Store(c) \/ Drop(c) \/ UseSession(c)
  BY <1>8 DEF Store, Drop, UseSession
<1>9. CASE \E t \in Targets : OtherClient(t)
  BY <1>9 DEF OtherClient
<1>10. CASE UNCHANGED vars
  BY <1>10 DEF vars
<1> QED
  BY <1>1, <1>2, <1>3, <1>4, <1>5, <1>6, <1>7, <1>8, <1>9, <1>10 DEF Next, CallStep

(* Steps that write no session file and enter no watched stage. *)
LEMMA DataStable ==
  ASSUME DataInv, file' = file, before' = before, key' = key,
         \A k \in Keys : written[k] \subseteq written'[k], TypeOK,
         \A c \in Calls : pc'[c] \in Watching => pc[c] \in Watching
  PROVE  DataInv'
  BY DEF DataInv, Target, TypeOK, Watching

(* Under a call's own prepared receipt nobody else stores its key. *)
LEMMA DataStep ==
  ASSUME TypeOK, ReceiptInv, DataInv, [Next]_vars
  PROVE  DataInv'
<1> USE DEF Goto, End, callVars, receiptVars, nativeVars
<1>1. CASE \E c \in Calls : Plan(c)
  BY <1>1, DataStable DEF Plan, TypeOK, Watching, LockedStages
<1>2. CASE \E c \in Calls : Start(c)
  BY <1>2, DataStable DEF Start, TypeOK, Watching, LockedStages
<1>3. CASE \E c \in Calls : MissingCLI(c)
  BY <1>3, DataStable DEF MissingCLI, TypeOK, Watching, LockedStages
<1>4. CASE \E c \in Calls : ReadCommitted(c)
  BY <1>4, DataStable DEF ReadCommitted, Recheck, TypeOK, Watching, LockedStages
<1>5. CASE \E c \in Calls : ReadPrepared(c)
  BY <1>5, DataStable DEF ReadPrepared, TypeOK, Watching, LockedStages
<1>6. CASE \E c \in Calls : FindPrepared(c)
  BY <1>6, DataStable DEF FindPrepared, TypeOK, Watching, LockedStages
<1>7. CASE \E c \in Calls : CreatePrepared(c)
  BY <1>7, DataStable DEF CreatePrepared, TypeOK, Watching, LockedStages
<1>8. CASE \E c \in Calls : LoseRace(c)
  BY <1>8, DataStable DEF LoseRace, TypeOK, Watching, LockedStages
<1>9. CASE \E c \in Calls : PrepareFails(c)
  BY <1>9, DataStable DEF PrepareFails, TypeOK, Watching, LockedStages
<1>10. CASE \E c \in Calls : FillPrepared(c)
  BY <1>10, DataStable, ConstantsAssumption DEF FillPrepared, NativeStage, TypeOK, Watching, LockedStages
<1>11. CASE \E c \in Calls : FillFails(c)
  BY <1>11, DataStable DEF FillFails, TypeOK, Watching, LockedStages
<1>12. CASE \E c \in Calls : WriteFile(c)
  BY <1>12, DataStable DEF WriteFile, TypeOK, Watching, LockedStages
<1>13. CASE \E c \in Calls : WriteFileFails(c)
  BY <1>13, DataStable DEF WriteFileFails, TypeOK, Watching, LockedStages
<1>14. CASE \E c \in Calls : ObserveAfter(c)
  BY <1>14, DataStable DEF ObserveAfter, TypeOK, Watching, LockedStages
<1>15. CASE \E c \in Calls : RunCLI(c)
  BY <1>15, DataStable DEF RunCLI, TypeOK, Watching, LockedStages
<1>16. CASE \E c \in Calls : CLIConfirms(c)
  BY <1>16, DataStable DEF CLIConfirms, TypeOK, Watching, LockedStages
<1>17. CASE \E c \in Calls : CLIFails(c)
  BY <1>17, DataStable DEF CLIFails, TypeOK, Watching, LockedStages
<1>18. CASE \E c \in Calls : LockPath(c)
  BY <1>18, DataStable DEF LockPath, TypeOK, Watching, LockedStages
<1>19. CASE \E c \in Calls : Observe(c)
  <2> SUFFICES ASSUME NEW c \in Calls, Observe(c),
                      NEW d \in Calls, pc'[d] \in Watching,
                      NEW i \in Len(before'[d].data) + 1 .. Len(file[Target(d)].data),
                      file[Target(d)].data[i] = key[d]
               PROVE  d \in written[key[d]] \/ key[d] \in Twins
    BY <1>19 DEF DataInv, Observe, Watching, Target, nativeVars
  <2>1. CASE d = c
    <3>1. before'[d].data = file[Target(d)].data
      BY <2>1 DEF Observe, TypeOK
    <3> QED
      BY <3>1, TargetType
  <2>2. CASE d # c
    BY <2>2 DEF Observe, DataInv, TypeOK, Watching
  <2> QED
    BY <2>1, <2>2
<1>20. CASE \E c \in Calls : TargetChanged(c)
  BY <1>20, DataStable DEF TargetChanged, ReturnFrom, TypeOK, Watching, LockedStages
<1>21. CASE \E c \in Calls : Handshake(c)
  BY <1>21, DataStable DEF Handshake, TypeOK, Watching, LockedStages
<1>22. CASE \E c \in Calls : PreWriteFails(c)
  BY <1>22, DataStable DEF PreWriteFails, ReturnFrom, TypeOK, Watching, LockedStages
<1>23. CASE \E c \in Calls : Inject(c)
  BY <1>23, DataStable DEF Inject, TypeOK, Watching, LockedStages
<1>24. CASE \E c \in Calls : InjectConfirmed(c)
  BY <1>24, DataStable DEF InjectConfirmed, TypeOK, Watching, LockedStages
<1>25. CASE \E c \in Calls : InjectFails(c)
  BY <1>25, DataStable DEF InjectFails, ReturnFrom, TypeOK, Watching, LockedStages
<1>26. CASE \E c \in Calls : Unsubscribe(c)
  BY <1>26, DataStable DEF Unsubscribe, TypeOK, Watching, LockedStages
<1>27. CASE \E c \in Calls : UnsubscribeFails(c)
  BY <1>27, DataStable DEF UnsubscribeFails, ReturnFrom, TypeOK, Watching, LockedStages
<1>28. CASE \E c \in Calls : Verify(c)
  BY <1>28, DataStable DEF Verify, TypeOK, Watching, LockedStages
<1>29. CASE \E c \in Calls : VerifyFails(c)
  BY <1>29, DataStable DEF VerifyFails, ReturnFrom, TypeOK, Watching, LockedStages
<1>30. CASE \E c \in Calls : Confirm(c)
  BY <1>30, DataStable DEF Confirm, ReturnFrom, TypeOK, Watching, LockedStages
<1>31. CASE \E c \in Calls : MovedMeanwhile(c)
  BY <1>31, DataStable DEF MovedMeanwhile, ReturnFrom, TypeOK, Watching, LockedStages
<1>32. CASE \E c \in Calls : Release(c)
  BY <1>32, DataStable DEF Release, TypeOK, Watching, LockedStages
<1>33. CASE \E c \in Calls : Commit(c)
  BY <1>33, DataStable DEF Commit, OwnPrepared, TypeOK, Watching, LockedStages
<1>34. CASE \E c \in Calls : CommitFails(c)
  BY <1>34, DataStable DEF CommitFails, TypeOK, Watching, LockedStages
<1>35. CASE \E c \in Calls : RemovePrepared(c)
  BY <1>35, DataStable DEF RemovePrepared, TypeOK, Watching, LockedStages
<1>36. CASE \E c \in Calls : RemoveFails(c)
  BY <1>36, DataStable DEF RemoveFails, TypeOK, Watching, LockedStages
<1>37. CASE \E c \in Calls : RecheckSession(c)
  BY <1>37, DataStable DEF RecheckSession, TypeOK, Watching, LockedStages
<1>38. CASE \E c \in Calls : RecheckFile(c)
  BY <1>38, DataStable DEF RecheckFile, TypeOK, Watching, LockedStages
<1>39. CASE \E c \in Calls : RecheckFails(c)
  BY <1>39, DataStable DEF RecheckFails, TypeOK, Watching, LockedStages
<1>40. CASE \E c \in Calls : ConfirmFile(c)
  BY <1>40, DataStable DEF ConfirmFile, TypeOK, Watching, LockedStages
<1>41. CASE \E c \in Calls : RecheckMoved(c)
  BY <1>41, DataStable DEF RecheckMoved, TypeOK, Watching, LockedStages
<1>42. CASE \E c \in Calls : RecheckUnreadable(c)
  BY <1>42, DataStable DEF RecheckUnreadable, TypeOK, Watching, LockedStages
<1>43. CASE \E c \in Calls : Store(c)
  <2> SUFFICES ASSUME NEW d \in Calls, Store(d),
                      NEW c \in Calls, pc[c] \in Watching,
                      NEW i \in Len(before[c].data) + 1 .. Len(file'[Target(c)].data),
                      file'[Target(c)].data[i] = key[c], key[c] \notin Twins
               PROVE  c \in written'[key[c]]
    BY <1>43 DEF DataInv, Store, Watching, Target
  <2>1. prepared[key[c]] = c
    BY DEF HolderInv, ReceiptInv, Watching, LockedStages, Holding, BeforeWrite, MayHaveWritten
  <2>2. key[d] \notin Twins => prepared[key[d]] = d
    BY DEF Store, ReceiptInv, ReachedInv, Reached, TypeOK
  <2>3. written[key[c]] \subseteq written'[key[c]]
    BY DEF Store, TypeOK
  <2>4. CASE file'[Target(c)] = file[Target(c)]
    BY <2>3, <2>4 DEF DataInv, Watching
  <2>5. CASE file'[Target(c)] # file[Target(c)]
    <3>1. file'[Target(c)].data = Append(file[Target(c)].data, key[d])
      BY <2>5, TargetType DEF Store, Written, TypeOK
    <3>2. CASE i = Len(file[Target(c)].data) + 1
      <4>1. key[d] = key[c]
        BY <3>1, <3>2, TargetType
      <4> QED
        BY <4>1, <2>1, <2>2 DEF Store, TypeOK
    <3>3. CASE i # Len(file[Target(c)].data) + 1
      <4> DEFINE data == file[Target(c)].data
      <4>1. data \in Seq(Records) /\ before[c].data \in Seq(Records)
        BY TargetType DEF TypeOK, Revisions
      <4>2. i \in Len(before[c].data) + 1 .. Len(Append(data, key[d])) /\ i # Len(data) + 1
        BY <3>1, <3>3
      <4>3. Len(Append(data, key[d])) = Len(data) + 1 /\ Len(before[c].data) \in Nat /\ Len(data) \in Nat
        BY <4>1
      <4> HIDE DEF data
      <4>4. i \in Len(before[c].data) + 1 .. Len(data)
        BY <4>2, <4>3
      <4>5. i \in 1 .. Len(data)
        BY <4>3, <4>4
      <4>6. data[i] = Append(data, key[d])[i]
        BY <4>1, <4>5
      <4>7. data[i] = key[c]
        BY <3>1, <4>6 DEF data
      <4> QED
        BY <2>3, <4>4, <4>7 DEF DataInv, Watching, data
    <3> QED
      BY <3>2, <3>3
  <2> QED
    BY <2>4, <2>5
<1>44. CASE \E c \in Calls : Drop(c)
  BY <1>44, DataStable DEF Drop, TypeOK, Watching, LockedStages
<1>45. CASE \E c \in Calls : UseSession(c)
  BY <1>45, DataStable DEF UseSession, TypeOK, Watching, LockedStages
<1>46. CASE \E p \in Procs : Crash(p)
  BY <1>46, DataStable DEF Crash, Active, TypeOK, Watching, LockedStages, Holding, BeforeWrite, MayHaveWritten
<1>47. CASE \E t \in Targets : OtherClient(t)
  <2> SUFFICES ASSUME NEW t \in Targets, OtherClient(t),
                      NEW c \in Calls, pc[c] \in Watching,
                      NEW i \in Len(before[c].data) + 1 .. Len(file'[Target(c)].data),
                      file'[Target(c)].data[i] = key[c], key[c] \notin Twins
               PROVE  c \in written[key[c]]
    BY <1>47 DEF DataInv, OtherClient, Watching, Target, nativeVars
  <2>1. CASE file'[Target(c)] = file[Target(c)]
    BY <2>1 DEF DataInv, Watching
  <2>2. CASE file'[Target(c)] # file[Target(c)]
    <3>1. key[c] # "ext" /\ Len(before[c].data) \in Nat
      BY ConstantsAssumption DEF TypeOK, Revisions
    <3>0. /\ Target(c) \in Targets
          /\ \A new : t = Target(c) => Written(t, new)[Target(c)].data = new
          /\ \A new : t # Target(c) => Written(t, new)[Target(c)] = file[Target(c)]
      <4>1. Target(c) \in Targets /\ file \in [Targets -> Revisions]
        BY TargetType DEF TypeOK
      <4>2. SUFFICES ASSUME NEW new
                     PROVE  /\ t = Target(c) => Written(t, new)[Target(c)].data = new
                            /\ t # Target(c) =>
                                  Written(t, new)[Target(c)] = file[Target(c)]
        BY <4>1
      <4> QED
        BY <4>1 DEF Written
    <3>2. PICK r \in {"ext"} \cup Twins :
             \/ file'[Target(c)].data = <<"ext">>
             \/ file'[Target(c)].data = Append(file[Target(c)].data, r)
      <4>1. t = Target(c)
        BY <2>2, <3>0 DEF OtherClient
      <4>2. CASE file' = Written(t, <<"ext">>)
        BY <3>0, <4>1, <4>2
      <4>3. ASSUME NEW r \in {"ext"} \cup {k \in Twins : TargetOf[k] = t},
                   file' = Written(t, Append(file[t].data, r))
            PROVE  file'[Target(c)].data = Append(file[Target(c)].data, r)
        BY <3>0, <4>1, <4>3
      <4> QED
        BY <4>2, <4>3 DEF OtherClient
    <3>3. file'[Target(c)].data = Append(file[Target(c)].data, r) /\ r # key[c]
      BY <3>1, <3>2
    <3>4. i \in Len(before[c].data) + 1 .. Len(file[Target(c)].data)
      BY <3>1, <3>3, TargetType
    <3>5. file[Target(c)].data[i] = key[c]
      BY <3>1, <3>3, <3>4, TargetType
    <3> QED
      BY <3>4, <3>5 DEF DataInv, Watching
  <2> QED
    BY <2>1, <2>2
<1>48. CASE UNCHANGED vars
  BY <1>48, DataStable DEF vars
<1> QED
  BY <1>1, <1>2, <1>3, <1>4, <1>5, <1>6, <1>7, <1>8, <1>9, <1>10, <1>11, <1>12, <1>13, <1>14, <1>15, <1>16, <1>17, <1>18, <1>19, <1>20, <1>21, <1>22, <1>23, <1>24, <1>25, <1>26, <1>27, <1>28, <1>29, <1>30, <1>31, <1>32, <1>33, <1>34, <1>35, <1>36, <1>37, <1>38, <1>39, <1>40, <1>41, <1>42, <1>43, <1>44, <1>45, <1>46, <1>47, <1>48 DEF Next, CallStep, PrepareStep, CreateStep, AppendStep, FinishStep, RecheckStep

(* Verification finds what the call itself wrote, after what was reviewed. *)
LEMMA VerifiedStep ==
  ASSUME TypeOK, OutcomeInv, KindInv, DataInv, VerifiedInv, [Next]_vars
  PROVE  VerifiedInv'
<1> USE ConstantsAssumption DEF Goto, End, callVars, receiptVars, nativeVars, TypeOK, VerifiedInv, Verified, Watching, KindInv, OutcomeInv, AppendStages, LockedStages
<1>1. CASE \E c \in Calls : Plan(c)
  <2> SUFFICES ASSUME NEW c \in Calls, Plan(c), NEW d \in Calls PROVE Verified(d)'
    BY <1>1 DEF VerifiedInv
  <2>1. CASE d = c
    BY <2>1 DEF Plan, Watching, LockedStages
  <2>2. CASE d # c
    <3>1. seen'[d] = seen[d] /\ pc'[d] = pc[d]
      BY <2>2 DEF Plan
    <3> QED
      BY <3>1 DEF Plan
  <2> QED
    BY <2>1, <2>2
<1>2. CASE \E c \in Calls : Start(c)
  BY <1>2 DEF Start
<1>3. CASE \E c \in Calls : MissingCLI(c)
  BY <1>3 DEF MissingCLI
<1>4. CASE \E c \in Calls : ReadCommitted(c)
  BY <1>4 DEF ReadCommitted, Recheck
<1>5. CASE \E c \in Calls : ReadPrepared(c)
  BY <1>5 DEF ReadPrepared
<1>6. CASE \E c \in Calls : FindPrepared(c)
  BY <1>6 DEF FindPrepared
<1>7. CASE \E c \in Calls : CreatePrepared(c)
  BY <1>7 DEF CreatePrepared
<1>8. CASE \E c \in Calls : LoseRace(c)
  BY <1>8 DEF LoseRace
<1>9. CASE \E c \in Calls : PrepareFails(c)
  BY <1>9 DEF PrepareFails
<1>10. CASE \E c \in Calls : FillPrepared(c)
  BY <1>10 DEF FillPrepared, NativeStage
<1>11. CASE \E c \in Calls : FillFails(c)
  BY <1>11 DEF FillFails
<1>12. CASE \E c \in Calls : WriteFile(c)
  BY <1>12 DEF WriteFile
<1>13. CASE \E c \in Calls : WriteFileFails(c)
  BY <1>13 DEF WriteFileFails
<1>14. CASE \E c \in Calls : ObserveAfter(c)
  BY <1>14 DEF ObserveAfter
<1>15. CASE \E c \in Calls : RunCLI(c)
  BY <1>15 DEF RunCLI
<1>16. CASE \E c \in Calls : CLIConfirms(c)
  BY <1>16 DEF CLIConfirms
<1>17. CASE \E c \in Calls : CLIFails(c)
  BY <1>17 DEF CLIFails
<1>18. CASE \E c \in Calls : LockPath(c)
  BY <1>18 DEF LockPath
<1>19. CASE \E c \in Calls : Observe(c)
  BY <1>19 DEF Observe
<1>20. CASE \E c \in Calls : TargetChanged(c)
  BY <1>20 DEF TargetChanged, ReturnFrom
<1>21. CASE \E c \in Calls : Handshake(c)
  BY <1>21 DEF Handshake
<1>22. CASE \E c \in Calls : PreWriteFails(c)
  BY <1>22 DEF PreWriteFails, ReturnFrom
<1>23. CASE \E c \in Calls : Inject(c)
  BY <1>23 DEF Inject
<1>24. CASE \E c \in Calls : InjectConfirmed(c)
  BY <1>24 DEF InjectConfirmed
<1>25. CASE \E c \in Calls : InjectFails(c)
  BY <1>25 DEF InjectFails, ReturnFrom
<1>26. CASE \E c \in Calls : Unsubscribe(c)
  BY <1>26 DEF Unsubscribe
<1>27. CASE \E c \in Calls : UnsubscribeFails(c)
  BY <1>27 DEF UnsubscribeFails, ReturnFrom
<1>28. CASE \E c \in Calls : Verify(c)
  <2> SUFFICES ASSUME NEW c \in Calls, Verify(c), NEW d \in Calls PROVE Verified(d)'
    BY <1>28 DEF VerifiedInv
  <2>1. CASE d = c
    <3>1. before[c] = seen[c] /\ scanned'[c] = file[Target(c)].data /\ pc'[c] = "confirm"
      BY DEF Verify, Watching, LockedStages
    <3>2. Persisted(key[c], seen[c].data, scanned'[c])
      BY <3>1 DEF Verify
    <3>3. c \in written[key[c]] \/ key[c] \in Twins
      BY <3>1 DEF Verify, Persisted, DataInv, Watching, LockedStages
    <3> QED
      BY <2>1, <3>1, <3>2, <3>3 DEF Verify
  <2>2. CASE d # c
    <3>1. scanned'[d] = scanned[d] /\ pc'[d] = pc[d]
      BY <2>2 DEF Verify
    <3> QED
      BY <3>1 DEF Verify
  <2> QED
    BY <2>1, <2>2
<1>29. CASE \E c \in Calls : VerifyFails(c)
  BY <1>29 DEF VerifyFails, ReturnFrom
<1>30. CASE \E c \in Calls : Confirm(c)
  BY <1>30 DEF Confirm, ReturnFrom
<1>31. CASE \E c \in Calls : MovedMeanwhile(c)
  BY <1>31 DEF MovedMeanwhile, ReturnFrom
<1>32. CASE \E c \in Calls : Release(c)
  BY <1>32 DEF Release
<1>33. CASE \E c \in Calls : Commit(c)
  BY <1>33 DEF Commit, OwnPrepared
<1>34. CASE \E c \in Calls : CommitFails(c)
  BY <1>34 DEF CommitFails
<1>35. CASE \E c \in Calls : RemovePrepared(c)
  BY <1>35 DEF RemovePrepared
<1>36. CASE \E c \in Calls : RemoveFails(c)
  BY <1>36 DEF RemoveFails
<1>37. CASE \E c \in Calls : RecheckSession(c)
  BY <1>37 DEF RecheckSession
<1>38. CASE \E c \in Calls : RecheckFile(c)
  <2> SUFFICES ASSUME NEW c \in Calls, RecheckFile(c), NEW d \in Calls PROVE Verified(d)'
    BY <1>38 DEF VerifiedInv
  <2>1. CASE d = c
    BY <2>1 DEF RecheckFile, Watching, LockedStages
  <2>2. CASE d # c
    <3>1. scanned'[d] = scanned[d] /\ pc'[d] = pc[d]
      BY <2>2 DEF RecheckFile
    <3> QED
      BY <3>1 DEF RecheckFile
  <2> QED
    BY <2>1, <2>2
<1>39. CASE \E c \in Calls : RecheckFails(c)
  BY <1>39 DEF RecheckFails
<1>40. CASE \E c \in Calls : ConfirmFile(c)
  BY <1>40 DEF ConfirmFile
<1>41. CASE \E c \in Calls : RecheckMoved(c)
  BY <1>41 DEF RecheckMoved
<1>42. CASE \E c \in Calls : RecheckUnreadable(c)
  BY <1>42 DEF RecheckUnreadable
<1>43. CASE \E c \in Calls : Store(c)
  BY <1>43 DEF Store
<1>44. CASE \E c \in Calls : Drop(c)
  BY <1>44 DEF Drop
<1>45. CASE \E c \in Calls : UseSession(c)
  BY <1>45 DEF UseSession
<1>46. CASE \E p \in Procs : Crash(p)
  BY <1>46 DEF Crash, Active
<1>47. CASE \E t \in Targets : OtherClient(t)
  BY <1>47 DEF OtherClient
<1>48. CASE UNCHANGED vars
  BY <1>48 DEF vars
<1> QED
  BY <1>1, <1>2, <1>3, <1>4, <1>5, <1>6, <1>7, <1>8, <1>9, <1>10, <1>11, <1>12, <1>13, <1>14, <1>15, <1>16, <1>17, <1>18, <1>19, <1>20, <1>21, <1>22, <1>23, <1>24, <1>25, <1>26, <1>27, <1>28, <1>29, <1>30, <1>31, <1>32, <1>33, <1>34, <1>35, <1>36, <1>37, <1>38, <1>39, <1>40, <1>41, <1>42, <1>43, <1>44, <1>45, <1>46, <1>47, <1>48 DEF Next, CallStep, PrepareStep, CreateStep, AppendStep, FinishStep, RecheckStep

(* Without overlap a key is written once. *)
LEMMA SequentialStep ==
  ASSUME TypeOK, ReceiptInv, SequentialInv, [Next]_vars
  PROVE  SequentialInv'
<1> USE ConstantsAssumption DEF Goto, End, callVars, receiptVars, nativeVars, TypeOK, SequentialInv, AtMostOnce, ReceiptInv, ReachedInv, HolderInv, Reached, Holding, BeforeWrite, MayHaveWritten, Active, Finished
<1>1. CASE \E c \in Calls : Plan(c)
  BY <1>1 DEF Plan
<1>2. CASE \E c \in Calls : Start(c)
  BY <1>2 DEF Start
<1>3. CASE \E c \in Calls : MissingCLI(c)
  BY <1>3 DEF MissingCLI
<1>4. CASE \E c \in Calls : ReadCommitted(c)
  BY <1>4 DEF ReadCommitted, Recheck
<1>5. CASE \E c \in Calls : ReadPrepared(c)
  BY <1>5 DEF ReadPrepared
<1>6. CASE \E c \in Calls : FindPrepared(c)
  BY <1>6 DEF FindPrepared
<1>7. CASE \E c \in Calls : CreatePrepared(c)
  BY <1>7 DEF CreatePrepared
<1>8. CASE \E c \in Calls : LoseRace(c)
  BY <1>8 DEF LoseRace
<1>9. CASE \E c \in Calls : PrepareFails(c)
  BY <1>9 DEF PrepareFails
<1>10. CASE \E c \in Calls : FillPrepared(c)
  BY <1>10 DEF FillPrepared, NativeStage
<1>11. CASE \E c \in Calls : FillFails(c)
  BY <1>11 DEF FillFails
<1>12. CASE \E c \in Calls : WriteFile(c)
  BY <1>12 DEF WriteFile
<1>13. CASE \E c \in Calls : WriteFileFails(c)
  BY <1>13 DEF WriteFileFails
<1>14. CASE \E c \in Calls : ObserveAfter(c)
  BY <1>14 DEF ObserveAfter
<1>15. CASE \E c \in Calls : RunCLI(c)
  BY <1>15 DEF RunCLI
<1>16. CASE \E c \in Calls : CLIConfirms(c)
  BY <1>16 DEF CLIConfirms
<1>17. CASE \E c \in Calls : CLIFails(c)
  BY <1>17 DEF CLIFails
<1>18. CASE \E c \in Calls : LockPath(c)
  BY <1>18 DEF LockPath
<1>19. CASE \E c \in Calls : Observe(c)
  BY <1>19 DEF Observe
<1>20. CASE \E c \in Calls : TargetChanged(c)
  BY <1>20 DEF TargetChanged, ReturnFrom
<1>21. CASE \E c \in Calls : Handshake(c)
  BY <1>21 DEF Handshake
<1>22. CASE \E c \in Calls : PreWriteFails(c)
  BY <1>22 DEF PreWriteFails, ReturnFrom
<1>23. CASE \E c \in Calls : Inject(c)
  BY <1>23 DEF Inject
<1>24. CASE \E c \in Calls : InjectConfirmed(c)
  BY <1>24 DEF InjectConfirmed
<1>25. CASE \E c \in Calls : InjectFails(c)
  BY <1>25 DEF InjectFails, ReturnFrom
<1>26. CASE \E c \in Calls : Unsubscribe(c)
  BY <1>26 DEF Unsubscribe
<1>27. CASE \E c \in Calls : UnsubscribeFails(c)
  BY <1>27 DEF UnsubscribeFails, ReturnFrom
<1>28. CASE \E c \in Calls : Verify(c)
  BY <1>28 DEF Verify
<1>29. CASE \E c \in Calls : VerifyFails(c)
  BY <1>29 DEF VerifyFails, ReturnFrom
<1>30. CASE \E c \in Calls : Confirm(c)
  BY <1>30 DEF Confirm, ReturnFrom
<1>31. CASE \E c \in Calls : MovedMeanwhile(c)
  BY <1>31 DEF MovedMeanwhile, ReturnFrom
<1>32. CASE \E c \in Calls : Release(c)
  BY <1>32 DEF Release
<1>33. CASE \E c \in Calls : Commit(c)
  BY <1>33 DEF Commit, OwnPrepared
<1>34. CASE \E c \in Calls : CommitFails(c)
  BY <1>34 DEF CommitFails
<1>35. CASE \E c \in Calls : RemovePrepared(c)
  BY <1>35 DEF RemovePrepared
<1>36. CASE \E c \in Calls : RemoveFails(c)
  BY <1>36 DEF RemoveFails
<1>37. CASE \E c \in Calls : RecheckSession(c)
  BY <1>37 DEF RecheckSession
<1>38. CASE \E c \in Calls : RecheckFile(c)
  BY <1>38 DEF RecheckFile
<1>39. CASE \E c \in Calls : RecheckFails(c)
  BY <1>39 DEF RecheckFails
<1>40. CASE \E c \in Calls : ConfirmFile(c)
  BY <1>40 DEF ConfirmFile
<1>41. CASE \E c \in Calls : RecheckMoved(c)
  BY <1>41 DEF RecheckMoved
<1>42. CASE \E c \in Calls : RecheckUnreadable(c)
  BY <1>42 DEF RecheckUnreadable
<1>43. CASE \E c \in Calls : Store(c)
  BY <1>43 DEF Store
<1>44. CASE \E c \in Calls : Drop(c)
  BY <1>44 DEF Drop
<1>45. CASE \E c \in Calls : UseSession(c)
  BY <1>45 DEF UseSession
<1>46. CASE \E p \in Procs : Crash(p)
  BY <1>46 DEF Crash, Active
<1>47. CASE \E t \in Targets : OtherClient(t)
  BY <1>47 DEF OtherClient
<1>48. CASE UNCHANGED vars
  BY <1>48 DEF vars
<1> QED
  BY <1>1, <1>2, <1>3, <1>4, <1>5, <1>6, <1>7, <1>8, <1>9, <1>10, <1>11, <1>12, <1>13, <1>14, <1>15, <1>16, <1>17, <1>18, <1>19, <1>20, <1>21, <1>22, <1>23, <1>24, <1>25, <1>26, <1>27, <1>28, <1>29, <1>30, <1>31, <1>32, <1>33, <1>34, <1>35, <1>36, <1>37, <1>38, <1>39, <1>40, <1>41, <1>42, <1>43, <1>44, <1>45, <1>46, <1>47, <1>48 DEF Next, CallStep, PrepareStep, CreateStep, AppendStep, FinishStep, RecheckStep

-----------------------------------------------------------------------------
(* What any step leaves behind: calls keep their keys and, once planned,     *)
(* what was reviewed; the stores and the clock of a file only go forward,    *)
(* and an append reaches the store by a write to its file.                   *)
LEMMA Frame ==
  ASSUME TypeOK, KindInv, [Next]_vars
  PROVE  /\ key' = key
         /\ \A t \in Targets :
               file'[t] = file[t] \/ file[t].stamp < file'[t].stamp
         /\ \A k \in Keys : written[k] \subseteq written'[k]
         /\ \A c \in Calls :
               seen'[c] # seen[c] =>
                  /\ pc[c] = "idle" /\ pc'[c] = "planned"
                  /\ file' = file /\ seen'[c] = file[Target(c)]
         /\ \A c \in Calls :
               c \in written'[key[c]] \ written[key[c]] /\ Kind[key[c]] = "append" =>
                  /\ seen' = seen
                  /\ file'[Target(c)].stamp = file[Target(c)].stamp + 1
<1> USE ConstantsAssumption DEF Goto, End, callVars, receiptVars, nativeVars,
           TypeOK, Revisions
<1>1. CASE \E c \in Calls : Plan(c) \/ Start(c) \/ MissingCLI(c)
  BY <1>1 DEF Plan, Start, MissingCLI
<1>2. CASE \E c \in Calls : PrepareStep(c)
  <2>1. UNCHANGED <<key, seen, file, written>>
    BY <1>2 DEF PrepareStep, ReadCommitted, ReadPrepared, FindPrepared,
       CreatePrepared, LoseRace, PrepareFails, FillPrepared, FillFails
  <2> QED
    BY <2>1
<1>3. CASE \E c \in Calls : CreateStep(c)
  <2> SUFFICES ASSUME NEW d \in Calls, CreateStep(d)
               PROVE  /\ UNCHANGED <<key, file, seen>>
                      /\ \A k \in Keys : written[k] \subseteq written'[k]
                      /\ \A c \in Calls :
                            c \in written'[key[c]] =>
                               c \in written[key[c]] \/ Kind[key[c]] # "append"
    BY <1>3
  <2>1. CASE WriteFile(d)
    <3>1. Kind[key[d]] # "append"
      BY <2>1 DEF WriteFile, KindInv
    <3> QED
      BY <2>1, <3>1 DEF WriteFile
  <2>2. CASE ~WriteFile(d)
    BY <2>2 DEF CreateStep, WriteFileFails, ObserveAfter, RunCLI, CLIConfirms, CLIFails
  <2> QED
    BY <2>1, <2>2
<1>4. CASE \E c \in Calls : AppendStep(c)
  BY <1>4 DEF AppendStep, LockPath, Observe, TargetChanged, Handshake,
     PreWriteFails, Inject, InjectConfirmed, InjectFails, Unsubscribe,
     UnsubscribeFails, Verify, VerifyFails, Confirm, MovedMeanwhile
<1>5. CASE \E c \in Calls : FinishStep(c)
  <2>1. UNCHANGED <<key, seen, file, written>>
    BY <1>5 DEF FinishStep, Release, Commit, CommitFails, RemovePrepared,
       RemoveFails
  <2> QED
    BY <2>1
<1>6. CASE \E c \in Calls : RecheckStep(c)
  <2>1. UNCHANGED <<key, seen, file, written>>
    BY <1>6 DEF RecheckStep, RecheckSession, RecheckFile, RecheckFails,
       ConfirmFile, RecheckMoved, RecheckUnreadable
  <2> QED
    BY <2>1
<1>7. CASE \E p \in Procs : Crash(p)
  BY <1>7 DEF Crash
<1>8. CASE \E c \in Calls : Store(c)
  <2> SUFFICES ASSUME NEW d \in Calls, Store(d)
               PROVE  /\ \A t \in Targets :
                            file'[t] = file[t] \/ file[t].stamp < file'[t].stamp
                      /\ \A k \in Keys : written[k] \subseteq written'[k]
                      /\ \A c \in Calls :
                            c \in written'[key[c]] \ written[key[c]]
                            /\ Kind[key[c]] = "append" =>
                               file'[Target(c)].stamp = file[Target(c)].stamp + 1
    BY <1>8 DEF Store
  <2>1. \A c \in Calls : Target(c) \in Targets
    BY TargetType
  <2>2. \A c \in Calls : c \in written'[key[c]] \ written[key[c]] => c = d
    BY DEF Store
  <2>3. CASE Kind[key[d]] = "append"
    <3>1. PICK data : file' = Written(Target(d), data)
      BY <2>3 DEF Store
    <3>2. /\ file'[Target(d)].stamp = file[Target(d)].stamp + 1
          /\ \A t \in Targets \ {Target(d)} : file'[t] = file[t]
      BY <2>1, <3>1 DEF Written
    <3>3. \A t \in Targets : file'[t] = file[t] \/ file[t].stamp < file'[t].stamp
      <4>1. file[Target(d)].stamp \in Nat
        BY <2>1
      <4>2. file[Target(d)].stamp < file'[Target(d)].stamp
        BY <3>2, <4>1
      <4> QED
        BY <3>2, <4>2
    <3> QED
      BY <2>2, <3>2, <3>3 DEF Store
  <2>4. CASE Kind[key[d]] # "append"
    BY <2>2, <2>4 DEF Store
  <2> QED
    BY <2>3, <2>4
<1>9. CASE \E c \in Calls : Drop(c) \/ UseSession(c)
  BY <1>9 DEF Drop, UseSession
<1>10. CASE \E t \in Targets : OtherClient(t)
  <2> SUFFICES ASSUME NEW u \in Targets, OtherClient(u)
               PROVE  \A t \in Targets :
                         file'[t] = file[t] \/ file[t].stamp < file'[t].stamp
    BY <1>10 DEF OtherClient
  <2>1. PICK data : file' = Written(u, data)
    BY DEF OtherClient
  <2> QED
    BY <2>1 DEF Written
<1>11. CASE UNCHANGED vars
  BY <1>11 DEF vars
<1> QED
  BY <1>1, <1>2, <1>3, <1>4, <1>5, <1>6, <1>7, <1>8, <1>9, <1>10, <1>11 DEF Next, CallStep

(* A call comes to work on a session file by comparing it with what was      *)
(* reviewed, and leaves it settled only through the end of its verification. *)
LEMMA WatchStep ==
  ASSUME TypeOK, KindInv, OutcomeInv, [Next]_vars, NEW c \in Calls
  PROVE  /\ pc'[c] \in Watching =>
              pc[c] \in Watching \/ (pc[c] = "observe" /\ file[Target(c)] = seen[c])
         /\ Settled(c)' => Settled(c) \/ pc[c] = "confirm"
         /\ pc'[c] = "confirm" => pc[c] = "confirm" \/ Verify(c)
<1> USE ConstantsAssumption DEF Goto, End, callVars, receiptVars, nativeVars,
           TypeOK, Watching, LockedStages, Settled
<1>1. CASE \E d \in Calls : Plan(d) \/ Start(d) \/ MissingCLI(d)
  BY <1>1 DEF Plan, Start, MissingCLI
<1>2. CASE \E d \in Calls : PrepareStep(d)
  BY <1>2 DEF PrepareStep, ReadCommitted, ReadPrepared, FindPrepared,
     CreatePrepared, LoseRace, PrepareFails, FillPrepared, FillFails,
     Recheck, NativeStage
<1>3. CASE \E d \in Calls : CreateStep(d)
  BY <1>3 DEF CreateStep, WriteFile, WriteFileFails, ObserveAfter, RunCLI,
     CLIConfirms, CLIFails, KindInv
<1>4. CASE \E d \in Calls : AppendStep(d)
  BY <1>4 DEF AppendStep, LockPath, Observe, TargetChanged, Handshake,
     PreWriteFails, Inject, InjectConfirmed, InjectFails, Unsubscribe,
     UnsubscribeFails, Verify, VerifyFails, Confirm, MovedMeanwhile
<1>5. CASE \E d \in Calls : FinishStep(d)
  BY <1>5 DEF FinishStep, Release, Commit, CommitFails, RemovePrepared,
     RemoveFails
<1>6. CASE \E d \in Calls : RecheckStep(d)
  BY <1>6 DEF RecheckStep, RecheckSession, RecheckFile, RecheckFails,
     ConfirmFile, RecheckMoved, RecheckUnreadable
<1>7. CASE \E p \in Procs : Crash(p)
  BY <1>7 DEF Crash
<1>8. CASE \E d \in Calls : Store(d) \/ Drop(d) \/ UseSession(d)
  BY <1>8 DEF Store, Drop, UseSession
<1>9. CASE \E t \in Targets : OtherClient(t)
  BY <1>9 DEF OtherClient
<1>10. CASE UNCHANGED vars
  BY <1>10 DEF vars
<1> QED
  BY <1>1, <1>2, <1>3, <1>4, <1>5, <1>6, <1>7, <1>8, <1>9, <1>10 DEF Next, CallStep

(* Steps that neither enter nor leave the stages of the path lock. *)
LEMMA LockStable ==
  ASSUME LockInv, UNCHANGED <<key, locks>>,
         \A c \in Calls : pc'[c] \in LockedStages <=> pc[c] \in LockedStages
  PROVE  LockInv'
  BY DEF LockInv, Target, LockedStages

(* The path lock comes and goes with the stages it protects. *)
LEMMA LockStep ==
  ASSUME TypeOK, LockInv, [Next]_vars
  PROVE  LockInv'
<1> USE ConstantsAssumption DEF Goto, End, callVars, receiptVars, nativeVars,
           TypeOK, LockedStages
<1>1. CASE \E c \in Calls : Plan(c) \/ Start(c) \/ MissingCLI(c)
  BY <1>1, LockStable DEF Plan, Start, MissingCLI
<1>2. CASE \E c \in Calls : PrepareStep(c)
  BY <1>2, LockStable DEF PrepareStep, ReadCommitted, ReadPrepared, FindPrepared,
     CreatePrepared, LoseRace, PrepareFails, FillPrepared, FillFails,
     Recheck, NativeStage
<1>3. CASE \E c \in Calls : CreateStep(c)
  BY <1>3, LockStable DEF CreateStep, WriteFile, WriteFileFails, ObserveAfter, RunCLI,
     CLIConfirms, CLIFails
<1>4. CASE \E c \in Calls : AppendStep(c)
  BY <1>4 DEF AppendStep, LockPath, Observe, TargetChanged, Handshake,
     PreWriteFails, Inject, InjectConfirmed, InjectFails, Unsubscribe,
     UnsubscribeFails, Verify, VerifyFails, Confirm, MovedMeanwhile,
     ReturnFrom, LockInv, Target
<1>5. CASE \E c \in Calls : FinishStep(c)
  BY <1>5, LockStable DEF FinishStep, Release, Commit, CommitFails, RemovePrepared,
     RemoveFails
<1>6. CASE \E c \in Calls : RecheckStep(c)
  BY <1>6, LockStable DEF RecheckStep, RecheckSession, RecheckFile, RecheckFails,
     ConfirmFile, RecheckMoved, RecheckUnreadable
<1>7. CASE \E p \in Procs : Crash(p)
  BY <1>7 DEF LockInv, Target, Crash, Active, Holding, BeforeWrite, MayHaveWritten
<1>8. CASE \E c \in Calls : Store(c) \/ Drop(c) \/ UseSession(c)
  BY <1>8, LockStable DEF Store, Drop, UseSession
<1>9. CASE \E t \in Targets : OtherClient(t)
  BY <1>9, LockStable DEF OtherClient
<1>10. CASE UNCHANGED vars
  BY <1>10, LockStable DEF vars
<1> QED
  BY <1>1, <1>2, <1>3, <1>4, <1>5, <1>6, <1>7, <1>8, <1>9, <1>10 DEF Next, CallStep

(* A revision that was reviewed never becomes newer than the file, and one   *)
(* that was appended to is older.                                            *)
LEMMA StampStep ==
  ASSUME TypeOK, TypeOK', KindInv, OutcomeInv, VerifiedInv, ReachedInv, StampInv,
         [Next]_vars
  PROVE  StampInv'
<1> SUFFICES ASSUME NEW c \in Calls
             PROVE  /\ seen'[c].stamp <= file'[Target(c)].stamp
                    /\ seen'[c].stamp = file'[Target(c)].stamp =>
                          seen'[c] = file'[Target(c)]
                    /\ (c \in written'[key[c]] /\ Kind[key[c]] = "append")
                         \/ pc'[c] = "confirm" \/ Settled(c)'
                         => seen'[c].stamp < file'[Target(c)].stamp
  BY Frame DEF StampInv, Target
<1>1. /\ Target(c) \in Targets /\ key[c] \in Keys
      /\ seen[c].stamp \in Nat /\ seen'[c].stamp \in Nat
      /\ file[Target(c)].stamp \in Nat /\ file'[Target(c)].stamp \in Nat
  BY TargetType DEF TypeOK, Revisions
<1>2. file'[Target(c)] = file[Target(c)]
      \/ file[Target(c)].stamp < file'[Target(c)].stamp
  BY <1>1, Frame
<1>3. CASE seen'[c] = seen[c]
  <2>1. /\ seen[c].stamp <= file[Target(c)].stamp
        /\ seen[c].stamp = file[Target(c)].stamp => seen[c] = file[Target(c)]
    BY DEF StampInv
  <2>2. ASSUME \/ c \in written[key[c]] /\ Kind[key[c]] = "append"
               \/ pc[c] = "confirm" \/ Settled(c)
        PROVE  seen'[c].stamp < file'[Target(c)].stamp
    BY <1>1, <1>2, <1>3, <2>2 DEF StampInv
  <2>3. ASSUME c \in written'[key[c]] \ written[key[c]], Kind[key[c]] = "append"
        PROVE  seen'[c].stamp < file'[Target(c)].stamp
    BY <1>1, <1>3, <2>1, <2>3, Frame
  <2>4. ASSUME Verify(c) PROVE seen'[c].stamp < file'[Target(c)].stamp
    <3>1. pc[c] = "verify" /\ file' = file
          /\ Persisted(key[c], before[c].data, file[Target(c)].data)
      BY <2>4 DEF Verify, Goto, nativeVars
    <3>2. before[c] = seen[c]
      BY <3>1 DEF VerifiedInv, Verified, Watching, LockedStages
    <3>3. seen[c] # file[Target(c)]
      BY <3>1, <3>2, TargetType DEF Persisted
    <3> QED
      BY <1>1, <1>3, <2>1, <3>1, <3>3
  <2> QED
    BY <1>1, <1>2, <1>3, <2>1, <2>2, <2>3, <2>4, WatchStep
<1>4. CASE seen'[c] # seen[c]
  <2>1. /\ pc[c] = "idle" /\ pc'[c] = "planned"
        /\ file' = file /\ seen'[c] = file[Target(c)]
    BY <1>4, Frame
  <2>2. ~(c \in written'[key[c]] /\ Kind[key[c]] = "append")
    <3>1. c \notin written[key[c]]
      BY <1>1, <2>1 DEF ReachedInv, Reached, MayHaveWritten, Finished
    <3> QED
      BY <1>1, <1>4, <3>1, Frame
  <2>3. ~Settled(c)'
    BY <2>1, WatchStep DEF Settled, OutcomeInv
  <2> QED
    BY <1>1, <2>1, <2>2, <2>3
<1> QED
  BY <1>3, <1>4

(* Of two calls of a process one leaves the session file before the other    *)
(* compares it.                                                              *)
LEMMA OrderStep ==
  ASSUME TypeOK, ReceiptInv, KindInv, VerifiedInv, SerialInv, [Next]_vars
  PROVE  OrderInv'
<1> USE DEF SerialInv
<1> SUFFICES ASSUME NEW c \in Calls, NEW d \in Calls, c # d,
                    ProcOf[c] = ProcOf[d], Target(c) = Target(d), Settled(c)',
                    Settled(d)' \/ pc'[d] \in Watching
             PROVE  seen'[c] # seen'[d]
  BY Frame DEF OrderInv, Target, Watching, LockedStages
<1>1. \A e \in Calls : Settled(e) \/ pc[e] \in LockedStages => seen'[e] = seen[e]
  BY Frame DEF Settled, OutcomeInv, ReceiptInv, LockedStages
<1>2. pc[c] \notin LockedStages \/ pc[d] \notin LockedStages
  BY DEF LockInv
<1>3. Settled(c) \/ pc[c] = "confirm"
  BY WatchStep DEF ReceiptInv
<1>4. \/ Settled(d) \/ pc[d] \in Watching
      \/ pc[d] = "observe" /\ file[Target(d)] = seen[d]
  BY WatchStep DEF ReceiptInv, Watching, LockedStages
<1>5. CASE Settled(c)
  <2>1. CASE Settled(d) \/ pc[d] \in Watching
    BY <1>1, <1>5, <2>1 DEF OrderInv, Watching
  <2>2. CASE pc[d] = "observe" /\ file[Target(d)] = seen[d]
    <3>1. seen[c].stamp < seen[d].stamp
      BY <1>5, <2>2 DEF StampInv
    <3>2. seen[c].stamp \in Nat /\ seen[d].stamp \in Nat
      BY DEF TypeOK, Revisions
    <3>3. seen[c] # seen[d]
      BY <3>1, <3>2
    <3> QED
      BY <1>1, <1>5, <2>2, <3>3 DEF LockedStages
  <2> QED
    BY <1>4, <2>1, <2>2
<1>6. CASE pc[c] = "confirm"
  <2>1. pc[c] \in Watching /\ pc[c] \in LockedStages
    BY <1>6 DEF Watching, LockedStages
  <2>2. Settled(d)
    BY <1>2, <1>4, <2>1 DEF Watching, LockedStages
  <2>3. seen[d] # seen[c]
    BY <2>1, <2>2 DEF OrderInv
  <2> QED
    BY <1>1, <2>1, <2>2, <2>3
<1> QED
  BY <1>3, <1>5, <1>6

(* What a call recorded stays so: it has no step left that could change it. *)
LEMMA RecordedStable ==
  ASSUME TypeOK, KindInv, [Next]_vars, NEW c \in Calls, Recorded(c)
  PROVE  Recorded(c)'
<1>1. pc[c] \in {"removePrepared"} \cup Finished
  BY DEF Recorded
<1>2. /\ pc'[c] \in {"removePrepared"} \cup Finished
      /\ before'[c] = before[c] /\ scanned'[c] = scanned[c]
      /\ c \in inflight' => c \in inflight
  <2> USE <1>1 DEF Goto, End, callVars, receiptVars, nativeVars, TypeOK, Finished
  <2>1. CASE \E d \in Calls : Plan(d) \/ Start(d) \/ MissingCLI(d)
    BY <2>1 DEF Plan, Start, MissingCLI
  <2>2. CASE \E d \in Calls : PrepareStep(d)
    BY <2>2 DEF PrepareStep, ReadCommitted, ReadPrepared, FindPrepared,
       CreatePrepared, LoseRace, PrepareFails, FillPrepared, FillFails
  <2>3. CASE \E d \in Calls : CreateStep(d)
    BY <2>3 DEF CreateStep, WriteFile, WriteFileFails, ObserveAfter, RunCLI,
       CLIConfirms, CLIFails
  <2>4. CASE \E d \in Calls : AppendStep(d)
    BY <2>4 DEF AppendStep, LockPath, Observe, TargetChanged, Handshake,
       PreWriteFails, Inject, InjectConfirmed, InjectFails, Unsubscribe,
       UnsubscribeFails, Verify, VerifyFails, Confirm, MovedMeanwhile
  <2>5. CASE \E d \in Calls : FinishStep(d)
    BY <2>5 DEF FinishStep, Release, Commit, CommitFails, RemovePrepared,
       RemoveFails
  <2>6. CASE \E d \in Calls : RecheckStep(d)
    BY <2>6 DEF RecheckStep, RecheckSession, RecheckFile, RecheckFails,
       ConfirmFile, RecheckMoved, RecheckUnreadable
  <2>7. CASE \E p \in Procs : Crash(p)
    BY <2>7 DEF Crash
  <2>8. CASE \E d \in Calls : Store(d) \/ Drop(d) \/ UseSession(d)
    BY <2>8 DEF Store, Drop, UseSession
  <2>9. CASE \E t \in Targets : OtherClient(t)
    BY <2>9 DEF OtherClient
  <2>10. CASE UNCHANGED vars
    BY <2>10 DEF vars
  <2> QED
    BY <2>1, <2>2, <2>3, <2>4, <2>5, <2>6, <2>7, <2>8, <2>9, <2>10 DEF Next, CallStep
<1>3. key' = key /\ seen'[c] = seen[c] /\ written[key[c]] \subseteq written'[key[c]]
  BY <1>1, Frame DEF Finished, TypeOK
<1> QED
  BY <1>2, <1>3 DEF Recorded, Stored

(* Only a stored import is committed. *)
LEMMA RecordedStep ==
  ASSUME TypeOK, ReceiptInv, KindInv, VerifiedInv, RecordedInv, [Next]_vars
  PROVE  RecordedInv'
<1>1. CASE \E c \in Calls : Commit(c)
  <2> PICK c \in Calls : Commit(c)
    BY <1>1
  <2>1. /\ pc[c] = "commit" /\ pc'[c] = "removePrepared"
        /\ committed' = [committed EXCEPT ![key[c]] = c]
        /\ UNCHANGED <<key, callVars, nativeVars>>
    BY DEF Commit, Goto, TypeOK
  <2>2. /\ c \in written[key[c]] \/ key[c] \in Twins
        /\ Kind[key[c]] = "append" =>
              before[c] = seen[c] /\ Persisted(key[c], seen[c].data, scanned[c])
    BY <2>1 DEF VerifiedInv, Verified
  <2>3. c \in written[key[c]] => c \notin inflight
    BY DEF ReceiptInv, ReachedInv, Reached, TypeOK
  <2>4. key[c] \in Twins => Kind[key[c]] = "append"
    BY ConstantsAssumption
  <2>5. Recorded(c)'
    BY <2>1, <2>2, <2>3, <2>4 DEF Recorded, Stored, callVars, nativeVars
  <2>6. \A k \in Keys : committed'[k] # NoCall =>
           \/ k = key[c] /\ committed'[k] = c
           \/ committed'[k] = committed[k] /\ committed[k] \in Calls
    BY <2>1 DEF TypeOK
  <2>7. \A k \in Keys : committed[k] # NoCall =>
           key[committed[k]] = k /\ Recorded(committed[k])
    BY DEF RecordedInv
  <2>8. \A d \in Calls : Recorded(d) => Recorded(d)'
    BY RecordedStable
  <2>9. key' = key
    BY <2>1
  <2> QED
    BY <2>5, <2>6, <2>7, <2>8, <2>9 DEF RecordedInv
<1>2. CASE ~\E c \in Calls : Commit(c)
  <2>1. committed' = committed
    <3> USE <1>2 DEF receiptVars
    <3>1. CASE \E d \in Calls : Plan(d) \/ Start(d) \/ MissingCLI(d)
      BY <3>1 DEF Plan, Start, MissingCLI
    <3>2. CASE \E d \in Calls : PrepareStep(d)
      BY <3>2 DEF PrepareStep, ReadCommitted, ReadPrepared, FindPrepared,
         CreatePrepared, LoseRace, PrepareFails, FillPrepared, FillFails
    <3>3. CASE \E d \in Calls : CreateStep(d)
      BY <3>3 DEF CreateStep, WriteFile, WriteFileFails, ObserveAfter, RunCLI,
         CLIConfirms, CLIFails
    <3>4. CASE \E d \in Calls : AppendStep(d)
      BY <3>4 DEF AppendStep, LockPath, Observe, TargetChanged, Handshake,
         PreWriteFails, Inject, InjectConfirmed, InjectFails, Unsubscribe,
         UnsubscribeFails, Verify, VerifyFails, Confirm, MovedMeanwhile
    <3>5. CASE \E d \in Calls : FinishStep(d)
      BY <3>5 DEF FinishStep, Release, CommitFails, RemovePrepared, RemoveFails
    <3>6. CASE \E d \in Calls : RecheckStep(d)
      BY <3>6 DEF RecheckStep, RecheckSession, RecheckFile, RecheckFails,
         ConfirmFile, RecheckMoved, RecheckUnreadable
    <3>7. CASE \E p \in Procs : Crash(p)
      BY <3>7 DEF Crash
    <3>8. CASE \E d \in Calls : Store(d) \/ Drop(d) \/ UseSession(d)
      BY <3>8 DEF Store, Drop, UseSession
    <3>9. CASE \E t \in Targets : OtherClient(t)
      BY <3>9 DEF OtherClient
    <3>10. CASE UNCHANGED vars
      BY <3>10 DEF vars
    <3> QED
      BY <3>1, <3>2, <3>3, <3>4, <3>5, <3>6, <3>7, <3>8, <3>9, <3>10 DEF Next, CallStep
  <2>2. \A k \in Keys : committed[k] # NoCall =>
           /\ committed[k] \in Calls /\ key[committed[k]] = k
           /\ Recorded(committed[k])
    BY DEF RecordedInv, TypeOK
  <2>3. \A c \in Calls : Recorded(c) => Recorded(c)'
    BY RecordedStable
  <2>4. key' = key
    BY Frame
  <2> QED
    BY <2>1, <2>2, <2>3, <2>4 DEF RecordedInv
<1> QED
  BY <1>1, <1>2

(* A recheck reads a committed receipt, and scans against what it says. *)
LEMMA RepeatStep ==
  ASSUME TypeOK, ReceiptInv, StoreInv, RepeatInv, [Next]_vars
  PROVE  RepeatInv'
<1> DEFINE Rechecking == {"recheckSession", "recheckFile", "confirmFile"}
           Kept(c) == prior[c] \in Calls /\ key[prior[c]] = key[c] /\ Recorded(prior[c])
<1> SUFFICES ASSUME NEW c \in Calls
             PROVE  /\ pc'[c] \in Rechecking => Kept(c)'
                    /\ pc'[c] \in {"recheckFile", "confirmFile"} =>
                          Kind[key[c]] = "append"
                    /\ pc'[c] = "recheckSession" => Kind[key[c]] # "append"
                    /\ pc'[c] = "confirmFile" =>
                          Persisted(key[c], seen'[prior'[c]].data, scanned'[c])
  BY Frame DEF RepeatInv, StoreInv
<1>1. key' = key /\ key[c] \in Keys
  BY Frame DEF StoreInv, TypeOK
<1>2. \A d \in Calls : Recorded(d) => Recorded(d)' /\ seen'[d] = seen[d]
  <2> SUFFICES ASSUME NEW d \in Calls, Recorded(d)
               PROVE  Recorded(d)' /\ seen'[d] = seen[d]
    OBVIOUS
  <2>1. pc[d] # "idle"
    BY DEF Recorded, Finished
  <2> QED
    BY <2>1, Frame, RecordedStable DEF StoreInv
<1>3. CASE ReadCommitted(c)
  <2>1. prior'[c] = committed[key[c]]
    BY <1>3 DEF ReadCommitted, TypeOK
  <2>2. pc'[c] = IF committed[key[c]] # NoCall
                 THEN Recheck(key[c]) ELSE "readPrepared"
    BY <1>3 DEF ReadCommitted, Goto, TypeOK
  <2>3. committed[key[c]] # NoCall =>
           /\ committed[key[c]] \in Calls /\ key[committed[key[c]]] = key[c]
           /\ Recorded(committed[key[c]])
    BY <1>1 DEF StoreInv, RecordedInv, TypeOK
  <2> QED
    BY <1>1, <1>2, <2>1, <2>2, <2>3 DEF Recheck
<1>4. CASE RecheckFile(c)
  <2>1. /\ pc[c] = "recheckFile" /\ pc'[c] = "confirmFile" /\ prior' = prior
        /\ Persisted(key[c], before[prior[c]].data, scanned'[c])
    BY <1>4 DEF RecheckFile, Goto, TypeOK
  <2>2. Kept(c) /\ Kind[key[c]] = "append"
    BY <2>1 DEF RepeatInv
  <2>3. before[prior[c]] = seen[prior[c]]
    BY <2>2 DEF Recorded
  <2> QED
    BY <1>1, <1>2, <2>1, <2>2, <2>3
<1>5. CASE ~ReadCommitted(c) /\ ~RecheckFile(c)
  <2>1. /\ prior'[c] = prior[c]
        /\ pc'[c] \in Rechecking => pc'[c] = pc[c] /\ scanned'[c] = scanned[c]
    <3> USE <1>5, ConstantsAssumption DEF Goto, End, callVars, receiptVars,
               nativeVars, TypeOK
    <3>1. CASE \E d \in Calls : Plan(d) \/ Start(d) \/ MissingCLI(d)
      BY <3>1 DEF Plan, Start, MissingCLI
    <3>2. CASE \E d \in Calls : PrepareStep(d)
      BY <3>2 DEF PrepareStep, ReadCommitted, ReadPrepared, FindPrepared,
         CreatePrepared, LoseRace, PrepareFails, FillPrepared, FillFails,
         Recheck, NativeStage
    <3>3. CASE \E d \in Calls : CreateStep(d)
      BY <3>3 DEF CreateStep, WriteFile, WriteFileFails, ObserveAfter, RunCLI,
         CLIConfirms, CLIFails
    <3>4. CASE \E d \in Calls : AppendStep(d)
      BY <3>4 DEF AppendStep, LockPath, Observe, TargetChanged, Handshake,
         PreWriteFails, Inject, InjectConfirmed, InjectFails, Unsubscribe,
         UnsubscribeFails, Verify, VerifyFails, Confirm, MovedMeanwhile
    <3>5. CASE \E d \in Calls : FinishStep(d)
      BY <3>5 DEF FinishStep, Release, Commit, CommitFails, RemovePrepared,
         RemoveFails
    <3>6. CASE \E d \in Calls : RecheckStep(d)
      BY <3>6 DEF RecheckStep, RecheckSession, RecheckFile, RecheckFails,
         ConfirmFile, RecheckMoved, RecheckUnreadable
    <3>7. CASE \E p \in Procs : Crash(p)
      BY <3>7 DEF Crash
    <3>8. CASE \E d \in Calls : Store(d) \/ Drop(d) \/ UseSession(d)
      BY <3>8 DEF Store, Drop, UseSession
    <3>9. CASE \E t \in Targets : OtherClient(t)
      BY <3>9 DEF OtherClient
    <3>10. CASE UNCHANGED vars
      BY <3>10 DEF vars
    <3> QED
      BY <3>1, <3>2, <3>3, <3>4, <3>5, <3>6, <3>7, <3>8, <3>9, <3>10 DEF Next, CallStep
  <2> QED
    BY <1>1, <1>2, <2>1 DEF RepeatInv
<1> QED
  BY <1>3, <1>4, <1>5

-----------------------------------------------------------------------------
(* The inductive invariant holds in every reachable state. *)
THEOREM Invariance == Spec => []IInv
<1>1. Init => IInv
  <2> SUFFICES ASSUME Init PROVE IInv
    OBVIOUS
  <2>1. TypeOK
    BY TypeCorrectInit
  <2>2. \A k \in Keys : Reached(k) = {}
    BY DEF Init, Reached
  <2>3. ReceiptInv /\ KindInv
    BY <2>2 DEF Init, ReceiptInv, HolderInv, RemovalInv, ReachedInv, OutcomeInv, Holding,
       BeforeWrite, MayHaveWritten, KindInv, AppendStages, LockedStages
  <2>4. DataInv /\ VerifiedInv /\ RecordedInv
    BY DEF Init, DataInv, VerifiedInv, Verified, Watching, LockedStages, RecordedInv
  <2>5. SequentialInv
    BY <2>2 DEF Init, SequentialInv, AtMostOnce, Active, Holding, BeforeWrite, MayHaveWritten
  <2>6. LockInv /\ OrderInv
    BY DEF Init, LockInv, LockedStages, OrderInv, Settled
  <2>7. StampInv
    <3>1. \A c \in Calls : Target(c) \in Targets
      BY <2>1, TargetType
    <3>2. \A c \in Calls : c \notin written[key[c]]
      BY <2>1, <2>2 DEF Reached, TypeOK
    <3> QED
      BY <3>1, <3>2 DEF Init, StampInv, FirstRevision, Settled
  <2>8. RepeatInv
    BY DEF Init, RepeatInv
  <2> QED
    BY <2>1, <2>3, <2>4, <2>5, <2>6, <2>7, <2>8 DEF IInv, StoreInv, SerialInv
<1>2. IInv /\ [Next]_vars => IInv'
  <2> SUFFICES ASSUME IInv, [Next]_vars PROVE IInv'
    OBVIOUS
  <2> USE DEF IInv, ReceiptInv, StoreInv, SerialInv
  <2>1. TypeOK'
    BY TypeStep
  <2>2. ReceiptInv'
    BY HolderStep, RemovalStep, ReachedStep, OutcomeStep
  <2>3. StoreInv'
    BY KindStep, DataStep, VerifiedStep, RecordedStep
  <2>4. SequentialInv'
    BY SequentialStep
  <2>5. SerialInv'
    BY <2>1, LockStep, StampStep, OrderStep
  <2>6. RepeatInv'
    BY RepeatStep
  <2> QED
    BY <2>1, <2>2, <2>3, <2>4, <2>5, <2>6
<1> QED
  BY <1>1, <1>2, PTL DEF Spec

(* Whatever is or may still come into the native store is announced by a     *)
(* complete receipt, for any number of overlapping, failing and dying calls. *)
THEOREM IntentCoversWriteHolds == Spec => []IntentCoversWrite
<1>1. IInv => IntentCoversWrite
  BY DEF IInv, ReceiptInv, ReachedInv, IntentCoversWrite
<1> QED
  BY <1>1, Invariance, PTL

(* An error that invites a retry is never given after a write. *)
THEOREM RetryableIsSafeHolds == Spec => []RetryableIsSafe
<1>1. IInv => RetryableIsSafe
  BY DEF IInv, TypeOK, ReceiptInv, ReachedInv, RetryableIsSafe
<1> QED
  BY <1>1, Invariance, PTL

(* A committed receipt names an import that is in the store. *)
THEOREM CommittedIsWrittenHolds == Spec => []CommittedIsWritten
<1>1. IInv => CommittedIsWritten
  BY DEF IInv, StoreInv, RecordedInv, Recorded, CommittedIsWritten
<1> QED
  BY <1>1, Invariance, PTL

(* A successful append follows every record the user reviewed. *)
THEOREM ReviewedHistoryKeptHolds == Spec => []ReviewedHistoryKept
<1>1. IInv => ReviewedHistoryKept
  BY DEF IInv, StoreInv, VerifiedInv, Verified, ReviewedHistoryKept
<1> QED
  BY <1>1, Invariance, PTL

(* Of two appends of a process to one file, the later one was reviewed after *)
(* the earlier one was in it.                                                *)
THEOREM SerializedAppendsHolds == Spec => []SerializedAppends
<1>1. IInv => SerializedAppends
  BY DEF IInv, SerialInv, OrderInv, Settled, SerializedAppends
<1> QED
  BY <1>1, Invariance, PTL

(* A no-op is answered only at the end of one of the two rechecks. *)
LEMMA NoOpStep ==
  ASSUME TypeOK, [Next]_vars, NEW c \in Calls, outcome'[c] = "noop", outcome[c] # "noop"
  PROVE  RecheckSession(c) \/ ConfirmFile(c)
<1> USE DEF Goto, End, callVars, TypeOK
<1>1. CASE \E d \in Calls : Plan(d) \/ Start(d) \/ MissingCLI(d)
  BY <1>1 DEF Plan, Start, MissingCLI
<1>2. CASE \E d \in Calls : PrepareStep(d)
  BY <1>2 DEF PrepareStep, ReadCommitted, ReadPrepared, FindPrepared,
     CreatePrepared, LoseRace, PrepareFails, FillPrepared, FillFails
<1>3. CASE \E d \in Calls : CreateStep(d)
  BY <1>3 DEF CreateStep, WriteFile, WriteFileFails, ObserveAfter, RunCLI,
     CLIConfirms, CLIFails
<1>4. CASE \E d \in Calls : AppendStep(d)
  BY <1>4 DEF AppendStep, LockPath, Observe, TargetChanged, Handshake,
     PreWriteFails, Inject, InjectConfirmed, InjectFails, Unsubscribe,
     UnsubscribeFails, Verify, VerifyFails, Confirm, MovedMeanwhile
<1>5. CASE \E d \in Calls : FinishStep(d)
  BY <1>5 DEF FinishStep, Release, Commit, CommitFails, RemovePrepared,
     RemoveFails
<1>6. CASE \E d \in Calls : RecheckStep(d)
  BY <1>6 DEF RecheckStep, RecheckSession, RecheckFile, RecheckFails,
     ConfirmFile, RecheckMoved, RecheckUnreadable
<1>7. CASE \E p \in Procs : Crash(p)
  BY <1>7 DEF Crash
<1>8. CASE \E d \in Calls : Store(d) \/ Drop(d) \/ UseSession(d)
  BY <1>8 DEF Store, Drop, UseSession
<1>9. CASE \E t \in Targets : OtherClient(t)
  BY <1>9 DEF OtherClient
<1>10. CASE UNCHANGED vars
  BY <1>10 DEF vars
<1> QED
  BY <1>1, <1>2, <1>3, <1>4, <1>5, <1>6, <1>7, <1>8, <1>9, <1>10 DEF Next, CallStep

(* A call that reports a no-op has written nothing, and the import its       *)
(* receipt names is in the store, found again as the code looks for it.      *)
THEOREM NoOpIsTruthfulHolds == Spec => NoOpIsTruthful
<1> DEFINE Truthful ==
      \A c \in Calls :
          LET d == prior[c]
          IN  outcome'[c] = "noop" /\ outcome[c] # "noop" =>
                /\ c \notin Reached(key[c])
                /\ key[d] = key[c] /\ Stored(d)
                /\ IF Kind[key[c]] = "append"
                   THEN Persisted(key[c], seen[d].data, scanned[c])
                   ELSE /\ session[d] # "absent"
                        /\ session[d] = "altered" => after[d] = "altered"
<1>1. IInv /\ [Next]_vars => [Truthful]_vars
  <2> SUFFICES ASSUME IInv, [Next]_vars, NEW c \in Calls,
                      outcome'[c] = "noop", outcome[c] # "noop"
               PROVE  /\ c \notin Reached(key[c])
                      /\ key[prior[c]] = key[c] /\ Stored(prior[c])
                      /\ IF Kind[key[c]] = "append"
                         THEN Persisted(key[c], seen[prior[c]].data, scanned[c])
                         ELSE /\ session[prior[c]] # "absent"
                              /\ session[prior[c]] = "altered" =>
                                    after[prior[c]] = "altered"
    OBVIOUS
  <2>1. RecheckSession(c) \/ ConfirmFile(c)
    BY NoOpStep DEF IInv
  <2>2. pc[c] \in {"recheckSession", "confirmFile"} /\ key[c] \in Keys
    BY <2>1 DEF RecheckSession, ConfirmFile, End, IInv, TypeOK
  <2>3. c \notin Reached(key[c]) /\ key[prior[c]] = key[c] /\ Stored(prior[c])
    BY <2>2 DEF IInv, ReceiptInv, ReachedInv, MayHaveWritten, Finished, RepeatInv, Recorded
  <2>4. CASE RecheckSession(c)
    <3>1. pc[c] = "recheckSession" /\ StillThere(prior[c])
      BY <2>4 DEF RecheckSession, End, IInv, TypeOK
    <3> QED
      BY <2>3, <3>1 DEF StillThere, PrefixIntact, MessagesAtStart, IInv, RepeatInv
  <2>5. CASE ConfirmFile(c)
    BY <2>3, <2>5 DEF ConfirmFile, End, IInv, RepeatInv
  <2> QED
    BY <2>1, <2>4, <2>5
<1> QED
  BY <1>1, Invariance, PTL DEF Spec, NoOpIsTruthful

(* Calls that do not overlap write a key at most once. *)
THEOREM AtMostOnceHolds ==
  ASSUME ~Concurrent
  PROVE  Spec => []AtMostOnce
<1>1. IInv => AtMostOnce
  BY DEF IInv, SequentialInv
<1> QED
  BY <1>1, Invariance, PTL

-----------------------------------------------------------------------------
(* A step that moves no receipt and stores nothing is a stutter. *)
LEMMA Quiet ==
  ASSUME UNCHANGED <<prepared, committed, written>>
  PROVE  UNCHANGED Once!vars
  BY DEF Once!vars, Phase

(* What OnceImport sees of a step that changes the phase of one key. *)
LEMMA PhaseStep ==
  ASSUME TypeOK, NEW k \in Keys, NEW p, Phase(k)' = p,
         \A l \in Keys \ {k} : Phase(l)' = Phase(l)
  PROVE  [l \in Keys |-> Phase(l)]' = [[l \in Keys |-> Phase(l)] EXCEPT ![k] = p]
  OBVIOUS

(* The receipts and the store start as OnceImport does. *)
LEMMA OnceInit == Init => Once!Init
  BY ConstantsAssumption DEF Init, Once!Init, Phase

(* Every step of calls that do not overlap is a step of OnceImport. *)
LEMMA OnceStep ==
  ASSUME ~Concurrent, Twins = {}, IInv, [Next]_vars
  PROVE  [Once!Next]_(Once!vars)
<1> USE ConstantsAssumption DEF IInv
<1>1. CASE \E c \in Calls : CreatePrepared(c)
  <2> PICK c \in Calls : CreatePrepared(c)
    BY <1>1
  <2> DEFINE k == key[c]
  <2>1. k \in Keys /\ pc[c] = "create" /\ committed[k] = NoCall /\ prepared[k] = NoCall
    BY DEF TypeOK, CreatePrepared, Goto, SequentialInv
  <2>2. Phase(k) = "fresh" /\ Phase(k)' = "intended"
    BY <2>1 DEF CreatePrepared, Phase, TypeOK
  <2>3. \A l \in Keys \ {k} : Phase(l)' = Phase(l)
    BY <2>1 DEF CreatePrepared, Phase, TypeOK
  <2>4. Once!Intend(k)
    BY <2>1, <2>2, <2>3, PhaseStep DEF Once!Intend, CreatePrepared, nativeVars
  <2> QED
    BY <2>1, <2>4 DEF Once!Next
<1>2. CASE \E c \in Calls : FillFails(c) \/ Release(c)
  <2> PICK c \in Calls : FillFails(c) \/ Release(c)
    BY <1>2
  <2> DEFINE k == key[c]
  <2>1. k \in Keys /\ pc[c] \in {"fill", "release"} /\ UNCHANGED <<key, committed, written>>
    BY DEF TypeOK, FillFails, Release, End, nativeVars
  <2>2. committed[k] = NoCall /\ prepared[k] = c /\ Reached(k) \subseteq {c}
    BY <2>1 DEF SequentialInv, ReceiptInv, HolderInv, Holding, BeforeWrite
  <2>3. written[k] = {}
    BY <2>1, <2>2 DEF ReceiptInv, ReachedInv, Reached, MayHaveWritten, Finished
  <2>4. CASE prepared' = prepared
    BY <2>1, <2>4, Quiet
  <2>5. CASE prepared' = [prepared EXCEPT ![k] = NoCall]
    <3>1. Phase(k) = "intended" /\ Phase(k)' = "fresh"
      BY <2>1, <2>2, <2>5 DEF Phase, TypeOK
    <3>2. \A l \in Keys \ {k} : Phase(l)' = Phase(l)
      BY <2>1, <2>5 DEF Phase, TypeOK
    <3>3. Once!Abandon(k)
      BY <2>1, <2>3, <3>1, <3>2, PhaseStep DEF Once!Abandon
    <3> QED
      BY <2>1, <3>3 DEF Once!Next
  <2> QED
    BY <2>4, <2>5 DEF FillFails, Release
<1>3. CASE \E c \in Calls : WriteFile(c) \/ Store(c)
  <2> PICK c \in Calls : WriteFile(c) \/ Store(c)
    BY <1>3
  <2> DEFINE k == key[c]
  <2>1. k \in Keys /\ UNCHANGED <<prepared, committed>>
        /\ written' = [written EXCEPT ![k] = @ \cup {c}]
    BY DEF TypeOK, WriteFile, Store, receiptVars
  <2>2. prepared[k] = c /\ committed[k] = NoCall /\ written[k] = {}
    <3>1. CASE WriteFile(c)
      <4>1. pc[c] = "writeFile"
        BY <3>1 DEF WriteFile, Goto
      <4>2. prepared[k] = c /\ committed[k] = NoCall /\ Reached(k) \subseteq {c}
        BY <4>1 DEF SequentialInv, ReceiptInv, HolderInv, Holding, BeforeWrite
      <4> QED
        BY <2>1, <4>1, <4>2
        DEF ReceiptInv, ReachedInv, Reached, MayHaveWritten, Finished
    <3>2. CASE Store(c)
      <4>1. c \in inflight /\ c \in Reached(k)
        BY <3>2 DEF Store, Reached
      <4>2. prepared[k] = c /\ c \notin written[k]
        BY <2>1, <4>1 DEF ReceiptInv, ReachedInv
      <4>3. written[k] = {}
        BY <2>1, <4>1, <4>2 DEF SequentialInv, AtMostOnce, Reached, TypeOK
      <4> QED
        BY <2>1, <4>2, <4>3 DEF StoreInv, RecordedInv, Recorded, Stored
    <3> QED
      BY <3>1, <3>2
  <2>3. [l \in Keys |-> Phase(l)]' = [l \in Keys |-> Phase(l)] /\ Phase(k) = "intended"
    BY <2>1, <2>2 DEF Phase
  <2>4. Once!Write(k, c)
    BY <2>1, <2>2, <2>3 DEF Once!Write, TypeOK
  <2> QED
    BY <2>1, <2>4 DEF Once!Next
<1>4. CASE \E c \in Calls : Commit(c)
  <2> PICK c \in Calls : Commit(c)
    BY <1>4
  <2> DEFINE k == key[c]
  <2>1. k \in Keys /\ pc[c] = "commit" /\ prepared[k] = c
        /\ UNCHANGED <<key, prepared, written>>
        /\ committed' = [committed EXCEPT ![k] = c]
    BY DEF TypeOK, Commit, Goto, OwnPrepared, nativeVars
  <2>2. committed[k] = NoCall /\ written[k] # {}
    BY <2>1 DEF SequentialInv, Holding, MayHaveWritten, StoreInv, VerifiedInv, Verified
  <2>3. Phase(k) = "intended" /\ Phase(k)' = "recorded"
    BY <2>1, <2>2 DEF Phase, TypeOK
  <2>4. \A l \in Keys \ {k} : Phase(l)' = Phase(l)
    BY <2>1 DEF Phase, TypeOK
  <2>5. Once!Record(k)
    BY <2>1, <2>2, <2>3, <2>4, PhaseStep DEF Once!Record
  <2> QED
    BY <2>1, <2>5 DEF Once!Next
<1>5. CASE \E c \in Calls : RemovePrepared(c)
  <2> PICK c \in Calls : RemovePrepared(c)
    BY <1>5
  <2>1. committed[key[c]] # NoCall
    BY DEF RemovePrepared, End, ReceiptInv, RemovalInv
  <2>2. \A l \in Keys : Phase(l)' = Phase(l)
    BY <2>1 DEF RemovePrepared, Phase, TypeOK
  <2> QED
    BY <2>2 DEF RemovePrepared, Once!vars, nativeVars
<1>6. CASE UNCHANGED <<prepared, committed, written>>
  BY <1>6, Quiet
<1>7. \/ \E c \in Calls : CreatePrepared(c) \/ FillFails(c) \/ Release(c) \/ WriteFile(c)
                            \/ Store(c) \/ Commit(c) \/ RemovePrepared(c)
      \/ UNCHANGED <<prepared, committed, written>>
  <2> USE DEF callVars, receiptVars, nativeVars
  <2>1. CASE \E c \in Calls : Plan(c) \/ Start(c) \/ MissingCLI(c)
    BY <2>1 DEF Plan, Start, MissingCLI
  <2>2. CASE \E c \in Calls : PrepareStep(c)
    BY <2>2 DEF PrepareStep, ReadCommitted, ReadPrepared, FindPrepared, LoseRace,
       PrepareFails, FillPrepared
  <2>3. CASE \E c \in Calls : CreateStep(c)
    BY <2>3 DEF CreateStep, WriteFileFails, ObserveAfter, RunCLI, CLIConfirms, CLIFails
  <2>4. CASE \E c \in Calls : AppendStep(c)
    BY <2>4 DEF AppendStep, LockPath, Observe, TargetChanged, Handshake, PreWriteFails,
       Inject, InjectConfirmed, InjectFails, Unsubscribe, UnsubscribeFails, Verify,
       VerifyFails, Confirm, MovedMeanwhile
  <2>5. CASE \E c \in Calls : FinishStep(c)
    BY <2>5 DEF FinishStep, CommitFails, RemoveFails
  <2>6. CASE \E c \in Calls : RecheckStep(c)
    BY <2>6 DEF RecheckStep, RecheckSession, RecheckFile, RecheckFails, ConfirmFile,
       RecheckMoved, RecheckUnreadable
  <2>7. CASE \E p \in Procs : Crash(p)
    BY <2>7 DEF Crash
  <2>8. CASE \E c \in Calls : Store(c) \/ Drop(c) \/ UseSession(c)
    BY <2>8 DEF Drop, UseSession
  <2>9. CASE \E t \in Targets : OtherClient(t)
    BY <2>9 DEF OtherClient
  <2>10. CASE UNCHANGED vars
    BY <2>10 DEF vars
  <2> QED
    BY <2>1, <2>2, <2>3, <2>4, <2>5, <2>6, <2>7, <2>8, <2>9, <2>10 DEF Next, CallStep
<1> QED
  BY <1>1, <1>2, <1>3, <1>4, <1>5, <1>6, <1>7

(* docs/web-import.md:75-79 holds when one import runs at a time and nobody   *)
(* else writes the same messages.                                            *)
THEOREM OnceRefinement ==
  ASSUME ~Concurrent, Twins = {}
  PROVE  Spec => ImplementsOnce
<1>1. Init => Once!Init
  BY OnceInit
<1>2. IInv /\ [Next]_vars => [Once!Next]_(Once!vars)
  BY OnceStep
<1> QED
  BY <1>1, <1>2, Invariance, PTL DEF Spec, ImplementsOnce, Once!Spec
=============================================================================
