--------------------------- MODULE CodexRpcProofs ---------------------------
(***************************************************************************)
(* For any sizes of the channel and the pipes, and any requests that the    *)
(* server makes itself: an answer is the answer to the request it is taken  *)
(* for, nothing is injected after a failed handshake, and a closed client   *)
(* leaves no server behind.                                                 *)
(***************************************************************************)
EXTENDS CodexRpc, TLAPS

(* A line put at the end of a pipe or a channel. *)
LEMMA AppendFacts ==
  ASSUME NEW S, NEW s \in Seq(S), NEW e \in S
  PROVE  Append(s, e) \in Seq(S) /\ Len(Append(s, e)) = Len(s) + 1
  OBVIOUS

(* A line taken from the front of one. *)
LEMMA TailFacts ==
  ASSUME NEW S, NEW s \in Seq(S), s # <<>>
  PROVE  /\ Head(s) \in S
         /\ Tail(s) \in Seq(S)
         /\ Len(Tail(s)) = Len(s) - 1 /\ Len(s) \in Nat
  OBVIOUS

(* What is in a pipe or a channel was put there. *)
LEMMA ElementFacts ==
  ASSUME NEW S, NEW s \in Seq(S)
  PROVE  \A n \in DOMAIN s : s[n] \in S
  OBVIOUS

(* The start of a client satisfies the invariant. *)
LEMMA InvInit == Init => IInv
<1> SUFFICES ASSUME Init PROVE IInv
  OBVIOUS
<1>1. TypeOK
  <2>1. <<>> \in Seq({0} \cup Ids) /\ <<>> \in Seq(Lines) /\ <<>> \in Seq(Reads)
    OBVIOUS
  <2>2. 0 <= PipeSize /\ 0 <= Capacity /\ 0 \in 0..MaxNoise
    BY SizesAssumption
  <2>3. Failure \in Reads
    BY DEF Reads
  <2> QED
    BY <2>1, <2>2, <2>3 DEF Init, TypeOK
<1>2. LinesInv
  BY DEF Init, LinesInv, Genuine, Failure
<1>3. OrderInv
  BY DEF Init, OrderInv, Resume, Unsubscribe
<1>4. GoneInv /\ FreshInv /\ OwnAnswer /\ AnswerArrives
  BY DEF Init, GoneInv, FreshInv, OwnAnswer, Answers, AnswerArrives
<1> QED
  BY <1>1, <1>2, <1>3, <1>4 DEF IInv

(* Every step keeps every variable in its type. *)
LEMMA TypeStep ==
  ASSUME IInv, [Next]_vars
  PROVE  TypeOK'
<1>0. TypeOK
  BY DEF IInv
<1> USE DEF serverVars, readerVars, IInv, Initialize, Read, Resume, InjectItems, Unsubscribe, Ids, Answers, TypeOK, OrderInv, Lines, Failure, Reads
<1>1. CASE BeginCall
  BY <1>0, <1>1 DEF BeginCall
<1>2. CASE Write
  <2>1. stdin' \in Seq({0} \cup Ids) /\ Len(stdin') <= PipeSize
    BY <1>0, <1>2, SizesAssumption, AppendFacts DEF Write
  <2> QED
    BY <1>0, <1>2, <2>1 DEF Write
<1>3. CASE WriteFails
  BY <1>0, <1>3 DEF WriteFails, Return, Following
<1>4. CASE Receive
  <2>1. responses' \in Seq(Reads) /\ Len(responses') <= Capacity
    BY <1>0, <1>4, SizesAssumption, TailFacts DEF Receive, Return, Following, Decoded
  <2>2. Head(responses) \in Reads
    BY <1>0, <1>4, TailFacts DEF Receive, Return, Following, Decoded
  <2>3. pc' \in {"ready", "writing", "waiting", "notify", "closing", "killed", "closed"}
    BY <1>0, <1>4, <2>2 DEF Receive, Return, Following, Decoded
  <2>4. result' \in [Ids -> Answers \cup {"empty", "none", "failed", "timeout", "exited"}]
    <3>1. id \in Ids /\ id # 0
      BY <1>0, <1>4 DEF Receive
    <3>2. Genuine(Head(responses))
      BY <1>0, <1>4 DEF Receive, LinesInv
    <3>3. Head(responses).id = id =>
             Decoded(Head(responses)) \in Answers \cup {"none", "empty"}
      BY <1>0, <3>1, <3>2 DEF Genuine, Decoded
    <3> QED
      BY <1>0, <1>4, <3>1, <3>3 DEF Receive, Return
  <2> QED
    BY <1>0, <1>4, <2>1, <2>2, <2>3, <2>4 DEF Receive, Return, Following, Decoded
<1>5. CASE SeeExit
  BY <1>0, <1>5 DEF SeeExit, Return, Following
<1>6. CASE TimeOut
  BY <1>0, <1>6 DEF TimeOut, Return, Following
<1>7. CASE Notify
  <2>1. stdin' \in Seq({0} \cup Ids) /\ Len(stdin') <= PipeSize
    <3>1. CASE stdin' = stdin
      BY <3>1, <1>0
    <3>2. CASE Len(stdin) < PipeSize /\ stdin' = Append(stdin, 0)
      <4>1. 0 \in {0} \cup Ids
        OBVIOUS
      <4>2. stdin' \in Seq({0} \cup Ids) /\ Len(stdin') = Len(stdin) + 1
        BY <3>2, <4>1, <1>0, AppendFacts
      <4> QED
        BY <4>2, <3>2, <1>0, SizesAssumption
    <3> QED
      BY <3>1, <3>2, <1>7 DEF Notify
  <2> QED
    BY <1>0, <1>7, <2>1 DEF Notify
<1>8. CASE SeeDone
  BY <1>0, <1>8 DEF SeeDone
<1>9. CASE CloseKills
  BY <1>0, <1>9 DEF CloseKills
<1>10. CASE GiveUp
  BY <1>0, <1>10 DEF GiveUp
<1>11. CASE Scan
  <2>1. stdout' \in Seq(Lines) /\ Len(stdout') <= PipeSize
    BY <1>0, <1>11, SizesAssumption, TailFacts DEF Scan
  <2>2. held' \in Reads
    BY <1>0, <1>11, TailFacts DEF Scan
  <2> QED
    BY <1>0, <1>11, <2>1, <2>2 DEF Scan
<1>12. CASE ScanEnds
  BY <1>0, <1>12 DEF ScanEnds
<1>13. CASE ScanFails
  <2>1. stdout' \in Seq(Lines) /\ Len(stdout') <= PipeSize
    BY <1>0, <1>13, SizesAssumption DEF ScanFails
  <2> QED
    BY <1>0, <1>13, <2>1 DEF ScanFails
<1>14. CASE Publish
  <2>1. responses' \in Seq(Reads) /\ Len(responses') <= Capacity
    BY <1>0, <1>14, SizesAssumption, AppendFacts DEF Publish
  <2> QED
    BY <1>0, <1>14, <2>1 DEF Publish
<1>15. CASE StopPublishing
  BY <1>0, <1>15 DEF StopPublishing
<1>16. CASE WaitReturns
  BY <1>0, <1>16 DEF WaitReturns
<1>17. CASE Expire
  BY <1>0, <1>17 DEF Expire
<1>18. CASE ContextKills
  BY <1>0, <1>18 DEF ContextKills
<1>19. CASE ServerReads
  <2>1. stdin' \in Seq({0} \cup Ids) /\ Len(stdin') <= PipeSize
    BY <1>0, <1>19, SizesAssumption, TailFacts DEF ServerReads
  <2>2. received' \in SUBSET Ids
    <3>1. Head(stdin) \in {0} \cup Ids
      BY <1>0, <1>19, TailFacts DEF ServerReads
    <3> QED
      BY <3>1, <1>0, <1>19 DEF ServerReads
  <2> QED
    BY <1>0, <1>19, <2>1, <2>2 DEF ServerReads
<1>20. CASE ServerAnswers
  <2>1. stdout' \in Seq(Lines) /\ Len(stdout') <= PipeSize
    BY <1>0, <1>20, SizesAssumption, AppendFacts DEF ServerAnswers
  <2>2. answer' \in [Ids -> Answers \cup {"none"}]
    BY <1>0, <1>20, SizesAssumption DEF ServerAnswers
  <2> QED
    BY <1>0, <1>20, <2>1, <2>2 DEF ServerAnswers
<1>21. CASE ServerTalks
  <2>1. PICK line \in Lines : /\ stdout' = Append(stdout, line)
                              /\ asked' = asked \cup ({line.id} \ {0})
    BY <1>21 DEF ServerTalks
  <2>2. stdout' \in Seq(Lines) /\ Len(stdout') <= PipeSize
    <3> HIDE DEF Lines
    <3>1. stdout \in Seq(Lines) /\ Len(stdout) < PipeSize
      BY <1>0, <1>21 DEF ServerTalks
    <3> QED
      BY <2>1, <3>1, SizesAssumption, AppendFacts
  <2>3. noise' \in 0..MaxNoise
    BY <1>0, <1>21, SizesAssumption DEF ServerTalks
  <2>4. asked' \in SUBSET Ids
    BY <1>0, <2>1
  <2> QED
    BY <1>0, <1>21, <2>2, <2>3, <2>4 DEF ServerTalks
<1>22. CASE ServerExits
  BY <1>0, <1>22 DEF ServerExits
<1>23. CASE UNCHANGED vars
  BY <1>0, <1>23 DEF vars
<1> QED
  BY <1>1, <1>2, <1>3, <1>4, <1>5, <1>6, <1>7, <1>8, <1>9, <1>10, <1>11, <1>12, <1>13, <1>14, <1>15, <1>16, <1>17, <1>18, <1>19, <1>20, <1>21, <1>22, <1>23 DEF Next, CallerStep, ReaderStep, ContextStep, ServerStep

(* What Genuine says after a step. *)
GenuineNext(line) ==
    line.id # 0 => IF line.what = "request" THEN line.id \in asked'
                                            ELSE line.what = answer'[line.id]

(* A line more in stdout, and what is genuine stays so. *)
LEMMA LinesKept ==
  ASSUME TypeOK, LinesInv, NEW line \in Lines,
         stdout' = Append(stdout, line), held' = held, responses' = responses,
         \A old \in Reads : Genuine(old) => GenuineNext(old), GenuineNext(line)
  PROVE  LinesInv'
<1>1. /\ stdout \in Seq(Lines) /\ responses \in Seq(Reads) /\ held \in Reads
      /\ Lines \subseteq Reads
  BY DEF TypeOK, Reads
<1>2. \A n \in DOMAIN stdout : stdout[n] \in Reads
  BY <1>1, ElementFacts
<1>3. \A n \in DOMAIN responses : responses[n] \in Reads
  BY <1>1, ElementFacts
<1>4. ASSUME NEW n \in DOMAIN stdout' PROVE GenuineNext(stdout'[n])
  <2>1. n = Len(stdout) + 1 => stdout'[n] = line
    BY <1>1
  <2>2. n # Len(stdout) + 1 => n \in DOMAIN stdout /\ stdout'[n] = stdout[n]
    BY <1>1
  <2>3. CASE n = Len(stdout) + 1
    BY <2>1, <2>3
  <2>4. CASE n # Len(stdout) + 1
    <3>1. Genuine(stdout[n])
      BY <2>2, <2>4 DEF LinesInv
    <3> QED
      BY <1>2, <2>2, <2>4, <3>1
  <2> QED
    BY <2>3, <2>4
<1>5. ASSUME NEW n \in DOMAIN responses' PROVE GenuineNext(responses'[n])
  BY <1>3, <1>5 DEF LinesInv
<1>6. GenuineNext(held')
  BY <1>1 DEF LinesInv
<1> QED
  BY <1>4, <1>5, <1>6 DEF LinesInv, Genuine, GenuineNext

(* No step makes, or moves, a line the server did not answer. *)
LEMMA LinesStep ==
  ASSUME IInv, [Next]_vars
  PROVE  LinesInv'
<1>0. TypeOK
  BY DEF IInv
<1> USE DEF serverVars, readerVars, IInv, Initialize, Read, Resume, InjectItems, Unsubscribe, Ids, Answers, TypeOK, LinesInv, Genuine, Lines, Failure, Reads
<1>1. CASE BeginCall
  BY <1>0, <1>1 DEF BeginCall
<1>2. CASE Write
  BY <1>0, <1>2 DEF Write
<1>3. CASE WriteFails
  BY <1>0, <1>3 DEF WriteFails, Return, Following
<1>4. CASE Receive
  BY <1>0, <1>4 DEF Receive, Return, Following, Decoded
<1>5. CASE SeeExit
  BY <1>0, <1>5 DEF SeeExit, Return, Following
<1>6. CASE TimeOut
  BY <1>0, <1>6 DEF TimeOut, Return, Following
<1>7. CASE Notify
  BY <1>0, <1>7 DEF Notify
<1>8. CASE SeeDone
  BY <1>0, <1>8 DEF SeeDone
<1>9. CASE CloseKills
  BY <1>0, <1>9 DEF CloseKills
<1>10. CASE GiveUp
  BY <1>0, <1>10 DEF GiveUp
<1>11. CASE Scan
  BY <1>0, <1>11 DEF Scan
<1>12. CASE ScanEnds
  BY <1>0, <1>12 DEF ScanEnds
<1>13. CASE ScanFails
  BY <1>0, <1>13 DEF ScanFails
<1>14. CASE Publish
  BY <1>0, <1>14 DEF Publish
<1>15. CASE StopPublishing
  BY <1>0, <1>15 DEF StopPublishing
<1>16. CASE WaitReturns
  BY <1>0, <1>16 DEF WaitReturns
<1>17. CASE Expire
  BY <1>0, <1>17 DEF Expire
<1>18. CASE ContextKills
  BY <1>0, <1>18 DEF ContextKills
<1>19. CASE ServerReads
  BY <1>0, <1>19 DEF ServerReads
<1>20. CASE ServerAnswers
  <2>1. PICK i \in received, what \in Answers :
          /\ answer[i] = "none"
          /\ answer' = [answer EXCEPT ![i] = what]
          /\ stdout' = Append(stdout, [id |-> i, what |-> what])
    BY <1>20 DEF ServerAnswers
  <2>2. /\ i \in Ids /\ [id |-> i, what |-> what] \in Lines
        /\ \A k \in Ids : answer'[k] = IF k = i THEN what ELSE answer[k]
        /\ asked' = asked /\ held' = held /\ responses' = responses
    BY <1>0, <1>20, <2>1 DEF ServerAnswers
  <2>3. \A line \in Reads : Genuine(line) => GenuineNext(line)
    BY <1>0, <2>1, <2>2 DEF GenuineNext
  <2>4. GenuineNext([id |-> i, what |-> what])
    BY <1>0, <2>2 DEF GenuineNext
  <2> QED
    BY <1>0, <2>1, <2>2, <2>3, <2>4, LinesKept
<1>21. CASE ServerTalks
  <2>1. PICK line \in Lines :
          /\ line.what \in {"request", "garbage"}
          /\ line.what = "garbage" => line.id = 0
          /\ stdout' = Append(stdout, line)
          /\ asked' = asked \cup ({line.id} \ {0})
    BY <1>21 DEF ServerTalks
  <2>2. answer' = answer /\ held' = held /\ responses' = responses
    BY <1>21 DEF ServerTalks
  <2>3. \A old \in Reads : Genuine(old) => GenuineNext(old)
    BY <2>1, <2>2 DEF GenuineNext
  <2>4. GenuineNext(line)
    BY <2>1 DEF GenuineNext
  <2> QED
    BY <1>0, <2>1, <2>2, <2>3, <2>4, LinesKept
<1>22. CASE ServerExits
  BY <1>0, <1>22 DEF ServerExits
<1>23. CASE UNCHANGED vars
  BY <1>0, <1>23 DEF vars
<1> QED
  BY <1>1, <1>2, <1>3, <1>4, <1>5, <1>6, <1>7, <1>8, <1>9, <1>10, <1>11, <1>12, <1>13, <1>14, <1>15, <1>16, <1>17, <1>18, <1>19, <1>20, <1>21, <1>22, <1>23 DEF Next, CallerStep, ReaderStep, ContextStep, ServerStep

(* No step sends a request after a failed handshake. *)
LEMMA OrderStep ==
  ASSUME IInv, [Next]_vars
  PROVE  OrderInv'
<1>0. TypeOK
  BY DEF IInv
<1> USE DEF serverVars, readerVars, IInv, Initialize, Read, Resume, InjectItems, Unsubscribe, Ids, Answers, TypeOK, OrderInv
<1>1. CASE BeginCall
  <2>1. pc = "ready" /\ pc' = "writing" /\ id' = id + 1 /\ id \in Nat
        /\ UNCHANGED <<result, stdin, received>>
    BY <1>0, <1>1 DEF BeginCall
  <2>2. \A i \in 1..3 : i < id + 1 =>
           result[i] = "ok" \/ (i = 1 /\ result[i] = "empty")
    BY <2>1
  <2>3. \A n \in DOMAIN stdin : stdin[n] \in Nat
    BY <1>0
  <2>4. \A i \in received : i \in Nat
    BY <1>0
  <2> QED
    BY <2>1, <2>2, <2>3, <2>4
<1>2. CASE Write
  BY <1>0, <1>2 DEF Write
<1>3. CASE WriteFails
  BY <1>0, <1>3 DEF WriteFails, Return, Following
<1>4. CASE Receive
  BY <1>0, <1>4 DEF Receive, Return, Following, Decoded
<1>5. CASE SeeExit
  BY <1>0, <1>5 DEF SeeExit, Return, Following
<1>6. CASE TimeOut
  BY <1>0, <1>6 DEF TimeOut, Return, Following
<1>7. CASE Notify
  <2>1. CASE server = "up" /\ stdin' = Append(stdin, 0) /\ pc' = "ready"
    <3>1. pc = "notify" /\ id = 1 /\ stdin \in Seq(Nat)
          /\ UNCHANGED <<id, result, received>>
      BY <1>0, <1>7 DEF Notify
    <3>2. \A n \in 1..Len(stdin) : stdin[n] <= 1
      BY ONLY <3>1, OrderInv, <1>0 DEF OrderInv
    <3>3. ASSUME NEW n \in 1..Len(stdin) + 1
          PROVE  Append(stdin, 0)[n] <= 1
      BY ONLY <3>1, <3>2, <3>3
    <3>4. DOMAIN stdin' = 1..Len(stdin) + 1
      BY ONLY <2>1, <3>1
    <3>5. \A n \in DOMAIN stdin' : stdin'[n] <= id'
      BY ONLY <2>1, <3>1, <3>3, <3>4
    <3> QED
      BY <2>1, <3>1, <3>5
  <2>2. CASE pc' = "closing" /\ UNCHANGED stdin
    BY <1>0, <1>7, <2>2 DEF Notify
  <2> QED
    BY <1>7, <2>1, <2>2 DEF Notify
<1>8. CASE SeeDone
  BY <1>0, <1>8 DEF SeeDone
<1>9. CASE CloseKills
  BY <1>0, <1>9 DEF CloseKills
<1>10. CASE GiveUp
  BY <1>0, <1>10 DEF GiveUp
<1>11. CASE Scan
  BY <1>0, <1>11 DEF Scan
<1>12. CASE ScanEnds
  BY <1>0, <1>12 DEF ScanEnds
<1>13. CASE ScanFails
  BY <1>0, <1>13 DEF ScanFails
<1>14. CASE Publish
  BY <1>0, <1>14 DEF Publish
<1>15. CASE StopPublishing
  BY <1>0, <1>15 DEF StopPublishing
<1>16. CASE WaitReturns
  BY <1>0, <1>16 DEF WaitReturns
<1>17. CASE Expire
  BY <1>0, <1>17 DEF Expire
<1>18. CASE ContextKills
  BY <1>0, <1>18 DEF ContextKills
<1>19. CASE ServerReads
  BY <1>0, <1>19 DEF ServerReads
<1>20. CASE ServerAnswers
  BY <1>0, <1>20 DEF ServerAnswers
<1>21. CASE ServerTalks
  BY <1>0, <1>21 DEF ServerTalks
<1>22. CASE ServerExits
  BY <1>0, <1>22 DEF ServerExits
<1>23. CASE UNCHANGED vars
  BY <1>0, <1>23 DEF vars
<1> QED
  BY <1>1, <1>2, <1>3, <1>4, <1>5, <1>6, <1>7, <1>8, <1>9, <1>10, <1>11, <1>12, <1>13, <1>14, <1>15, <1>16, <1>17, <1>18, <1>19, <1>20, <1>21, <1>22, <1>23 DEF Next, CallerStep, ReaderStep, ContextStep, ServerStep

(* No step gives up a server that is up. *)
LEMMA GoneStep ==
  ASSUME IInv, [Next]_vars
  PROVE  GoneInv'
<1>0. TypeOK
  BY DEF IInv
<1> USE DEF serverVars, readerVars, IInv, Initialize, Read, Resume, InjectItems, Unsubscribe, Ids, Answers, TypeOK, GoneInv
<1>1. CASE BeginCall
  BY <1>0, <1>1 DEF BeginCall
<1>2. CASE Write
  BY <1>0, <1>2 DEF Write
<1>3. CASE WriteFails
  BY <1>0, <1>3 DEF WriteFails, Return, Following
<1>4. CASE Receive
  BY <1>0, <1>4 DEF Receive, Return, Following, Decoded
<1>5. CASE SeeExit
  BY <1>0, <1>5 DEF SeeExit, Return, Following
<1>6. CASE TimeOut
  BY <1>0, <1>6 DEF TimeOut, Return, Following
<1>7. CASE Notify
  BY <1>0, <1>7 DEF Notify
<1>8. CASE SeeDone
  BY <1>0, <1>8 DEF SeeDone
<1>9. CASE CloseKills
  BY <1>0, <1>9 DEF CloseKills
<1>10. CASE GiveUp
  BY <1>0, <1>10 DEF GiveUp
<1>11. CASE Scan
  BY <1>0, <1>11 DEF Scan
<1>12. CASE ScanEnds
  BY <1>0, <1>12 DEF ScanEnds
<1>13. CASE ScanFails
  BY <1>0, <1>13 DEF ScanFails
<1>14. CASE Publish
  BY <1>0, <1>14 DEF Publish
<1>15. CASE StopPublishing
  BY <1>0, <1>15 DEF StopPublishing
<1>16. CASE WaitReturns
  BY <1>0, <1>16 DEF WaitReturns
<1>17. CASE Expire
  BY <1>0, <1>17 DEF Expire
<1>18. CASE ContextKills
  BY <1>0, <1>18 DEF ContextKills
<1>19. CASE ServerReads
  BY <1>0, <1>19 DEF ServerReads
<1>20. CASE ServerAnswers
  BY <1>0, <1>20 DEF ServerAnswers
<1>21. CASE ServerTalks
  BY <1>0, <1>21 DEF ServerTalks
<1>22. CASE ServerExits
  BY <1>0, <1>22 DEF ServerExits
<1>23. CASE UNCHANGED vars
  BY <1>0, <1>23 DEF vars
<1> QED
  BY <1>1, <1>2, <1>3, <1>4, <1>5, <1>6, <1>7, <1>8, <1>9, <1>10, <1>11, <1>12, <1>13, <1>14, <1>15, <1>16, <1>17, <1>18, <1>19, <1>20, <1>21, <1>22, <1>23 DEF Next, CallerStep, ReaderStep, ContextStep, ServerStep

(* No step takes a line for another answer. *)
LEMMA AnswerStep ==
  ASSUME IInv, [Next]_vars
  PROVE  OwnAnswer'
<1>0. TypeOK
  BY DEF IInv
<1> USE DEF serverVars, readerVars, IInv, Initialize, Read, Resume, InjectItems, Unsubscribe, Ids, Answers, TypeOK, LinesInv, Genuine, OwnAnswer, Lines, Failure, Reads
<1>1. CASE BeginCall
  BY <1>0, <1>1 DEF BeginCall
<1>2. CASE Write
  BY <1>0, <1>2 DEF Write
<1>3. CASE WriteFails
  BY <1>0, <1>3 DEF WriteFails, Return, Following
<1>4. CASE Receive
  BY <1>0, <1>4 DEF Receive, Return, Following, Decoded
<1>5. CASE SeeExit
  BY <1>0, <1>5 DEF SeeExit, Return, Following
<1>6. CASE TimeOut
  BY <1>0, <1>6 DEF TimeOut, Return, Following
<1>7. CASE Notify
  BY <1>0, <1>7 DEF Notify
<1>8. CASE SeeDone
  BY <1>0, <1>8 DEF SeeDone
<1>9. CASE CloseKills
  BY <1>0, <1>9 DEF CloseKills
<1>10. CASE GiveUp
  BY <1>0, <1>10 DEF GiveUp
<1>11. CASE Scan
  BY <1>0, <1>11 DEF Scan
<1>12. CASE ScanEnds
  BY <1>0, <1>12 DEF ScanEnds
<1>13. CASE ScanFails
  BY <1>0, <1>13 DEF ScanFails
<1>14. CASE Publish
  BY <1>0, <1>14 DEF Publish
<1>15. CASE StopPublishing
  BY <1>0, <1>15 DEF StopPublishing
<1>16. CASE WaitReturns
  BY <1>0, <1>16 DEF WaitReturns
<1>17. CASE Expire
  BY <1>0, <1>17 DEF Expire
<1>18. CASE ContextKills
  BY <1>0, <1>18 DEF ContextKills
<1>19. CASE ServerReads
  BY <1>0, <1>19 DEF ServerReads
<1>20. CASE ServerAnswers
  BY <1>0, <1>20 DEF ServerAnswers
<1>21. CASE ServerTalks
  BY <1>0, <1>21 DEF ServerTalks
<1>22. CASE ServerExits
  BY <1>0, <1>22 DEF ServerExits
<1>23. CASE UNCHANGED vars
  BY <1>0, <1>23 DEF vars
<1> QED
  BY <1>1, <1>2, <1>3, <1>4, <1>5, <1>6, <1>7, <1>8, <1>9, <1>10, <1>11, <1>12, <1>13, <1>14, <1>15, <1>16, <1>17, <1>18, <1>19, <1>20, <1>21, <1>22, <1>23 DEF Next, CallerStep, ReaderStep, ContextStep, ServerStep

(* Nothing is answered that was not received, or received that was not sent. *)
LEMMA FreshStep ==
  ASSUME IInv, [Next]_vars
  PROVE  FreshInv'
<1>0. TypeOK /\ OrderInv /\ FreshInv
  BY DEF IInv
<1> USE DEF serverVars, readerVars, Initialize, Read, Resume, InjectItems, Unsubscribe, Ids, FreshInv
<1>1. CASE BeginCall
  <2>1. id \in Nat /\ id + 1 \in Ids /\ pc = "ready"
    BY <1>0, <1>1 DEF BeginCall, TypeOK, OrderInv
  <2>2. id + 1 \notin received
    BY <1>0, <2>1 DEF OrderInv, TypeOK
  <2>3. \A n \in DOMAIN stdin : stdin[n] # id + 1
    BY <1>0, <2>1 DEF OrderInv, TypeOK
  <2> QED
    BY <1>0, <1>1, <2>2, <2>3 DEF BeginCall
<1>2. CASE Write
  BY <1>0, <1>2 DEF Write
<1>3. CASE WriteFails \/ SeeExit \/ TimeOut
  BY <1>0, <1>3 DEF WriteFails, SeeExit, TimeOut, Return, Following
<1>4. CASE Receive
  BY <1>0, <1>4 DEF Receive, Return, Following, Decoded
<1>5. CASE Notify
  BY <1>0, <1>5 DEF Notify
<1>6. CASE SeeDone \/ CloseKills \/ GiveUp
  BY <1>0, <1>6 DEF SeeDone, CloseKills, GiveUp
<1>7. CASE ReaderStep
  BY <1>0, <1>7 DEF ReaderStep, Scan, ScanEnds, ScanFails, Publish, StopPublishing
<1>8. CASE WaitReturns \/ ContextStep
  BY <1>0, <1>8 DEF WaitReturns, ContextStep, Expire, ContextKills
<1>9. CASE ServerReads
  <2>1. /\ stdin # <<>> /\ stdin \in Seq({0} \cup Ids)
        /\ received' = received \cup ({Head(stdin)} \ {0}) /\ stdin' = Tail(stdin)
        /\ UNCHANGED <<pc, id, answer>>
    BY <1>0, <1>9 DEF ServerReads, TypeOK
  <2>2. \A n \in DOMAIN stdin' : n + 1 \in DOMAIN stdin /\ stdin'[n] = stdin[n + 1]
    BY <2>1
  <2>3. 1 \in DOMAIN stdin /\ Head(stdin) = stdin[1]
    BY <2>1
  <2> QED
    BY <1>0, <2>1, <2>2, <2>3
<1>10. CASE ServerAnswers
  BY <1>0, <1>10 DEF ServerAnswers, TypeOK
<1>11. CASE ServerTalks \/ ServerExits
  BY <1>0, <1>11 DEF ServerTalks, ServerExits
<1>12. CASE UNCHANGED vars
  BY <1>0, <1>12 DEF vars
<1> QED
  BY <1>1, <1>2, <1>3, <1>4, <1>5, <1>6, <1>7, <1>8, <1>9, <1>10, <1>11, <1>12
  DEF Next, CallerStep, ServerStep

(* The lines of a pipe or a channel, and how they change. *)
Elements(s) == {s[n] : n \in DOMAIN s}

LEMMA ElementsAppend ==
  ASSUME NEW S, NEW s \in Seq(S), NEW e \in S
  PROVE  Elements(Append(s, e)) = Elements(s) \cup {e}
<1>1. DOMAIN Append(s, e) = DOMAIN s \cup {Len(s) + 1}
  OBVIOUS
<1>2. \A n \in DOMAIN s : Append(s, e)[n] = s[n]
  OBVIOUS
<1>3. Append(s, e)[Len(s) + 1] = e
  OBVIOUS
<1> QED
  BY <1>1, <1>2, <1>3 DEF Elements

LEMMA ElementsTail ==
  ASSUME NEW S, NEW s \in Seq(S), s # <<>>
  PROVE  Elements(s) = {Head(s)} \cup Elements(Tail(s))
<1>1. 1 \in DOMAIN s /\ s[1] = Head(s)
  OBVIOUS
<1>2. \A n \in DOMAIN Tail(s) : n + 1 \in DOMAIN s /\ s[n + 1] = Tail(s)[n]
  OBVIOUS
<1>3. \A n \in DOMAIN s : n = 1 \/ (n - 1 \in DOMAIN Tail(s) /\ Tail(s)[n - 1] = s[n])
  OBVIOUS
<1>4. \A e \in Elements(s) : e = Head(s) \/ e \in Elements(Tail(s))
  BY <1>1, <1>3 DEF Elements
<1>5. \A e \in Elements(Tail(s)) : e \in Elements(s)
  BY <1>2 DEF Elements
<1>6. Head(s) \in Elements(s)
  BY <1>1 DEF Elements
<1> QED
  BY <1>4, <1>5, <1>6

(* A caller that waits after a step waited before it for the same answer, or *)
(* has just sent its request.                                                *)
LEMMA WaitStep ==
  ASSUME IInv, [Next]_vars, pc' = "waiting"
  PROVE  \/ Write
         \/ pc = "waiting" /\ id' = id /\ id \in Ids
<1> USE DEF IInv, TypeOK, OrderInv, serverVars, readerVars, Return, Following
<1>1. CASE CallerStep
  BY <1>1 DEF CallerStep, BeginCall, WriteFails, Receive, SeeExit, TimeOut,
     Notify, SeeDone, CloseKills, GiveUp
<1>2. CASE ReaderStep
  BY <1>2 DEF ReaderStep, Scan, ScanEnds, ScanFails, Publish, StopPublishing
<1>3. CASE WaitReturns \/ ContextStep \/ ServerStep
  BY <1>3 DEF WaitReturns, ContextStep, Expire, ContextKills, ServerStep,
     ServerReads, ServerAnswers, ServerTalks, ServerExits
<1>4. CASE UNCHANGED vars
  BY <1>4 DEF vars
<1> QED
  BY <1>1, <1>2, <1>3, <1>4 DEF Next

(* No step drops the answer a caller is waiting for. *)
LEMMA ArriveStep ==
  ASSUME IInv, TypeOK', [Next]_vars
  PROVE  AnswerArrives'
<1> DEFINE Wanted == [id |-> id, what |-> answer[id]]
<1>0. /\ TypeOK /\ OrderInv /\ FreshInv /\ AnswerArrives
      /\ stdout \in Seq(Lines) /\ responses \in Seq(Reads) /\ held \in Reads
  BY DEF IInv, TypeOK
<1> SUFFICES ASSUME pc' = "waiting", answer'[id'] # "none", reader' # "ended", ~done'
             PROVE  [id |-> id', what |-> answer'[id']] \in Underway'
  BY DEF AnswerArrives
<1>1. ~Write
  <2> SUFFICES ASSUME Write PROVE FALSE
    OBVIOUS
  <2>1. pc = "writing" /\ id' = id /\ answer' = answer
    BY DEF Write, serverVars
  <2>2. id \in Ids
    BY <1>0, <2>1 DEF TypeOK, OrderInv
  <2> QED
    BY <1>0, <2>1, <2>2 DEF FreshInv
<1>2. pc = "waiting" /\ id' = id /\ id \in Ids
  BY <1>1, WaitStep
<1>3. ~done
  BY <1>0 DEF Next, CallerStep, BeginCall, Write, WriteFails, Receive, SeeExit, TimeOut,
     Notify, SeeDone, CloseKills, GiveUp, ReaderStep, Scan, ScanEnds, ScanFails, Publish,
     StopPublishing, WaitReturns, ContextStep, Expire, ContextKills, ServerStep,
     ServerReads, ServerAnswers, ServerTalks, ServerExits, vars, TypeOK
<1>4. reader # "ended"
  BY <1>0 DEF Next, CallerStep, BeginCall, Write, WriteFails, Receive, SeeExit, TimeOut,
     Notify, SeeDone, CloseKills, GiveUp, ReaderStep, Scan, ScanEnds, ScanFails, Publish,
     StopPublishing, WaitReturns, ContextStep, Expire, ContextKills, ServerStep,
     ServerReads, ServerAnswers, ServerTalks, ServerExits, vars, TypeOK, readerVars
<1>5. answer[id] # "none" => Wanted \in Underway
  BY <1>0, <1>2, <1>3, <1>4 DEF AnswerArrives
<1>6. CASE UNCHANGED <<stdout, responses, readerVars, answer>>
  BY <1>2, <1>5, <1>6 DEF Underway, readerVars
<1>7. CASE Receive
  <2>1. /\ responses # <<>> /\ responses' = Tail(responses)
        /\ UNCHANGED <<stdout, reader, held, answer>>
    BY <1>7 DEF Receive, serverVars, readerVars
  <2>2. Head(responses) # Wanted
    <3> SUFFICES ASSUME Head(responses) = Wanted PROVE FALSE
      OBVIOUS
    <3>1. answer[id] \in Answers
      BY <1>0, <1>2, <2>1 DEF TypeOK
    <3>2. Wanted # Failure /\ Wanted.id = id
      BY <1>2, <3>1 DEF Failure, Answers, Ids, Unsubscribe
    <3>3. Head(responses) # Failure /\ Head(responses).id = id
          /\ Head(responses).what = answer[id]
      BY <3>2
    <3>4. Decoded(Head(responses)) = answer[id]
      BY <3>1, <3>3 DEF Decoded, Answers
    <3>5. pc' \in Following(id, answer[id])
      BY <1>7, <3>3, <3>4 DEF Receive, Return
    <3> QED
      BY <3>5 DEF Following
  <2>3. Elements(responses) = {Head(responses)} \cup Elements(responses')
    BY <1>0, <2>1, ElementsTail
  <2> QED
    BY <1>2, <1>5, <2>1, <2>2, <2>3 DEF Underway, Elements
<1>8. CASE Scan
  <2>1. /\ reader = "scan" /\ reader' = "publish" /\ stdout # <<>>
        /\ stdout' = Tail(stdout)
        /\ held' = IF Head(stdout).what = "garbage" THEN Failure ELSE Head(stdout)
        /\ UNCHANGED <<answer, responses>>
    BY <1>8 DEF Scan, serverVars
  <2>2. Elements(stdout) = {Head(stdout)} \cup Elements(stdout')
    BY <1>0, <2>1, ElementsTail
  <2>3. Wanted = Head(stdout) => held' = Wanted
    <3>1. answer[id] # "garbage"
      BY <1>0, <1>2 DEF TypeOK, Answers
    <3> QED
      BY <2>1, <3>1
  <2> QED
    BY <1>2, <1>5, <2>1, <2>2, <2>3 DEF Underway, Elements
<1>9. CASE Publish
  <2>1. /\ reader = "publish" /\ responses' = Append(responses, held)
        /\ UNCHANGED <<answer, stdout, held>>
    BY <1>9 DEF Publish, serverVars
  <2>2. Elements(responses') = Elements(responses) \cup {held}
    BY <1>0, <2>1, ElementsAppend
  <2> QED
    BY <1>2, <1>5, <2>1, <2>2 DEF Underway, Elements
<1>10. CASE ServerAnswers
  <2>1. PICK i \in received, what \in Answers :
          /\ answer[i] = "none"
          /\ answer' = [answer EXCEPT ![i] = what]
          /\ stdout' = Append(stdout, [id |-> i, what |-> what])
    BY <1>10 DEF ServerAnswers
  <2>2. i \in Ids /\ [id |-> i, what |-> what] \in Lines
    BY <1>0 DEF TypeOK, Lines
  <2>3. Elements(stdout') = Elements(stdout) \cup {[id |-> i, what |-> what]}
    BY <1>0, <2>1, <2>2, ElementsAppend
  <2>4. UNCHANGED <<responses, reader, held>>
    BY <1>10 DEF ServerAnswers, readerVars
  <2>5. CASE i = id
    BY <1>0, <1>2, <2>1, <2>2, <2>3, <2>5 DEF Underway, Elements, TypeOK
  <2>6. CASE i # id
    <3>1. answer'[id] = answer[id]
      BY <1>0, <1>2, <2>1, <2>6 DEF TypeOK
    <3> QED
      BY <1>2, <1>5, <2>3, <2>4, <3>1 DEF Underway, Elements
  <2> QED
    BY <2>5, <2>6
<1>11. CASE ServerTalks
  <2>1. PICK line \in Lines : stdout' = Append(stdout, line)
    BY <1>11 DEF ServerTalks, Lines
  <2>3. Elements(stdout') = Elements(stdout) \cup {line}
    BY <1>0, <2>1, ElementsAppend
  <2> QED
    BY <1>2, <1>5, <1>11, <2>3 DEF ServerTalks, Underway, Elements, readerVars
<1>12. CASE ScanEnds \/ ScanFails \/ StopPublishing
  BY <1>2, <1>3, <1>12 DEF ScanEnds, ScanFails, StopPublishing, Finished
<1> QED
  BY <1>1, <1>6, <1>7, <1>8, <1>9, <1>10, <1>11, <1>12
  DEF Next, CallerStep, BeginCall, WriteFails, SeeExit, TimeOut, Notify, SeeDone,
      CloseKills, GiveUp, ReaderStep, WaitReturns, ContextStep, Expire, ContextKills,
      ServerStep, ServerReads, ServerExits, vars, serverVars

(* The inductive invariant holds in every reachable state. *)
THEOREM Invariance == Spec => []IInv
<1>1. IInv /\ [Next]_vars => IInv'
  BY TypeStep, LinesStep, OrderStep, GoneStep, FreshStep, AnswerStep, ArriveStep DEF IInv
<1> QED
  BY <1>1, InvInit, PTL DEF Spec

(* Type correctness: no channel or pipe ever holds more than its size. *)
THEOREM TypeCorrect == Spec => []TypeOK
  BY Invariance, PTL DEF IInv

(* A call returns the answer to its own request or none; or, without a      *)
(* result, the success that it takes a request of the server for.           *)
THEOREM OwnAnswerHolds == Spec => []OwnAnswer
  BY Invariance, PTL DEF IInv

(* The answer a caller waits for is on its way to it, whatever is full. *)
THEOREM AnswerArrivesHolds == Spec => []AnswerArrives
  BY Invariance, PTL DEF IInv

(* Nothing is injected unless the whole handshake succeeded, and the server *)
(* has itself answered that the thread is there and resumed.                *)
THEOREM InjectedAfterResumeHolds == Spec => []InjectedAfterResume
<1>1. IInv => InjectedAfterResume
  BY DEF IInv, TypeOK, OrderInv, OwnAnswer, Answers, InjectedAfterResume, Initialize, Read,
     Resume, InjectItems, Unsubscribe, Ids
<1> QED
  BY <1>1, Invariance, PTL

(* A closed client leaves no server that could still write. *)
THEOREM ServerGoneHolds == Spec => []ServerGone
<1>1. IInv => ServerGone
  BY DEF IInv, GoneInv, ServerGone
<1> QED
  BY <1>1, Invariance, PTL
=============================================================================
