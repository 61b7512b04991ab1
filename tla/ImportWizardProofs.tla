------------------------- MODULE ImportWizardProofs -------------------------
(***************************************************************************)
(* Safety of the import wizard for every text, editor, list of sessions and *)
(* number of agents, however often it is opened.  CommandInv says which     *)
(* request can be under way at which step; with it, the parts of IInv about *)
(* texts, plans and the list are preserved one by one.                      *)
(***************************************************************************)
EXTENDS ImportWizard, FiniteSetTheorems, TLAPS

(* Keys and texts that start no command and leave the wizard open. *)
PlainStep ==
    \/ ToggleSource \/ ChooseSource \/ FocusReview \/ PasteInstead
    \/ ToggleNote \/ TypeLink \/ TypePaste \/ ReadClipboard
    \/ AcceptPreview \/ RejectPreview \/ ToggleDestination
    \/ ChooseDestination \/ BackToDestination \/ CycleAgent \/ TypeFolder
    \/ \E delta \in {1, -1} : MoveExisting(delta)
    \/ FocusApply \/ RejectPlan

(* They need a wizard that waits for a key. *)
LEMMA PlainIsReady ==
  ASSUME PlainStep
  PROVE  /\ Ready
         /\ UNCHANGED <<open, opened, commandVars, rows>>
<1>1. ASSUME \/ ToggleSource \/ ChooseSource \/ FocusReview \/ PasteInstead
             \/ ToggleNote \/ TypeLink \/ TypePaste \/ ReadClipboard
             \/ AcceptPreview
      PROVE  Ready /\ Stay
  BY <1>1 DEF ToggleSource, ChooseSource, FocusReview, PasteInstead, ToggleNote,
              TypeLink, TypePaste, ReadClipboard, AcceptPreview, Typing, At
<1>2. ASSUME \/ RejectPreview \/ ToggleDestination
             \/ ChooseDestination \/ BackToDestination \/ CycleAgent \/ TypeFolder
             \/ \E delta \in {1, -1} : MoveExisting(delta)
             \/ FocusApply \/ RejectPlan
      PROVE  Ready /\ Stay
  BY <1>2 DEF RejectPreview, ToggleDestination, ChooseDestination,
              BackToDestination, CycleAgent, TypeFolder, MoveExisting,
              FocusApply, RejectPlan, At
<1> QED
  BY <1>1, <1>2 DEF PlainStep, Stay

(* Texts that arrive by themselves change the input only while it has the   *)
(* keys.                                                                    *)
LEMMA Arrivals ==
  ASSUME Paste \/ ClipboardAnswers
  PROVE  /\ UNCHANGED <<open, opened, step, choiceVars, focusVars, conversation,
                        plan, spent, commandVars, rows>>
         /\ \/ UNCHANGED inputVars
            \/ Typing /\ source = "paste" /\ \E t \in Texts : SetPasted(t)
  BY DEF Paste, ClipboardAnswers, Accepts, Stay

(* Every step is one of these. *)
LEMMA EveryStep ==
  Next => \/ PlainStep \/ Open \/ Close \/ Parse \/ MakePlan \/ Apply
          \/ Paste \/ ClipboardAnswers \/ Run \/ Parsed \/ Planned \/ Applied
  BY DEF Next, KeyStep, Answer, PlainStep

-----------------------------------------------------------------------------
(* A wizard that waits for a key has asked for nothing. *)
LEMMA NothingAsked ==
  ASSUME CommandInv, busy = ""
  PROVE  running = {} /\ inbox = {} /\ Requested = {}
  BY DEF CommandInv, Requested

(* A request that is started is the only one. *)
LEMMA StartsOne ==
  ASSUME CommandInv, Ready, NEW request, Start(request), request.kind # ""
  PROVE  /\ running' = {[of |-> open, request |-> request]} /\ inbox' = {}
         /\ Requested' = {request}
         /\ busy' = request.kind /\ UNCHANGED <<open, step>>
<1> DEFINE command == [of |-> open, request |-> request]
<1>1. running = {} /\ inbox = {}
  BY NothingAsked DEF Ready
<1>2. running' = {command} /\ inbox' = {}
  BY <1>1 DEF Start
<1>3. command.request = request
  OBVIOUS
<1>4. Requested' = {request}
  <2> HIDE DEF command
  <2> QED
    BY <1>2, <1>3 DEF Requested
<1> QED
  BY <1>2, <1>4 DEF Start

(* Started at its step, a request fits the wizard. *)
LEMMA StartFits ==
  ASSUME CommandInv, Ready, NEW request, Start(request),
         \/ request.kind = "parse" /\ step = "enter"
         \/ request.kind = "plan" /\ step \in {"create", "existing"}
         \/ request.kind = "apply" /\ step = "review"
  PROVE  CommandInv'
<1> DEFINE command == [of |-> open, request |-> request]
<1>1. /\ running' = {command} /\ inbox' = {} /\ Requested' = {request}
      /\ busy' = request.kind /\ open' = open /\ step' = step
  BY StartsOne
<1>2. command.of = open
  OBVIOUS
<1> HIDE DEF command
<1>3. \A m \in (running \cup inbox)' : m.of = open'
  BY <1>1, <1>2
<1>4. \E c \in running' : running' = {c}
  BY <1>1
<1>5. busy' # "" /\ open' # 0
  BY <1>1 DEF Ready
<1>6. \A r \in Requested' : r.kind = busy'
  BY <1>1
<1> QED
  BY <1>1, <1>3, <1>4, <1>5, <1>6 DEF CommandInv

(* The message that is taken is the only one, and of the step shown. *)
LEMMA TakesOne ==
  ASSUME CommandInv, NEW message, NEW kind, Take(kind, message)
  PROVE  /\ message.request \in Requested /\ message.request.kind = kind
         /\ busy = kind /\ busy' = ""
         /\ running' = {} /\ inbox' = {} /\ Requested' = {}
         /\ UNCHANGED <<open, inputVars, choiceVars>>
<1>1. PICK m \in inbox : m.message = message /\ inbox' = inbox \ {m}
  BY DEF Take
<1>2. message.request \in Requested /\ message.request.kind = kind
  BY <1>1 DEF Take, Requested
<1>3. busy = kind
  BY <1>2 DEF CommandInv
<1>4. busy # ""
  BY <1>1 DEF CommandInv
<1>5. running = {} /\ inbox = {m}
  BY <1>1, <1>4 DEF CommandInv
<1>6. running' = {} /\ inbox' = {}
  BY <1>1, <1>5 DEF Take
<1> QED
  BY <1>2, <1>3, <1>6 DEF Take, Requested

(* A command that ends hands its request on to its message. *)
LEMMA RunsOne ==
  ASSUME CommandInv, Run
  PROVE  /\ Requested' = Requested
         /\ \E m \in inbox' : inbox' = {m} /\ m.of = open
         /\ running' = {}
         /\ UNCHANGED <<open, opened, step, inputVars, choiceVars, focusVars,
                        conversation, plan, spent, busy, rows>>
<1>1. PICK command \in running, ok \in BOOLEAN, row \in Rows \cup {None} :
        /\ running' = running \ {command}
        /\ inbox' = inbox \cup {[of |-> command.of,
                                 message |-> [request |-> command.request,
                                              ok |-> ok, row |-> row]]}
  BY DEF Run
<1>2. busy # ""
  BY <1>1 DEF CommandInv
<1>3. running = {command} /\ inbox = {} /\ command.of = open
  BY <1>1, <1>2 DEF CommandInv
<1>4. /\ running' = {}
      /\ inbox' = {[of |-> command.of,
                    message |-> [request |-> command.request,
                                 ok |-> ok, row |-> row]]}
  BY <1>1, <1>3
<1>5. Requested' = {command.request} /\ Requested = {command.request}
  BY <1>3, <1>4 DEF Requested
<1> QED
  BY <1>3, <1>4, <1>5 DEF Run

-----------------------------------------------------------------------------
(* No step leaves a request of another wizard or of another step. *)
LEMMA CommandStep ==
  ASSUME CommandInv, [Next]_vars
  PROVE  CommandInv'
<1>1. CASE UNCHANGED vars
  BY <1>1 DEF CommandInv, Requested, vars, commandVars
<1>2. CASE PlainStep
  <2>1. busy' = "" /\ running' = {} /\ inbox' = {}
    BY <1>2, PlainIsReady, NothingAsked DEF Ready, commandVars
  <2> QED
    BY <2>1 DEF CommandInv, Requested
<1>3. CASE Open \/ Close
  <2>1. busy' = "" /\ running = {} /\ inbox = {} /\ UNCHANGED <<running, inbox>>
    BY <1>3 DEF Open, Close, Ready, CommandInv, commandVars
  <2> QED
    BY <2>1 DEF CommandInv, Requested
<1>4. CASE Parse
  <2> DEFINE request == [kind |-> "parse",
                         of |-> [source |-> source, text |-> SourceText,
                                 note |-> asNote]]
  <2>1. Ready /\ step = "enter" /\ Start(request)
    BY <1>4 DEF Parse, At
  <2>2. request.kind = "parse"
    OBVIOUS
  <2> HIDE DEF request
  <2> QED
    BY <2>1, <2>2, StartFits
<1>5. CASE MakePlan
  <2> DEFINE request == [kind |-> "plan",
                         plan |-> [of |-> conversation, target |-> Target]]
  <2>1. Ready /\ step \in {"create", "existing"} /\ Start(request)
    BY <1>5 DEF MakePlan, At
  <2>2. request.kind = "plan"
    OBVIOUS
  <2> HIDE DEF request
  <2> QED
    BY <2>1, <2>2, StartFits
<1>6. CASE Apply
  <2> DEFINE request == [kind |-> "apply", plan |-> plan]
  <2>1. Ready /\ step = "review" /\ Start(request)
    BY <1>6 DEF Apply, At
  <2>2. request.kind = "apply"
    OBVIOUS
  <2> HIDE DEF request
  <2> QED
    BY <2>1, <2>2, StartFits
<1>7. CASE Paste \/ ClipboardAnswers
  BY <1>7, Arrivals DEF CommandInv, Requested, commandVars
<1>8. CASE Run
  <2>1. PICK m \in inbox' : inbox' = {m} /\ m.of = open
    BY <1>8, RunsOne
  <2>2. /\ running' = {} /\ Requested' = Requested
        /\ UNCHANGED <<open, step, busy>>
    BY <1>8, RunsOne
  <2>3. running # {}
    BY <1>8 DEF Run
  <2>4. busy # "" /\ open # 0
    BY <2>3 DEF CommandInv
  <2> QED
    BY <2>1, <2>2, <2>4 DEF CommandInv
<1>9. CASE Parsed \/ Planned \/ Applied
  <2>1. \E message, kind : Take(kind, message)
    BY <1>9 DEF Parsed, Planned, Applied
  <2> QED
    BY <2>1, TakesOne DEF CommandInv
<1> QED
  BY <1>1, <1>2, <1>3, <1>4, <1>5, <1>6, <1>7, <1>8, <1>9, EveryStep

-----------------------------------------------------------------------------
(* The newest session is put in front. *)
LEMMA UpsertedIsList ==
  ASSUME rows \in Seq(Rows), NEW row \in Rows
  PROVE  Upserted(row) \in Seq(Rows)
<1>1. CASE {i \in DOMAIN rows : rows[i] = row} = {}
  BY <1>1 DEF Upserted
<1>2. CASE {i \in DOMAIN rows : rows[i] = row} # {}
  <2>1. PICK i \in DOMAIN rows :
          Upserted(row) = <<row>> \o RemoveAt(rows, i)
    BY <1>2 DEF Upserted
  <2>2. RemoveAt(rows, i) \in Seq(Rows)
    BY <2>1 DEF RemoveAt
  <2> QED
    BY <2>1, <2>2
<1> QED
  BY <1>1, <1>2

(* No step makes the index leave the list. *)
LEMMA IndexStep ==
  ASSUME CommandInv, IndexInv, [Next]_vars
  PROVE  IndexInv'
<1>1. CASE UNCHANGED <<open, step, existing, rows, inbox>>
  BY <1>1 DEF IndexInv, IndexInRange
<1>2. CASE \E delta \in {1, -1} : MoveExisting(delta)
  <2>1. PICK delta \in {1, -1} : MoveExisting(delta)
    BY <1>2
  <2>2. /\ rows # <<>> /\ UNCHANGED <<rows, inbox>>
        /\ existing' = ((existing - 1 + delta + Len(rows)) % Len(rows)) + 1
    BY <2>1 DEF MoveExisting, Stay, commandVars
  <2>3. Len(rows) \in Nat \ {0} /\ existing - 1 + delta + Len(rows) \in Int
    BY <2>1, <2>2 DEF IndexInv
  <2>4. existing' \in 1..Len(rows)
    BY <2>2, <2>3
  <2> QED
    BY <2>2, <2>4 DEF IndexInv, IndexInRange
<1>3. CASE PlainStep /\ ~\E delta \in {1, -1} : MoveExisting(delta)
  <2>1. UNCHANGED <<open, rows, inbox>>
    BY <1>3, PlainIsReady DEF commandVars
  <2>2. \/ UNCHANGED existing /\ (step' = "existing" => step = "existing")
        \/ existing' = 1
    BY <1>3 DEF PlainStep, ToggleSource, ChooseSource, FocusReview,
                PasteInstead, ToggleNote, TypeLink, TypePaste, ReadClipboard,
                AcceptPreview, RejectPreview, ToggleDestination,
                ChooseDestination, BackToDestination, CycleAgent, TypeFolder,
                FocusApply, RejectPlan, choiceVars
  <2>3. rows # <<>> => 1 <= Len(rows)
    BY DEF IndexInv
  <2> QED
    BY <2>1, <2>2, <2>3 DEF IndexInv, IndexInRange
<1>4. CASE Open
  <2>1. existing' = 1 /\ step' = "source" /\ UNCHANGED <<rows, inbox>>
    BY <1>4 DEF Open
  <2> QED
    BY <2>1 DEF IndexInv, IndexInRange
<1>5. CASE Close
  BY <1>5 DEF Close, IndexInv, IndexInRange, choiceVars, commandVars
<1>6. CASE Parse \/ MakePlan \/ Apply
  BY <1>1, <1>6 DEF Parse, MakePlan, Apply, Start, choiceVars
<1>7. CASE Paste \/ ClipboardAnswers
  BY <1>1, <1>7, Arrivals DEF choiceVars, commandVars
<1>8. CASE Run
  <2>1. \A m \in inbox' :
          m.message.ok /\ m.message.request.kind = "apply" =>
              m.message.row \in Rows
    BY <1>8 DEF Run, IndexInv
  <2> QED
    BY <1>8, <2>1, RunsOne DEF IndexInv, IndexInRange, choiceVars
<1>9. CASE Parsed
  BY <1>9, TakesOne DEF Parsed, IndexInv, IndexInRange, choiceVars
<1>10. CASE Planned
  BY <1>10, TakesOne DEF Planned, IndexInv, IndexInRange, choiceVars
<1>11. CASE Applied
  <2>1. PICK message \in {m.message : m \in inbox} :
          /\ Take("apply", message)
          /\ \/ message.ok /\ step' = "success" /\ rows' = Upserted(message.row)
             \/ step' = "destination" /\ UNCHANGED rows
    BY <1>11 DEF Applied
  <2>2. message.request.kind = "apply" /\ inbox' = {}
    BY <2>1, TakesOne
  <2>3. message.ok => message.row \in Rows
    BY <2>1, <2>2 DEF IndexInv
  <2>4. rows' \in Seq(Rows)
    BY <2>1, <2>3, UpsertedIsList DEF IndexInv
  <2> QED
    BY <2>1, <2>2, <2>4, TakesOne DEF IndexInv, IndexInRange, choiceVars
<1> QED
  BY <1>1, <1>2, <1>3, <1>4, <1>5, <1>6, <1>7, <1>8, <1>9, <1>10, <1>11, EveryStep
  DEF vars, choiceVars, commandVars

-----------------------------------------------------------------------------
(* The text that would be parsed is the last one that was accepted. *)
LEMMA GivenStep ==
  ASSUME given = SourceText, [Next]_vars
  PROVE  (given = SourceText)'
<1>1. CASE UNCHANGED <<inputVars, source>>
  BY <1>1 DEF SourceText, inputVars
<1>2. CASE ToggleSource \/ PasteInstead
  BY <1>2 DEF ToggleSource, PasteInstead
<1>3. CASE TypeLink
  BY <1>3 DEF TypeLink, SourceText, choiceVars
<1>4. CASE TypePaste
  BY <1>4 DEF TypePaste, SourceText, choiceVars, Typing
<1>5. ASSUME NEW t \in Texts, SetPasted(t), source = "paste", UNCHANGED source
      PROVE  (given = SourceText)'
  <2>1. t # None
    BY WizardAssumption
  <2> QED
    BY <1>5, <2>1 DEF SetPasted, SourceText
<1>6. CASE Paste \/ ClipboardAnswers
  BY <1>1, <1>5, <1>6, Arrivals DEF choiceVars
<1>7. CASE PlainStep /\ ~(ToggleSource \/ PasteInstead \/ TypeLink \/ TypePaste)
  BY <1>1, <1>7
  DEF PlainStep, ChooseSource, FocusReview, ToggleNote, ReadClipboard,
      AcceptPreview, RejectPreview, ToggleDestination, ChooseDestination,
      BackToDestination, CycleAgent, TypeFolder, MoveExisting, FocusApply,
      RejectPlan, choiceVars
<1>8. CASE Open
  BY <1>8 DEF Open, SourceText
<1>9. CASE Close \/ Parse \/ MakePlan \/ Apply \/ Run
  BY <1>1, <1>9 DEF Close, Parse, MakePlan, Apply, Run, Start, choiceVars
<1>10. CASE Parsed \/ Planned \/ Applied
  BY <1>1, <1>10 DEF Parsed, Planned, Applied, Take, choiceVars
<1> QED
  BY <1>1, <1>2, <1>3, <1>4, <1>6, <1>7, <1>8, <1>9, <1>10, EveryStep
  DEF vars, choiceVars

(* What is requested stays what the user gave and chose. *)
LEMMA RequestStep ==
  ASSUME CommandInv, RequestInv, [Next]_vars
  PROVE  RequestInv'
<1> DEFINE Honest == \A r \in Requested :
             /\ r.kind = "parse" =>
                   r.of = [source |-> source, text |-> given, note |-> asNote]
             /\ r.kind = "plan" =>
                   r.plan = [of |-> conversation, target |-> Target]
           Kind == step \in {"create", "existing"} => destination = step
<1>1. Kind'
  <2>1. CASE UNCHANGED <<step, destination>>
    BY <2>1 DEF RequestInv
  <2>2. CASE PlainStep
    BY <2>2 DEF PlainStep, RequestInv, ToggleSource, ChooseSource, FocusReview,
                PasteInstead, ToggleNote, TypeLink, TypePaste, ReadClipboard,
                AcceptPreview, RejectPreview, ToggleDestination,
                ChooseDestination, BackToDestination, CycleAgent, TypeFolder,
                MoveExisting, FocusApply, RejectPlan, choiceVars, At
  <2>3. CASE Open
    BY <2>3 DEF Open
  <2>4. CASE Close \/ Parse \/ MakePlan \/ Apply \/ Run
    BY <2>1, <2>4 DEF Close, Parse, MakePlan, Apply, Run, Start, choiceVars
  <2>5. CASE Paste \/ ClipboardAnswers
    BY <2>1, <2>5, Arrivals DEF choiceVars
  <2>6. CASE Parsed \/ Planned \/ Applied
    BY <2>6 DEF Parsed, Planned, Applied, Take, choiceVars, RequestInv
  <2> QED
    BY <2>1, <2>2, <2>3, <2>4, <2>5, <2>6, EveryStep DEF vars, choiceVars
<1>2. Honest'
  <2>1. CASE Requested' = {}
    BY <2>1
  <2>2. CASE /\ Requested' = Requested
             /\ UNCHANGED <<inputVars, choiceVars, conversation, rows>>
    BY <2>2 DEF RequestInv, Target, inputVars, choiceVars
  <2>3. CASE UNCHANGED vars
    BY <2>2, <2>3 DEF vars, Requested, commandVars
  <2>4. CASE PlainStep \/ Open \/ Close
    <3>1. running' = {} /\ inbox' = {}
      BY <2>4, PlainIsReady, NothingAsked
      DEF Open, Close, Ready, CommandInv, commandVars
    <3> QED
      BY <2>1, <3>1 DEF Requested
  <2>5. CASE Parse
    <3> DEFINE request == [kind |-> "parse",
                           of |-> [source |-> source, text |-> SourceText,
                                   note |-> asNote]]
    <3>1. Ready /\ Start(request) /\ UNCHANGED <<inputVars, choiceVars>>
      BY <2>5 DEF Parse, At, Start
    <3>2. request.kind = "parse"
      OBVIOUS
    <3>3. Requested' = {request}
      <4> HIDE DEF request
      <4> QED
        BY <3>1, <3>2, StartsOne
    <3>4. given = SourceText
      BY DEF RequestInv
    <3> QED
      BY <3>1, <3>3, <3>4 DEF inputVars, choiceVars
  <2>6. CASE MakePlan
    <3> DEFINE request == [kind |-> "plan",
                           plan |-> [of |-> conversation, target |-> Target]]
    <3>1. /\ Ready /\ Start(request)
          /\ UNCHANGED <<choiceVars, conversation, rows>>
      BY <2>6 DEF MakePlan, At, Start
    <3>2. request.kind = "plan"
      OBVIOUS
    <3>3. Requested' = {request}
      <4> HIDE DEF request
      <4> QED
        BY <3>1, <3>2, StartsOne
    <3>4. Target' = Target
      BY <3>1 DEF Target, choiceVars
    <3> QED
      BY <3>1, <3>3, <3>4
  <2>7. CASE Apply
    <3> DEFINE request == [kind |-> "apply", plan |-> plan]
    <3>1. Ready /\ Start(request)
      BY <2>7 DEF Apply, At
    <3>2. request.kind = "apply"
      OBVIOUS
    <3>3. Requested' = {request}
      <4> HIDE DEF request
      <4> QED
        BY <3>1, <3>2, StartsOne
    <3> QED
      BY <3>2, <3>3
  <2>8. CASE Paste \/ ClipboardAnswers
    <3>1. CASE busy = ""
      BY <2>1, <2>8, <3>1, Arrivals, NothingAsked DEF Requested, commandVars
    <3>2. CASE busy # ""
      BY <2>2, <2>8, <3>2, Arrivals
      DEF Typing, At, Ready, Requested, commandVars
    <3> QED
      BY <3>1, <3>2
  <2>9. CASE Run
    BY <2>2, <2>9, RunsOne
  <2>10. CASE Parsed \/ Planned \/ Applied
    <3>1. \E message, kind : Take(kind, message)
      BY <2>10 DEF Parsed, Planned, Applied
    <3> QED
      BY <2>1, <3>1, TakesOne
  <2> QED
    BY <2>3, <2>4, <2>5, <2>6, <2>7, <2>8, <2>9, <2>10, EveryStep
<1>3. (given = SourceText)'
  BY GivenStep DEF RequestInv
<1>4. destination' \in {"create", "existing"}
  <2>1. CASE UNCHANGED choiceVars
    BY <2>1 DEF RequestInv, choiceVars
  <2>2. CASE PlainStep
    BY <2>2 DEF PlainStep, RequestInv, ToggleSource, ChooseSource, FocusReview,
                PasteInstead, ToggleNote, TypeLink, TypePaste, ReadClipboard,
                AcceptPreview, RejectPreview, ToggleDestination,
                ChooseDestination, BackToDestination, CycleAgent, TypeFolder,
                MoveExisting, FocusApply, RejectPlan, choiceVars
  <2>3. CASE Open
    BY <2>3 DEF Open
  <2>4. CASE Close \/ Parse \/ MakePlan \/ Apply \/ Run
    BY <2>1, <2>4 DEF Close, Parse, MakePlan, Apply, Run
  <2>5. CASE Paste \/ ClipboardAnswers
    BY <2>1, <2>5, Arrivals
  <2>6. CASE Parsed \/ Planned \/ Applied
    BY <2>1, <2>6 DEF Parsed, Planned, Applied, Take
  <2> QED
    BY <2>1, <2>2, <2>3, <2>4, <2>5, <2>6, EveryStep DEF vars
<1> QED
  BY <1>1, <1>2, <1>3, <1>4 DEF RequestInv

-----------------------------------------------------------------------------
(* A preview stays one of the text that was given. *)
LEMMA PreviewStep ==
  ASSUME CommandInv, RequestInv, PreviewIsOfSource, [Next]_vars
  PROVE  PreviewIsOfSource'
<1>1. CASE UNCHANGED <<open, step, given, source, asNote, conversation>>
  BY <1>1 DEF PreviewIsOfSource
<1>2. CASE step' \in {"source", "enter", "success"} \/ open' = 0
  BY <1>2 DEF PreviewIsOfSource
<1>3. CASE /\ step \notin {"source", "enter", "success"} /\ open' = open
           /\ UNCHANGED <<given, source, asNote, conversation>>
  BY <1>3 DEF PreviewIsOfSource
<1>4. CASE \/ ToggleSource \/ ChooseSource \/ FocusReview
           \/ PasteInstead \/ ToggleNote \/ TypeLink \/ TypePaste
           \/ RejectPreview
  BY <1>2, <1>4
  DEF ToggleSource, ChooseSource, FocusReview, PasteInstead, ToggleNote,
      TypeLink, TypePaste, RejectPreview, Typing, At
<1>5. CASE \/ AcceptPreview \/ ToggleDestination
           \/ ChooseDestination \/ BackToDestination \/ CycleAgent \/ TypeFolder
           \/ (\E delta \in {1, -1} : MoveExisting(delta))
           \/ FocusApply \/ RejectPlan
  BY <1>3, <1>5
  DEF AcceptPreview, ToggleDestination, ChooseDestination, BackToDestination,
      CycleAgent, TypeFolder, MoveExisting, FocusApply, RejectPlan, At, Stay,
      inputVars, choiceVars
<1>6. CASE Open \/ Close
  BY <1>2, <1>6 DEF Open, Close
<1>7. CASE Parse \/ MakePlan \/ Apply \/ Run \/ ReadClipboard
  BY <1>1, <1>7
  DEF Parse, MakePlan, Apply, Run, ReadClipboard, Start, Stay, inputVars,
      choiceVars
<1>8. CASE Paste \/ ClipboardAnswers
  BY <1>1, <1>2, <1>8, Arrivals DEF Typing, At, inputVars, choiceVars
<1>9. CASE Parsed
  <2>1. PICK message :
          /\ Take("parse", message)
          /\ \/ conversation' = message.request.of
             \/ UNCHANGED <<conversation, step>>
    BY <1>9 DEF Parsed
  <2>2. /\ message.request \in Requested /\ message.request.kind = "parse"
        /\ UNCHANGED <<open, inputVars, choiceVars>>
    BY <2>1, TakesOne
  <2>3. message.request.of = [source |-> source, text |-> given, note |-> asNote]
    BY <2>2 DEF RequestInv
  <2> QED
    BY <2>1, <2>2, <2>3 DEF PreviewIsOfSource, inputVars, choiceVars
<1>10. CASE Planned \/ Applied
  <2>1. /\ UNCHANGED <<open, inputVars, choiceVars, conversation>>
        /\ busy = "plan" \/ busy = "apply"
    BY <1>10, TakesOne DEF Planned, Applied
  <2>2. step \in {"create", "existing", "review"}
    BY <2>1 DEF CommandInv
  <2> QED
    BY <1>3, <2>1, <2>2 DEF inputVars, choiceVars
<1> QED
  BY <1>1, <1>4, <1>5, <1>6, <1>7, <1>8, <1>9, <1>10, EveryStep
  DEF PlainStep, vars, inputVars, choiceVars

-----------------------------------------------------------------------------
(* A plan under review stays the one of the screen, not applied before. *)
LEMMA ReviewStep ==
  ASSUME CommandInv, RequestInv, ReviewInv, [Next]_vars
  PROVE  ReviewInv'
<1> DEFINE Screen == <<destination, agent, folder, existing, rows>>
<1>1. CASE /\ UNCHANGED <<open, step, plan, conversation, Screen>>
           /\ busy' = "" => busy = "" /\ UNCHANGED spent
  BY <1>1 DEF ReviewInv, Target
<1>2. CASE step' # "review" \/ open' = 0
  BY <1>2 DEF ReviewInv
<1>3. CASE UNCHANGED vars
  BY <1>1, <1>3 DEF vars, choiceVars, commandVars
<1>4. CASE PlainStep
  <2>1. CASE FocusApply
    BY <1>1, <2>1 DEF FocusApply, Stay, choiceVars, commandVars
  <2>2. CASE ~FocusApply
    BY <1>2, <1>4, <2>2
    DEF PlainStep, ToggleSource, ChooseSource, FocusReview, PasteInstead,
        ToggleNote, TypeLink, TypePaste, ReadClipboard, AcceptPreview,
        RejectPreview, ToggleDestination, ChooseDestination,
        BackToDestination, CycleAgent, TypeFolder, MoveExisting, RejectPlan,
        RequestInv, Typing, At
  <2> QED
    BY <2>1, <2>2
<1>5. CASE Open \/ Close
  BY <1>2, <1>5 DEF Open, Close
<1>6. CASE Parse \/ MakePlan
  BY <1>2, <1>6 DEF Parse, MakePlan, Start, At
<1>7. CASE Apply
  <2>1. busy' = "apply"
    BY <1>7 DEF Apply, Start
  <2> QED
    BY <1>1, <1>7, <2>1 DEF Apply, Start, choiceVars
<1>8. CASE Paste \/ ClipboardAnswers
  BY <1>1, <1>8, Arrivals DEF choiceVars, commandVars
<1>9. CASE Run
  BY <1>1, <1>9, RunsOne DEF choiceVars
<1>10. CASE Parsed
  <2>1. busy = "parse"
    BY <1>10, TakesOne DEF Parsed
  <2> QED
    BY <1>2, <1>10, <2>1 DEF Parsed, CommandInv
<1>11. CASE Planned
  <2>1. PICK message :
          /\ Take("plan", message)
          /\ UNCHANGED <<conversation, rows>>
          /\ \/ plan' = message.request.plan /\ spent' = FALSE
             \/ UNCHANGED step
    BY <1>11 DEF Planned
  <2>2. /\ message.request \in Requested /\ message.request.kind = "plan"
        /\ busy = "plan" /\ UNCHANGED choiceVars
    BY <2>1, TakesOne
  <2>3. message.request.plan = [of |-> conversation, target |-> Target]
    BY <2>2 DEF RequestInv
  <2>4. Target' = Target
    BY <2>1, <2>2 DEF Target, choiceVars
  <2>5. step # "review"
    BY <2>2 DEF CommandInv
  <2> QED
    BY <2>1, <2>3, <2>4, <2>5 DEF ReviewInv
<1>12. CASE Applied
  BY <1>2, <1>12 DEF Applied
<1> QED
  BY <1>3, <1>4, <1>5, <1>6, <1>7, <1>8, <1>9, <1>10, <1>11, <1>12, EveryStep

-----------------------------------------------------------------------------
(* The invariant holds in every state of the wizard. *)
THEOREM Invariance == Spec => []IInv
<1>1. Init => IInv
  <2> SUFFICES ASSUME Init PROVE IInv
    OBVIOUS
  <2>1. CommandInv
    BY DEF Init, CommandInv, Requested
  <2>2. IndexInv
    <3>1. rows \in Seq(Rows)
      <4>1. Cardinality(Rows) \in Nat
        BY WizardAssumption, FS_CardinalityType
      <4>2. PICK n \in 0..Cardinality(Rows) : rows \in [1..n -> Rows]
        BY DEF Init
      <4>3. n \in Nat
        BY <4>1, <4>2
      <4> QED
        BY <4>2, <4>3
    <3>2. existing = 1 /\ open = 0 /\ inbox = {}
      BY DEF Init
    <3> QED
      BY <3>1, <3>2 DEF IndexInv, IndexInRange
  <2>3. RequestInv
    BY DEF Init, RequestInv, Requested, SourceText
  <2>4. PreviewIsOfSource /\ ReviewInv
    BY DEF Init, PreviewIsOfSource, ReviewInv
  <2> QED
    BY <2>1, <2>2, <2>3, <2>4 DEF IInv
<1>2. IInv /\ [Next]_vars => IInv'
  BY CommandStep, IndexStep, RequestStep, PreviewStep, ReviewStep DEF IInv
<1> QED
  BY <1>1, <1>2, PTL DEF Spec

(* A message is never taken by another wizard than the one that asked for   *)
(* it, and that one waits for it (updateImport).                            *)
THEOREM ResultIsMineHolds == Spec => []ResultIsMine
<1>1. ASSUME CommandInv
      PROVE  ResultIsMine
  <2>1. \A m \in running \cup inbox : m.of = open
    BY <1>1 DEF CommandInv
  <2>2. CASE busy = ""
    <3>1. Cardinality(running) = 0 /\ Cardinality(inbox) = 0
      BY <1>1, <2>2, FS_EmptySet DEF CommandInv
    <3>2. Cardinality(running) + Cardinality(inbox) = 0
      BY <3>1
    <3> QED
      BY <2>1, <2>2, <3>2, Zenon DEF ResultIsMine
  <2>3. CASE busy # ""
    <3>1. CASE inbox = {}
      <4>1. PICK c \in running : running = {c}
        BY <1>1, <2>3, <3>1 DEF CommandInv
      <4>2. Cardinality(running) = 1 /\ Cardinality(inbox) = 0
        BY <3>1, <4>1, FS_EmptySet, FS_Singleton
      <4>3. Cardinality(running) + Cardinality(inbox) = 1
        BY <4>2
      <4> QED
        BY <2>1, <2>3, <4>3, Zenon DEF ResultIsMine
    <3>2. CASE running = {}
      <4>1. PICK m \in inbox : inbox = {m}
        BY <1>1, <2>3, <3>2 DEF CommandInv
      <4>2. Cardinality(running) = 0 /\ Cardinality(inbox) = 1
        BY <3>2, <4>1, FS_EmptySet, FS_Singleton
      <4>3. Cardinality(running) + Cardinality(inbox) = 1
        BY <4>2
      <4> QED
        BY <2>1, <2>3, <4>3, Zenon DEF ResultIsMine
    <3> QED
      BY <1>1, <2>3, <3>1, <3>2 DEF CommandInv
  <2> QED
    BY <2>2, <2>3
<1> QED
  BY <1>1, Invariance, PTL DEF IInv

(* What is previewed, planned and reviewed was made from the text that the  *)
(* user gave last, as it was given (setPastedConversation,                  *)
(* startImportParse).                                                       *)
THEOREM PreviewIsOfSourceHolds == Spec => []PreviewIsOfSource
  BY Invariance, PTL DEF IInv

(* The plan under review is for the conversation and the destination on the *)
(* screen (applyImportPlanned).                                             *)
THEOREM PlanIsForScreenHolds == Spec => []PlanIsForScreen
<1>1. IInv => PlanIsForScreen
  BY DEF IInv, ReviewInv, PlanIsForScreen
<1> QED
  BY <1>1, Invariance, PTL

(* The chosen session is one of the list (moveExisting).                    *)
THEOREM IndexInRangeHolds == Spec => []IndexInRange
<1>1. IInv => IndexInRange
  BY DEF IInv, IndexInv
<1> QED
  BY <1>1, Invariance, PTL

(* Nothing is applied but the plan under review, and never twice            *)
(* (startImportApply, applyImportApplied).                                  *)
THEOREM AppliesOnceHolds == Spec => AppliesOnce
<1>1. ASSUME IInv, [Next]_vars
      PROVE  \A m \in running' \ running :
               m.request.kind = "apply" =>
                   step = "review" /\ m.request.plan = plan /\ ~spent
  <2>1. CASE running' \subseteq running
    BY <2>1
  <2>2. CASE UNCHANGED vars \/ PlainStep \/ Open \/ Close
             \/ Paste \/ ClipboardAnswers
    BY <2>1, <2>2, PlainIsReady, Arrivals DEF vars, commandVars, Open, Close
  <2>3. CASE Parse
    BY <2>3 DEF Parse, Start
  <2>4. CASE MakePlan
    BY <2>4 DEF MakePlan, Start
  <2>5. CASE Apply
    <3> DEFINE request == [kind |-> "apply", plan |-> plan]
               command == [of |-> open, request |-> request]
    <3>1. /\ open # 0 /\ busy = "" /\ step = "review"
          /\ running' = running \cup {command}
      BY <2>5 DEF Apply, Start, At, Ready
    <3>2. ~spent
      BY <1>1, <3>1 DEF IInv, ReviewInv
    <3>3. command.request = request /\ request.plan = plan
      OBVIOUS
    <3> HIDE DEF request, command
    <3>4. \A m \in running' \ running : m = command
      BY <3>1
    <3> QED
      BY <3>1, <3>2, <3>3, <3>4
  <2>6. CASE Run \/ Parsed \/ Planned \/ Applied
    BY <2>1, <2>6 DEF Run, Parsed, Planned, Applied, Take
  <2> QED
    BY <1>1, <2>2, <2>3, <2>4, <2>5, <2>6, EveryStep
<1> QED
  BY <1>1, Invariance, PTL DEF Spec, AppliesOnce
=============================================================================
