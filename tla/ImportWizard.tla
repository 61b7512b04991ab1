---------------------------- MODULE ImportWizard ----------------------------
(***************************************************************************)
(* The import wizard of the picker (src/internal/tui/import.go): its steps, *)
(* the text that is pasted, the background commands that parse, plan and    *)
(* apply, and the clipboard, which answers when it likes.                   *)
(*                                                                         *)
(* A text is what the user means to import, from a link or pasted.  The     *)
(* editor of pasted text cannot hold every text: Edited says what becomes   *)
(* of one in it.  A conversation is known by the text and the choices it    *)
(* was made from.                                                           *)
(* The list of sessions changes by nothing but an import while the wizard   *)
(* is open (OneCommand of Picker).                                          *)
(***************************************************************************)
EXTENDS Integers, Sequences, FiniteSets, SequencesExt

CONSTANTS
    Texts,      \* what can be pasted or typed, the empty text included
    Empty,
    Edited,     \* what the editor makes of a pasted text
    Places,     \* folders for a new session
    WorkingDir, \* the one showagent runs in
    Rows,       \* sessions there are or may be
    Appendable, \* those that context can be added to
    Agents,     \* number of agents that sessions can be created for
    MaxOpen,    \* bound: how often the wizard is opened
    MaxReads,   \* bound: clipboard reads under way
    None

ASSUME WizardAssumption ==
    /\ Empty \in Texts
    /\ Edited \in [Texts -> Texts]
    /\ \A t \in Texts : Edited[Edited[t]] = Edited[t]
    /\ Edited[Empty] = Empty
    /\ IsFiniteSet(Rows) /\ Appendable \subseteq Rows
    /\ Agents \in Nat \ {0} /\ WorkingDir \in Places
    /\ None \notin Texts \cup Rows \cup Places

VARIABLES
    open,       \* how often the wizard was opened, 0 when it is closed
    opened,     \* history: how often it was opened so far
    step, source, destination,
    link,       \* the text of linkInput
    paste,      \* what pasteInput holds
    original,   \* pasteOriginal
    given,      \* history: the last text that was accepted from the user
    asNote,
    reviewFocused, applyFocused,
    inputFocused, \* the link or the paste input has the focus
    conversation,
    agent,      \* providerIndex
    folder,     \* the text of cwdInput
    existing,   \* existingIndex, from 1
    plan,
    spent,      \* history: the plan was applied already
    busy,
    running,    \* the command that has not finished
    inbox,      \* its message
    reads,      \* clipboard reads under way
    rows        \* allRows

inputVars == <<link, paste, original, given>>
choiceVars == <<source, destination, asNote, agent, folder, existing>>
focusVars == <<reviewFocused, applyFocused, inputFocused>>
commandVars == <<busy, running, inbox>>
vars == <<open, opened, step, inputVars, choiceVars, focusVars, conversation,
          plan, spent, commandVars, reads, rows>>

Sources == {"link", "paste"}
Steps == {"source", "enter", "preview", "destination", "create", "existing",
          "review", "success"}
Conversations == [source : Sources, text : Texts, note : BOOLEAN]
Targets == [agent : 1..Agents, folder : Places] \cup Rows
Plans == [of : Conversations, target : Targets]

Requests ==
    [kind : {"parse"}, of : Conversations]
      \cup [kind : {"plan", "apply"}, plan : Plans]
Messages == [request : Requests, ok : BOOLEAN, row : Rows \cup {None}]

TypeOK ==
    /\ open \in 0..MaxOpen /\ opened \in 0..MaxOpen
    /\ step \in Steps
    /\ source \in Sources /\ destination \in {"create", "existing"}
    /\ link \in Texts /\ paste \in Texts /\ given \in Texts
    /\ original \in Texts \cup {None}
    /\ asNote \in BOOLEAN /\ inputFocused \in BOOLEAN
    /\ reviewFocused \in BOOLEAN /\ applyFocused \in BOOLEAN
    /\ conversation \in Conversations \cup {None}
    /\ agent \in 1..Agents /\ folder \in Places
    /\ existing \in Nat \ {0}
    /\ plan \in Plans \cup {None} /\ spent \in BOOLEAN
    /\ busy \in {"", "parse", "plan", "apply"}
    /\ running \in SUBSET [of : 1..MaxOpen, request : Requests]
    /\ inbox \in SUBSET [of : 1..MaxOpen, message : Messages]
    /\ reads \in 0..MaxReads
    /\ rows \in Seq(Rows)

-----------------------------------------------------------------------------
Init ==
    /\ open = 0 /\ opened = 0
    /\ step = "source" /\ source = "link" /\ destination = "create"
    /\ link = Empty /\ paste = Empty /\ original = None /\ given = Empty
    /\ asNote = FALSE /\ inputFocused = FALSE
    /\ reviewFocused = FALSE /\ applyFocused = FALSE
    /\ conversation = None
    /\ agent = 1 /\ folder = WorkingDir /\ existing = 1
    /\ plan = None /\ spent = FALSE
    /\ busy = "" /\ running = {} /\ inbox = {}
    /\ reads = 0
    /\ rows \in UNION {[1..n -> Rows] : n \in 0..Cardinality(Rows)}
    /\ IsInjective(rows)

(* openImport: a new wizard, in the folder that showagent runs in. *)
Open ==
    /\ open = 0 /\ opened < MaxOpen
    /\ open' = opened + 1 /\ opened' = opened + 1
    /\ step' = "source" /\ source' = "link" /\ destination' = "create"
    /\ link' = Empty /\ paste' = Empty /\ original' = None /\ given' = Empty
    /\ asNote' = FALSE /\ inputFocused' = FALSE
    /\ reviewFocused' = FALSE /\ applyFocused' = FALSE
    /\ conversation' = None
    /\ agent' = 1 /\ folder' = WorkingDir /\ existing' = 1
    /\ plan' = None /\ spent' = FALSE /\ busy' = ""
    /\ UNCHANGED <<running, inbox, reads, rows>>

(* Keys do nothing while a command is under way. *)
Ready == open # 0 /\ busy = ""
At(s) == Ready /\ step = s

(* Wrong on purpose: the wizard can be closed at any time. *)
CloseAnytime ==
    /\ open # 0
    /\ open' = 0
    /\ UNCHANGED <<opened, step, inputVars, choiceVars, focusVars, conversation,
                   plan, spent, commandVars, reads, rows>>

(* esc, and enter at the end. *)
Close ==
    /\ Ready
    /\ open' = 0
    /\ UNCHANGED <<opened, step, inputVars, choiceVars, focusVars, conversation,
                   plan, spent, commandVars, reads, rows>>

(* startImportParse, startImportPlan and startImportApply. *)
Start(request) ==
    /\ busy' = request.kind
    /\ running' = running \cup {[of |-> open, request |-> request]}
    /\ UNCHANGED <<open, opened, step, inputVars, conversation, plan, inbox,
                   reads, rows>>

(* A step of the wizard that changes none of the commands. *)
Stay == UNCHANGED <<open, opened, commandVars, rows>>

-----------------------------------------------------------------------------
(* What is parsed is the text as it was pasted. *)
SourceText == CASE source = "link" -> link
                [] source = "paste" /\ original # None -> original
                [] OTHER -> paste

(* importChooseSource *)
ToggleSource ==
    /\ At("source")
    /\ source' \in Sources \ {source}
    /\ Stay
    /\ UNCHANGED <<step, link, paste, original, destination, asNote, agent,
                   folder, existing, focusVars, conversation, plan, spent,
                   reads>>
    /\ given' = SourceText'

ChooseSource ==
    /\ At("source")
    /\ step' = "enter"
    /\ inputFocused' = TRUE
    /\ Stay
    /\ UNCHANGED <<inputVars, choiceVars, reviewFocused, applyFocused,
                   conversation, plan, spent, reads>>

(* importEnterSource: tab *)
FocusReview ==
    /\ At("enter")
    /\ reviewFocused' = ~reviewFocused
    /\ inputFocused' = reviewFocused
    /\ Stay
    /\ UNCHANGED <<step, inputVars, choiceVars, applyFocused, conversation,
                   plan, spent, reads>>

Typing == At("enter") /\ ~reviewFocused

(* f2: pasted text instead of a link. *)
PasteInstead ==
    /\ Typing /\ source = "link"
    /\ source' = "paste"
    /\ inputFocused' = TRUE
    /\ Stay
    /\ UNCHANGED <<step, link, paste, original, destination, asNote, agent,
                   folder, existing, reviewFocused, applyFocused,
                   conversation, plan, spent, reads>>
    /\ given' = SourceText'

(* ctrl+r *)
ToggleNote ==
    /\ Typing /\ source = "paste"
    /\ asNote' = ~asNote
    /\ Stay
    /\ UNCHANGED <<step, inputVars, source, destination, agent, folder,
                   existing, focusVars, conversation, plan, spent, reads>>

(* Keys that edit.  A text that the editor does not show as it is cannot be *)
(* edited.                                                                  *)
TypeLink ==
    /\ Typing /\ source = "link" /\ inputFocused
    /\ link' \in Texts \ {link}
    /\ given' = link'
    /\ Stay
    /\ UNCHANGED <<step, paste, original, choiceVars, focusVars, conversation,
                   plan, spent, reads>>

TypePaste ==
    /\ Typing /\ source = "paste" /\ inputFocused /\ original = None
    /\ paste' \in {Edited[t] : t \in Texts} \ {paste}
    /\ given' = paste'
    /\ Stay
    /\ UNCHANGED <<step, link, original, choiceVars, focusVars, conversation,
                   plan, spent, reads>>

(* Wrong on purpose: the original of an earlier paste stays. *)
SetPastedOver(t) ==
    /\ paste' = Edited[t]
    /\ original' = IF Edited[t] = t THEN original ELSE t
    /\ given' = t
    /\ UNCHANGED link

(* setPastedConversation *)
SetPasted(t) ==
    /\ paste' = Edited[t]
    /\ original' = IF Edited[t] = t THEN None ELSE t
    /\ given' = t
    /\ UNCHANGED link

(* updateImportInput with a text from the terminal or the clipboard: it is  *)
(* taken only where it can be, and not while it is parsed.                  *)
Accepts(t) == IF Typing /\ source = "paste" THEN SetPasted(t)
              ELSE UNCHANGED inputVars

(* A text that is not UTF-8 or too long is refused: nothing changes. *)
Paste ==
    /\ open # 0
    /\ \E t \in Texts : Accepts(t)
    /\ Stay
    /\ UNCHANGED <<step, choiceVars, focusVars, conversation, plan, spent, reads>>

ReadClipboard ==
    /\ Typing /\ source = "paste"
    /\ reads < MaxReads
    /\ reads' = reads + 1
    /\ Stay
    /\ UNCHANGED <<step, inputVars, choiceVars, focusVars, conversation, plan,
                   spent>>

(* The answer comes at any time, to whatever wizard is open then. *)
ClipboardAnswers ==
    /\ reads > 0
    /\ reads' = reads - 1
    /\ IF open = 0 THEN UNCHANGED inputVars
       ELSE UNCHANGED inputVars \/ \E t \in Texts : Accepts(t)
    /\ Stay
    /\ UNCHANGED <<step, choiceVars, focusVars, conversation, plan, spent>>

Parse ==
    /\ At("enter")
    /\ reviewFocused' = FALSE
    /\ Start([kind |-> "parse",
              of |-> [source |-> source, text |-> SourceText, note |-> asNote]])
    /\ UNCHANGED <<choiceVars, applyFocused, inputFocused, spent>>

-----------------------------------------------------------------------------
(* importPreview *)
AcceptPreview ==
    /\ At("preview")
    /\ step' = "destination"
    /\ Stay
    /\ UNCHANGED <<inputVars, choiceVars, focusVars, conversation, plan, spent,
                   reads>>

RejectPreview ==
    /\ At("preview")
    /\ step' = "enter"
    /\ reviewFocused' = FALSE /\ inputFocused' = TRUE
    /\ Stay
    /\ UNCHANGED <<inputVars, choiceVars, applyFocused, conversation, plan,
                   spent, reads>>

(* importDestination *)
ToggleDestination ==
    /\ At("destination")
    /\ destination' \in {"create", "existing"} \ {destination}
    /\ Stay
    /\ UNCHANGED <<step, inputVars, source, asNote, agent, folder, existing,
                   focusVars, conversation, plan, spent, reads>>

ChooseDestination ==
    /\ At("destination")
    /\ step' = destination
    /\ existing' = IF destination = "existing" THEN 1 ELSE existing
    /\ Stay
    /\ UNCHANGED <<inputVars, source, destination, asNote, agent, folder,
                   focusVars, conversation, plan, spent, reads>>

(* alt+left, b *)
BackToDestination ==
    /\ At("create") \/ At("existing")
    /\ step' = "destination"
    /\ Stay
    /\ UNCHANGED <<inputVars, choiceVars, focusVars, conversation, plan, spent,
                   reads>>

(* Wrong on purpose: the last agent is followed by none. *)
CycleAgentOff ==
    /\ At("create")
    /\ agent' = agent + 1
    /\ Stay
    /\ UNCHANGED <<step, inputVars, source, destination, asNote, folder,
                   existing, focusVars, conversation, plan, spent, reads>>

(* Wrong on purpose: the agent can still be changed while the destination   *)
(* is checked.                                                              *)
CycleAgentAnytime ==
    /\ open # 0 /\ step = "create"
    /\ agent' = (agent % Agents) + 1
    /\ Stay
    /\ UNCHANGED <<step, inputVars, source, destination, asNote, folder,
                   existing, focusVars, conversation, plan, spent, reads>>

(* importCreateDestination: nextImportProviderIndex, and the folder *)
CycleAgent ==
    /\ At("create")
    /\ agent' = (agent % Agents) + 1
    /\ Stay
    /\ UNCHANGED <<step, inputVars, source, destination, asNote, folder,
                   existing, focusVars, conversation, plan, spent, reads>>

TypeFolder ==
    /\ At("create")
    /\ folder' \in Places \ {folder}
    /\ Stay
    /\ UNCHANGED <<step, inputVars, source, destination, asNote, agent,
                   existing, focusVars, conversation, plan, spent, reads>>

(* Wrong on purpose: the cursor leaves the list at its end. *)
MoveOff(delta) ==
    /\ At("existing")
    /\ rows # <<>>
    /\ existing' = existing + IF delta = 1 THEN 1 ELSE 0
    /\ Stay
    /\ UNCHANGED <<step, inputVars, source, destination, asNote, agent, folder,
                   focusVars, conversation, plan, spent, reads>>

(* moveExisting, one down or, the other way round, one up *)
MoveExisting(delta) ==
    /\ At("existing")
    /\ rows # <<>>
    /\ existing' = ((existing - 1 + delta + Len(rows)) % Len(rows)) + 1
    /\ Stay
    /\ UNCHANGED <<step, inputVars, source, destination, asNote, agent, folder,
                   focusVars, conversation, plan, spent, reads>>

(* What the wizard shows as its target. *)
Target == IF destination = "create" THEN [agent |-> agent, folder |-> folder]
          ELSE rows[existing]

(* importAppendCapability: other sessions are refused with a notice. *)
MakePlan ==
    /\ \/ At("create")
       \/ At("existing") /\ rows # <<>> /\ rows[existing] \in Appendable
    /\ Start([kind |-> "plan", plan |-> [of |-> conversation, target |-> Target]])
    /\ UNCHANGED <<choiceVars, focusVars, spent>>

-----------------------------------------------------------------------------
(* importReview *)
FocusApply ==
    /\ At("review")
    /\ applyFocused' = ~applyFocused
    /\ Stay
    /\ UNCHANGED <<step, inputVars, choiceVars, reviewFocused, inputFocused,
                   conversation, plan, spent, reads>>

RejectPlan ==
    /\ At("review")
    /\ plan' = None
    /\ step' = "destination"
    /\ Stay
    /\ UNCHANGED <<inputVars, choiceVars, focusVars, conversation, spent, reads>>

(* startImportApply: enter on Apply, or ctrl+enter. *)
Apply ==
    /\ At("review")
    /\ Start([kind |-> "apply", plan |-> plan])
    /\ spent' = TRUE
    /\ UNCHANGED <<choiceVars, focusVars>>

-----------------------------------------------------------------------------
(* External: parsing, planning and applying end, one way or the other.  A   *)
(* new session is not yet in the list, unless it was imported before.       *)
Run ==
    \E command \in running, ok \in BOOLEAN, row \in Rows \cup {None} :
        /\ running' = running \ {command}
        /\ inbox' = inbox \cup {[of |-> command.of,
                                 message |-> [request |-> command.request,
                                              ok |-> ok, row |-> row]]}
        /\ ok /\ command.request.kind = "apply" <=> row # None
        /\ row # None /\ command.request.plan.target \in Rows
             => row = command.request.plan.target
        /\ UNCHANGED <<open, opened, step, inputVars, choiceVars, focusVars,
                       conversation, plan, spent, busy, reads, rows>>

(* Wrong on purpose: after a failure the keys stay away. *)
TakeResult(kind, message) ==
    /\ \E m \in inbox : /\ m.message = message
                        /\ message.request.kind = kind
                        /\ inbox' = inbox \ {m}
    /\ open # 0
    /\ busy' = IF message.ok THEN "" ELSE busy
    /\ UNCHANGED <<open, opened, inputVars, choiceVars, reads, running>>

(* Its message is taken by whichever wizard is open. *)
Take(kind, message) ==
    /\ \E m \in inbox : /\ m.message = message
                        /\ message.request.kind = kind
                        /\ inbox' = inbox \ {m}
    /\ open # 0
    /\ busy' = ""
    /\ UNCHANGED <<open, opened, inputVars, choiceVars, reads, running>>

(* applyImportParsed *)
Parsed ==
    \E message \in {m.message : m \in inbox} :
        /\ Take("parse", message)
        /\ IF message.ok
           THEN /\ conversation' = message.request.of
                /\ step' = "preview" /\ inputFocused' = FALSE
           ELSE UNCHANGED <<conversation, step, inputFocused>>
        /\ UNCHANGED <<reviewFocused, applyFocused, plan, spent, rows>>

(* applyImportPlanned *)
Planned ==
    \E message \in {m.message : m \in inbox} :
        /\ Take("plan", message)
        /\ IF message.ok
           THEN /\ plan' = message.request.plan /\ spent' = FALSE
                /\ step' = "review" /\ applyFocused' = FALSE
           ELSE UNCHANGED <<plan, spent, step, applyFocused>>
        /\ UNCHANGED <<reviewFocused, inputFocused, conversation, rows>>

(* upsertAndSortRows: the session is now the newest one. *)
Upserted(row) ==
    LET at == {i \in DOMAIN rows : rows[i] = row}
    IN  <<row>> \o IF at = {} THEN rows
                   ELSE RemoveAt(rows, CHOOSE i \in at : TRUE)

(* Wrong on purpose: after a failure the same plan can be applied again.    *)
AppliedAgain ==
    \E message \in {m.message : m \in inbox} :
        /\ Take("apply", message)
        /\ IF message.ok
           THEN /\ step' = "success"
                /\ rows' = Upserted(message.row)
           ELSE UNCHANGED <<step, rows>>
        /\ UNCHANGED <<focusVars, conversation, plan, spent>>

(* applyImportApplied *)
Applied ==
    \E message \in {m.message : m \in inbox} :
        /\ Take("apply", message)
        /\ IF message.ok
           THEN /\ step' = "success"
                /\ rows' = Upserted(message.row)
                /\ UNCHANGED plan
           ELSE /\ plan' = None
                /\ step' = "destination"
                /\ UNCHANGED rows
        /\ UNCHANGED <<focusVars, conversation, spent>>

-----------------------------------------------------------------------------
KeyStep ==
    \/ Open \/ Close \/ ToggleSource \/ ChooseSource \/ FocusReview
    \/ PasteInstead \/ ToggleNote \/ TypeLink \/ TypePaste \/ ReadClipboard
    \/ Parse \/ AcceptPreview \/ RejectPreview \/ ToggleDestination
    \/ ChooseDestination \/ BackToDestination \/ CycleAgent \/ TypeFolder
    \/ \E delta \in {1, -1} : MoveExisting(delta)
    \/ MakePlan \/ FocusApply \/ RejectPlan \/ Apply

Answer == Parsed \/ Planned \/ Applied

Next == KeyStep \/ Paste \/ ClipboardAnswers \/ Run \/ Answer

Spec == Init /\ [][Next]_vars

(* Parsing, planning and applying have time limits; Bubble Tea delivers.    *)
FairSpec == Spec /\ WF_vars(Run) /\ WF_vars(Answer)

-----------------------------------------------------------------------------
(* A message is never taken by another wizard than the one that asked for   *)
(* it, and the wizard that asked waits for it (updateImport's guard on busy *)
(* keeps esc out).                                                          *)
ResultIsMine ==
    /\ \A m \in running \cup inbox : m.of = open
    /\ Cardinality(running) + Cardinality(inbox) = IF busy = "" THEN 0 ELSE 1

(* What is previewed, planned and reviewed was made from the text that the  *)
(* user gave last, as it was given, whatever the editor shows of it and     *)
(* whenever the clipboard answered (docs/web-import.md:89-93).              *)
PreviewIsOfSource ==
    open # 0 /\ step \notin {"source", "enter", "success"} =>
        conversation = [source |-> source, text |-> given, note |-> asNote]

(* The plan under review is for the conversation that was previewed and the *)
(* destination that was chosen (applyImportPlanned, importReviewView).      *)
PlanIsForScreen ==
    open # 0 /\ step = "review" =>
        plan = [of |-> conversation, target |-> Target]

(* The chosen session is one of the list, whose length it must not exceed   *)
(* (m.allRows[w.existingIndex]).                                            *)
IndexInRange ==
    open # 0 /\ step = "existing" /\ rows # <<>> => existing <= Len(rows)

(* Nothing is applied but the plan under review, and never twice: after a   *)
(* failure, which may have written, the destination is checked anew         *)
(* (applyImportApplied).                                                    *)
AppliesOnce ==
    [][\A m \in running' \ running :
          m.request.kind = "apply" =>
              step = "review" /\ m.request.plan = plan /\ ~spent]_vars

(* import.go:637, the line below the pasted text unless it is a read-only    *)
(* preview: "Plain Enter adds a newline".                                   *)
KeysReachInput ==
    Typing /\ source = "paste" /\ original = None => inputFocused

(* The wizard does not keep the keys for ever.                              *)
WizardAnswers == busy # "" ~> busy = ""

-----------------------------------------------------------------------------
(* The inductive invariant.  At most one request is under way, it is of the *)
(* open wizard, and of the step the wizard is at, ...                       *)
Requested == {c.request : c \in running} \cup {m.message.request : m \in inbox}

CommandInv ==
    /\ \A m \in running \cup inbox : m.of = open
    /\ busy = "" => running = {} /\ inbox = {}
    /\ busy # "" => /\ open # 0
                    /\ \/ inbox = {} /\ \E c \in running : running = {c}
                       \/ running = {} /\ \E m \in inbox : inbox = {m}
    /\ \A r \in Requested : r.kind = busy
    /\ busy = "parse" => step = "enter"
    /\ busy = "plan" => step \in {"create", "existing"}
    /\ busy = "apply" => step = "review"

(* ... it is for what the user gave and chose, ...                          *)
RequestInv ==
    /\ destination \in {"create", "existing"}
    /\ step \in {"create", "existing"} => destination = step
    /\ given = SourceText
    /\ \A r \in Requested :
          /\ r.kind = "parse" =>
                r.of = [source |-> source, text |-> given, note |-> asNote]
          /\ r.kind = "plan" =>
                r.plan = [of |-> conversation, target |-> Target]

(* ... a plan under review has not been applied, unless it is now, ...     *)
ReviewInv ==
    open # 0 /\ step = "review" =>
        /\ plan = [of |-> conversation, target |-> Target]
        /\ busy = "" => ~spent

(* ... and the index of the chosen session is one of the list.             *)
IndexInv ==
    /\ rows \in Seq(Rows)
    /\ existing \in Nat \ {0}
    /\ \A m \in inbox : m.message.ok /\ m.message.request.kind = "apply" =>
          m.message.row \in Rows
    /\ IndexInRange

IInv == CommandInv /\ IndexInv /\ RequestInv /\ PreviewIsOfSource /\ ReviewInv
=============================================================================
