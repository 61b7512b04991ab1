---------------------------- MODULE Conversions ----------------------------
(***************************************************************************)
(* How showagent reads the sessions of other agents and hands them over     *)
(* (src/internal/session: handoff.go and one file per provider).            *)
(*                                                                         *)
(* One session is kept by an agent that appends records to it, edits,       *)
(* rewinds and branches as its format allows.  showagent derives a          *)
(* transcript and a row of the list from the records, and can hand the      *)
(* conversation to another agent, which goes on with it.  `told' is what    *)
(* was said, kept without any format.                                       *)
(*                                                                         *)
(* A text is a sequence of marks: a word, or a mark some reader looks for,  *)
(* or one that is more than the mimo CLI prints ("huge").                   *)
(* Joining and cleaning texts concatenates them.                            *)
(***************************************************************************)
EXTENDS Naturals, Sequences, SequencesExt, FiniteSets, Functions

CONSTANTS
    Words,       \* what can be said, a word for each record to come
    MaxRecords,  \* bound: records of the session
    LongIn,      \* formats in which a record may be over scanBufferMax
    PageSize,    \* mimoTranscript: parts asked for at a time
    PageCap      \* parts that the mimo CLI prints without cutting its output

Formats == {"codex", "claude", "gemini", "pi", "pi1", "jcode", "opencode",
            "mimo", "antigravity"}
Targets == Formats \ {"pi1", "antigravity"}

(* How the session stands with its agent: one of the user's own, one of a   *)
(* tool call, one put into the archive, MiMo's copy of a Claude session     *)
(* whose original is still there, and a Claude session whose messages do    *)
(* not name the directory its project is filed under.                       *)
Standings(f) ==
    {"own"} \cup
    CASE f \in {"codex", "gemini"} -> {"child"}
      [] f = "claude" -> {"child", "moved"}
      [] f = "opencode" -> {"child", "archived"}
      [] f = "mimo" -> {"child", "archived", "imported"}
      [] OTHER -> {}

ASSUME ConversionsAssumption ==
    /\ MaxRecords \in Nat /\ LongIn \subseteq Formats
    /\ PageSize \in Nat \ {0} /\ PageCap \in Nat \ {0}
    /\ Words \in Seq(Range(Words)) /\ Len(Words) > MaxRecords
    /\ \A i \in 1..Len(Words) :
         Words[i] \notin {"context", "slash", "open", "close", "block", "huge"}

VARIABLES
    format,    \* the agent that keeps the session
    standing,  \* how it stands with the agent
    log,       \* its records
    told,      \* the conversation after each of them
    handed,    \* the row Convert just returned, or NoRow
    left       \* records the agents may still add

vars == <<format, standing, log, told, handed, left>>

NoRow == [listed |-> FALSE, first |-> <<>>, last |-> <<>>]

-----------------------------------------------------------------------------
(* Records.  A part of a message is shown, or is a tool result, a thought,  *)
(* synthetic or ignored text.                                               *)
Part(text, shown) == [text |-> text, shown |-> shown]

Record(kind, id, parent, role, parts, body) ==
    [kind |-> kind, id |-> id, parent |-> parent, role |-> role,
     parts |-> parts, body |-> body]

Message(id, parent, role, parts) ==
    Record("message", id, parent, role, parts, <<>>)

Other(kind, id, parent) == Record(kind, id, parent, "none", <<>>, <<>>)

(* What F makes of the elements of s, one after the other: the loop of every *)
(* reader, which skips an element or appends what it makes of it.           *)
Gathered(F(_), s) == FlattenSeq([i \in 1..Len(s) |-> F(s[i])])

(* textFromContent, geminiContentText and the joins of the others. *)
TextFromContent(parts) ==
    Gathered(LAMBDA p : IF p.shown THEN p.text ELSE <<>>, parts)

StartsWith(text, marks) == text # <<>> /\ Head(text) \in marks

(* Injected context is not something the user said. *)
UsefulUserText(text) == text # <<>> /\ ~StartsWith(text, {"context"})

KeepTranscriptTurn(role, text) ==
    /\ role \in {"user", "assistant"}
    /\ role = "user" => UsefulUserText(text)
    /\ text # <<>>

Turn(role, text) == [role |-> role, text |-> text]

(* The turn a message makes, if it is kept. *)
TurnOf(r) ==
    LET text == TextFromContent(r.parts)
    IN IF r.kind = "message" /\ KeepTranscriptTurn(r.role, text)
       THEN <<Turn(r.role, text)>> ELSE <<>>

TurnsOf(records) == Gathered(TurnOf, records)

Latest(S) == CHOOSE k \in S : \A j \in S : j <= k

-----------------------------------------------------------------------------
(* codexTranscript and claudeTranscript: scanLines leaves out a record over *)
(* the limit, and other types than messages are not looked at.              *)
CodexTranscript(records) == TurnsOf(records)
ClaudeTranscript(records) == TurnsOf(records)

(* jcode keeps one document; its own system messages are left out. *)
JCodeTranscript(records) == TurnsOf(records)

(* What gemini-cli's isIgnoredUserContent leaves out. *)
GeminiIgnoredUserText(text) ==
    text = <<>> \/ StartsWith(text, {"slash"})

(* reindexGeminiMessages: the last position of each id. *)
Reindex(messages) ==
    [id \in {messages[i].id : i \in DOMAIN messages} |->
        Latest({i \in DOMAIN messages : messages[i].id = id})]

Indexed(messages) == [messages |-> messages, index |-> Reindex(messages)]

(* One record of the log that loadGeminiConversation replays. *)
GeminiRewind(c, r) ==
    Indexed(IF r.id \in DOMAIN c.index
            THEN SubSeq(c.messages, 1, c.index[r.id] - 1) ELSE <<>>)

GeminiMessage(c, r) ==
    IF r.id \in DOMAIN c.index
    THEN [messages |-> [c.messages EXCEPT ![c.index[r.id]] = r],
          index |-> c.index]
    ELSE [messages |-> Append(c.messages, r),
          index |-> [id \in DOMAIN c.index \cup {r.id} |->
                       IF id = r.id THEN Len(c.messages) + 1 ELSE c.index[id]]]

(* Wrong on purpose: the index is not rebuilt. *)
SnapshotKeepsIndex(c, r) == [c EXCEPT !.messages = r.body]

(* A checkpoint replaces the conversation. *)
GeminiSnapshot(c, r) == Indexed(r.body)

GeminiReplay(c, r) ==
    CASE r.kind = "rewind" -> GeminiRewind(c, r)
      [] r.kind = "message" -> GeminiMessage(c, r)
      [] r.kind = "snapshot" -> GeminiSnapshot(c, r)
      [] OTHER -> c

LoadGeminiConversation(records) ==
    LET replayed[k \in 0..Len(records)] ==
          IF k = 0 THEN Indexed(<<>>)
          ELSE GeminiReplay(replayed[k - 1], records[k])
    IN replayed[Len(records)]

GeminiTurn(m) ==
    IF m.role = "user" /\ GeminiIgnoredUserText(TextFromContent(m.parts))
    THEN <<>> ELSE TurnOf(m)

GeminiTranscript(records) ==
    Gathered(GeminiTurn, LoadGeminiConversation(records).messages)

(* loadPiSession: the last record that was read is the leaf, and the        *)
(* session is its line of parents.  (The check for a circle of parents only *)
(* matters in a damaged file.)                                              *)
PiRead(records) == {k \in 1..Len(records) : records[k].kind # "long"}

PiParents(records) ==
    LET path[k \in 1..Len(records)] ==
          LET up == {j \in PiRead(records) : j < k /\ records[j].id = records[k].parent}
          IN IF up = {} THEN <<k>> ELSE Append(path[Latest(up)], k)
    IN path

PiPath(records) ==
    IF PiRead(records) = {} THEN <<>>
    ELSE PiParents(records)[Latest(PiRead(records))]

PiTurns(records, path) == Gathered(LAMBDA k : TurnOf(records[k]), path)

PiTranscript(records) == PiTurns(records, PiPath(records))

(* Version 1 has no parents: every entry, in order. *)
LegacyPiTranscript(records) == TurnsOf(records)

(* opencodeTranscript: the exported messages. *)
OpenCodeTranscript(records) == TurnsOf(records)

(* mimoTranscript reads the shown parts in pages; a page over what the CLI  *)
(* prints is cut off, does not parse, and is asked for again half as long.  *)
(* A single part that is cut off is an error.                               *)
TooLarge(text) == "huge" \in Range(text)

MimoPartsOf(r) ==
    Gathered(LAMBDA p : IF p.shown
                        THEN <<[id |-> r.id, role |-> r.role, text |-> p.text]>>
                        ELSE <<>>, r.parts)

MimoParts(records) == Gathered(MimoPartsOf, records)

MimoPage(parts, offset, limit) ==
    SubSeq(parts, offset + 1,
           IF offset + limit > Len(parts) THEN Len(parts) ELSE offset + limit)

(* Wrong on purpose: the last page is the first one that is not whole. *)
ShortPage(page, limit) == Len(page) < PageSize

LastPage(page, limit) == Len(page) < limit

Printed(page) == /\ Len(page) <= PageCap
                 /\ \A i \in 1..Len(page) : ~TooLarge(page[i].text)

(* All the rows, as the one element of a set that is empty after an error.  *)
MimoRows(parts) ==
    LET from[at \in (0..Len(parts)) \X (1..PageSize)] ==
          LET page == MimoPage(parts, at[1], at[2])
          IN IF ~Printed(page)
             THEN IF at[2] = 1 THEN {} ELSE from[<<at[1], at[2] \div 2>>]
             ELSE IF LastPage(page, at[2]) THEN {page}
             ELSE {page \o rest : rest \in from[<<at[1] + Len(page), at[2]>>]}
    IN from[<<0, PageSize>>]

(* The parts of a message follow one another and make one turn. *)
MimoFlush(s) ==
    IF KeepTranscriptTurn(s.role, s.text)
    THEN Append(s.turns, Turn(s.role, s.text)) ELSE s.turns

MimoItem(s, row) ==
    IF s.id # 0 /\ row.id # s.id
    THEN [turns |-> MimoFlush(s), id |-> row.id, role |-> row.role,
          text |-> row.text]
    ELSE [turns |-> s.turns, id |-> row.id, role |-> row.role,
          text |-> s.text \o row.text]

MimoGrouped(rows) ==
    LET after[k \in 0..Len(rows)] ==
          IF k = 0
          THEN [turns |-> <<>>, id |-> 0, role |-> "none", text |-> <<>>]
          ELSE MimoItem(after[k - 1], rows[k])
    IN after[Len(rows)]

MimoTranscript(records) ==
    LET read == MimoRows(MimoParts(records))
    IN IF read = {} THEN <<>>
       ELSE MimoFlush(MimoGrouped(CHOOSE rows \in read : TRUE))

(* Wrong on purpose: the wrapper ends at the first closing mark. *)
FirstClose(content) ==
    LET body == Tail(content)
        ends == {i \in 1..Len(body) : body[i] = "close"}
    IN IF ~StartsWith(content, {"open"}) \/ ends = {} THEN content
       ELSE SubSeq(body, 1, (CHOOSE i \in ends : \A j \in ends : i <= j) - 1)

(* antigravityUserText: a prompt is wrapped, and injected blocks may follow *)
(* it; the wrapper ends at the last closing mark that only blocks follow.   *)
AntigravityUserText(content) ==
    LET body == Tail(content)
        ends == {i \in 1..Len(body) :
                   /\ body[i] = "close"
                   /\ i = Len(body) \/ body[i + 1] = "block"}
    IN IF ~StartsWith(content, {"open"}) \/ ends = {} THEN content
       ELSE SubSeq(body, 1, Latest(ends) - 1)

AntigravityTurn(r) ==
    IF r.role # "user" THEN TurnOf(r)
    ELSE TurnOf([r EXCEPT !.parts =
             <<Part(AntigravityUserText(TextFromContent(r.parts)), TRUE)>>])

AntigravityTranscript(records) == Gathered(AntigravityTurn, records)

(* Transcript(row): each provider's reader; nothing stands for an error too. *)
Transcript(f, records) ==
    CASE f = "codex" -> CodexTranscript(records)
      [] f = "claude" -> ClaudeTranscript(records)
      [] f = "gemini" -> GeminiTranscript(records)
      [] f = "pi" -> PiTranscript(records)
      [] f = "pi1" -> LegacyPiTranscript(records)
      [] f = "jcode" -> JCodeTranscript(records)
      [] f = "opencode" -> OpenCodeTranscript(records)
      [] f = "mimo" -> MimoTranscript(records)
      [] f = "antigravity" -> AntigravityTranscript(records)

-----------------------------------------------------------------------------
(* The row of the list: is the session listed, and under which first and    *)
(* last prompt?  (Cleaning and redacting a preview is left out.)            *)
Users(turns) ==
    Gathered(LAMBDA t : IF t.role = "user" THEN <<t>> ELSE <<>>, turns)

Listed(first, last) == [listed |-> TRUE, first |-> first, last |-> last]

(* The first and the last of some texts. *)
Preview(texts) ==
    IF texts = <<>> THEN Listed(<<>>, <<>>) ELSE Listed(texts[1], Last(texts))

TextsOf(turns) == [i \in 1..Len(turns) |-> turns[i].text]

(* userPreviewFromTurns *)
UserPreview(turns) == Preview(TextsOf(Users(turns)))

(* The head scan of Codex stops when it has a meta record and the first     *)
(* prompt, Claude's when a record named the launch directory and it has the *)
(* first prompt.  A record over the limit before that drops the session     *)
(* from the list.                                                           *)
UserRecord(r) == /\ r.kind = "message" /\ r.role = "user"
                 /\ UsefulUserText(TextFromContent(r.parts))

Prompts(records) ==
    Gathered(LAMBDA r : IF UserRecord(r) THEN <<TextFromContent(r.parts)>>
                        ELSE <<>>, records)

Meta(r) == r.kind = "meta"

NamesLaunch(how, r) == Meta(r) \/ (r.kind = "message" /\ how # "moved")

HeadReadable(f, how, records) ==
    \A i \in 1..Len(records) : records[i].kind = "long" =>
        /\ \E j \in 1..i-1 : UserRecord(records[j])
        /\ \E j \in 1..i-1 : IF f = "codex" THEN Meta(records[j])
                            ELSE NamesLaunch(how, records[j])

(* One pass from the front for the first prompt, one from the back for the  *)
(* last one.  It is a meta record that tells a session of a tool call.      *)
ParseCodex(how, records) ==
    IF \/ how = "child" /\ \E i \in 1..Len(records) : Meta(records[i])
       \/ ~HeadReadable("codex", how, records)
    THEN NoRow ELSE Preview(Prompts(records))

(* The files under subagents/ are left out by their path. *)
ParseClaude(how, records) ==
    IF how = "child" \/ ~HeadReadable("claude", how, records)
    THEN NoRow ELSE Preview(Prompts(records))

(* A session with a reply, even one of tool calls only, can be resumed. *)
ParseGemini(how, records) ==
    LET messages == LoadGeminiConversation(records).messages
        replied == \E i \in DOMAIN messages :
                      messages[i].role = "assistant" /\ messages[i].parts # <<>>
        turns == GeminiTranscript(records)
    IN IF how = "child" \/ (~replied /\ Users(turns) = <<>>) THEN NoRow
       ELSE UserPreview(turns)

(* Wrong on purpose: the prompts of every branch of the file. *)
ParsePiAnyBranch(f, records) ==
    IF Transcript(f, records) = <<>> THEN NoRow
    ELSE UserPreview(LegacyPiTranscript(records))

ParsePi(f, records) ==
    IF Transcript(f, records) = <<>> THEN NoRow
    ELSE UserPreview(Transcript(f, records))

(* A session nobody prompted is not listed. *)
ParseJCode(records) ==
    IF Users(JCodeTranscript(records)) = <<>> THEN NoRow
    ELSE UserPreview(JCodeTranscript(records))

(* The query takes the first and the last shown text part of the user's     *)
(* messages; injected context shows the title, which is left out here.  It  *)
(* asks for sessions without a parent that are not archived; what MiMo      *)
(* copied from a file that is still there is dropped from its answer.  An   *)
(* answer that the mimo CLI cuts off lists nothing.                         *)
UserParts(records) ==
    Gathered(LAMBDA p : IF p.role = "user" THEN <<p.text>> ELSE <<>>,
             MimoParts(records))

ParseOpenCode(f, how, records) ==
    LET shown == Preview(UserParts(records))
        Useful(text) == IF UsefulUserText(text) THEN text ELSE <<>>
    IN IF \/ how \in {"child", "archived", "imported"}
          \/ f = "mimo" /\ (TooLarge(shown.first) \/ TooLarge(shown.last))
       THEN NoRow ELSE Listed(Useful(shown.first), Useful(shown.last))

(* Any kept turn lists it. *)
ParseAntigravity(records) ==
    IF AntigravityTranscript(records) = <<>> THEN NoRow
    ELSE UserPreview(AntigravityTranscript(records))

RowOf(f, how, records) ==
    CASE f = "codex" -> ParseCodex(how, records)
      [] f = "claude" -> ParseClaude(how, records)
      [] f = "gemini" -> ParseGemini(how, records)
      [] f \in {"pi", "pi1"} -> ParsePi(f, records)
      [] f = "jcode" -> ParseJCode(records)
      [] f \in {"opencode", "mimo"} -> ParseOpenCode(f, how, records)
      [] f = "antigravity" -> ParseAntigravity(records)

(* Wrong on purpose: the first turns instead of the last. *)
ApplyFirst(maxTurns, turns) ==
    IF maxTurns = 0 \/ Len(turns) <= maxTurns THEN turns
    ELSE SubSeq(turns, 1, maxTurns)

-----------------------------------------------------------------------------
(* Handing over.  HandoffOptions.apply keeps the last turns. *)
Apply(maxTurns, turns) ==
    IF maxTurns = 0 \/ Len(turns) <= maxTurns THEN turns
    ELSE SubSeq(turns, Len(turns) - maxTurns + 1, Len(turns))

Chained(turns) ==
    [i \in 1..Len(turns) |->
       Message(i, i - 1, turns[i].role, <<Part(turns[i].text, TRUE)>>)]

(* Each turn twice: as a response item and as the event that Codex's own    *)
(* history is made from.                                                    *)
WriteCodex(turns) ==
    <<Other("meta", 0, 0)>> \o
    FlattenSeq([i \in 1..Len(turns) |->
                  <<Chained(turns)[i], Other("event", i, i)>>])

WriteClaude(turns) == <<Other("permission-mode", 0, 0)>> \o Chained(turns)

(* A legacy document: the whole conversation in one record. *)
WriteGemini(turns) ==
    <<Record("snapshot", 0, 0, "none", <<>>, Chained(turns))>>

WritePi(turns) == Chained(turns)

(* Wrong on purpose: the hidden reminder of jcode as an ordinary message. *)
WriteJCodePlain(turns) ==
    <<Message(0, 0, "user", <<Part(<<"open">>, TRUE)>>)>> \o Chained(turns)

(* A reminder that jcode does not show, then the turns. *)
WriteJCode(turns) == <<Other("system", 0, 0)>> \o Chained(turns)

WriteOpenCode(turns) == Chained(turns)

WriteConverted(target, turns) ==
    CASE target = "codex" -> WriteCodex(turns)
      [] target = "claude" -> WriteClaude(turns)
      [] target = "gemini" -> WriteGemini(turns)
      [] target = "pi" -> WritePi(turns)
      [] target = "jcode" -> WriteJCode(turns)
      [] target \in {"opencode", "mimo"} -> WriteOpenCode(turns)

-----------------------------------------------------------------------------
(* What was said, and what of it another agent can be given. *)
Said == IF log = <<>> THEN <<>> ELSE Last(told)

Transferable(f, s) ==
    /\ s.text # <<>>
    /\ s.role = "user" =>
         s.text[1] \notin {"context"} \cup (IF f = "gemini" THEN {"slash"} ELSE {})

Heard(f, conversation) ==
    Gathered(LAMBDA s : IF Transferable(f, s) THEN <<Turn(s.role, s.text)>>
                        ELSE <<>>, conversation)

LastTurns(n, turns) ==
    SubSeq(turns, IF n = 0 \/ n > Len(turns) THEN 1 ELSE Len(turns) - n + 1,
           Len(turns))

(* Convert: the new session is another agent's from here on. *)
Convert ==
    /\ handed = NoRow
    /\ \E transcript \in {Transcript(format, log)} \ {<<>>} :
         \E target \in Targets, maxTurns \in {0, 2} :
            LET turns == Apply(maxTurns, transcript)
                given == LastTurns(maxTurns, transcript)
                conversation == [i \in 1..Len(given) |->
                                   [id |-> i, role |-> given[i].role,
                                    text |-> given[i].text]]
            IN /\ format' = target /\ standing' = "own"
               /\ log' = WriteConverted(target, turns)
               /\ told' = [k \in 1..Len(log') |->
                             IF target = "pi" /\ k <= Len(given)
                             THEN SubSeq(conversation, 1, k) ELSE conversation]
               /\ handed' = UserPreview(turns)
    /\ UNCHANGED left

-----------------------------------------------------------------------------
(* The agents.  A record leaves the conversation as `conversation'. *)
Add(r, conversation) ==
    /\ left > 0 /\ left' = left - 1
    /\ log' = Append(log, r) /\ told' = Append(told, conversation)
    /\ handed' = NoRow
    /\ UNCHANGED <<format, standing>>

(* Newer than every id of the session; Convert numbers the turns from 1. *)
NewId == Len(log) + MaxRecords + 1
LastId == IF log = <<>> THEN 0 ELSE Last(log).id

Word == Words[left + 1]

(* How a message is put into parts: alone, around a part nobody sees, or     *)
(* with nothing to see.  Antigravity wraps what the user typed, which may    *)
(* quote the wrapper.                                                       *)
Utterance(text, parts) == [text |-> text, parts |-> parts]
Plain(text) == Utterance(text, <<Part(text, TRUE)>>)
Hidden == Part(<<"block">>, FALSE)

Wrapped(text, blocks) ==
    Utterance(text, <<Part(<<"open">> \o text \o <<"close">> \o blocks, TRUE)>>)

Utterances(role) ==
    IF format = "antigravity" /\ role = "user"
    THEN {Wrapped(text, blocks) : text \in {<<Word>>, <<"context">>, <<"close", Word>>},
                                  blocks \in {<<>>, <<"block">>}}
    ELSE {Plain(<<Word>>), Plain(<<"context">>), Plain(<<"huge">>),
          Utterance(<<>>, <<Hidden>>),
          Utterance(<<Word, "close">>,
                    <<Part(<<Word>>, TRUE), Hidden, Part(<<"close">>, TRUE)>>)}
         \cup (IF role = "user" THEN {Plain(<<"slash">>)} ELSE {})

Say(role) ==
    \E u \in Utterances(role) :
        Add(Message(NewId, LastId, role, u.parts),
            Append(Said, [id |-> NewId, role |-> role, text |-> u.text]))

(* Pi goes on from an earlier entry of the file. *)
PiBranch(role) ==
    /\ format = "pi"
    /\ \E k \in 1..Len(log) - 1 :
         Add(Message(NewId, log[k].id, role, <<Part(<<Word>>, TRUE)>>),
             Append(told[k], [id |-> NewId, role |-> role, text |-> <<Word>>]))

(* Gemini changes a message in place, ... *)
GeminiEdit ==
    /\ format = "gemini"
    /\ \E i \in 1..Len(Said) :
         Add(Message(Said[i].id, 0, Said[i].role, <<Part(<<Word>>, TRUE)>>),
             [Said EXCEPT ![i].text = <<Word>>])

(* ... goes back to before a message, or to the start, ... *)
GeminiGoBack ==
    /\ format = "gemini"
    /\ \E i \in 0..Len(Said) :
         Add(Other("rewind", IF i = 0 THEN NewId ELSE Said[i].id, 0),
             SubSeq(Said, 1, IF i = 0 THEN 0 ELSE i - 1))

(* ... and replaces the whole by a snapshot, here without its first message. *)
GeminiCompress ==
    /\ format = "gemini" /\ Said # <<>>
    /\ Add(Record("snapshot", 0, 0, "none", <<>>,
                  [i \in 1..Len(Said) - 1 |->
                     Message(Said[i + 1].id, 0, Said[i + 1].role,
                             IF Said[i + 1].text = <<>> THEN <<>>
                             ELSE <<Part(Said[i + 1].text, TRUE)>>)]),
           Tail(Said))

(* Records that say nothing; one of them may be over the limit.  Codex may   *)
(* store its meta record at any point, or never, and a record may name the  *)
(* launch directory of a Claude session.                                    *)
Aside ==
    \E kind \in {"tool"} \cup (IF format \in LongIn THEN {"long"} ELSE {})
                        \cup (IF format \in {"codex", "claude"} THEN {"meta"} ELSE {}) :
        Add(Other(kind, NewId, LastId), Said)

(* The user puts the session into the archive, ... *)
Archive ==
    /\ format \in {"opencode", "mimo"} /\ standing \in {"own", "imported"}
    /\ standing' = "archived" /\ handed' = NoRow
    /\ UNCHANGED <<format, log, told, left>>

(* ... and deletes the Claude session that MiMo copied. *)
OriginalGone ==
    /\ standing = "imported" /\ standing' = "own" /\ handed' = NoRow
    /\ UNCHANGED <<format, log, told, left>>

Init ==
    /\ format \in Formats /\ standing \in Standings(format)
    /\ log = <<>> /\ told = <<>> /\ handed = NoRow /\ left = MaxRecords

Next ==
    \/ \E role \in {"user", "assistant"} : Say(role) \/ PiBranch(role)
    \/ GeminiEdit \/ GeminiGoBack \/ GeminiCompress \/ Aside
    \/ Archive \/ OriginalGone
    \/ Convert

Spec == Init /\ [][Next]_vars

-----------------------------------------------------------------------------
(* Whatever the agent edits, rewinds, compresses or branches, and through   *)
(* whatever hand-off the session came, the transcript is the conversation   *)
(* as it stands: nothing is lost, doubled, revived or put in another order. *)
(* Only Pi's line of parents breaks at a record over the limit, although it *)
(* says nothing: what came before it is lost, and nothing else.  And MiMo   *)
(* gives no transcript when a single part is more than its CLI prints.      *)
CutOff(records) ==
    \E i \in 1..Len(MimoParts(records)) : TooLarge(MimoParts(records)[i].text)

TranscriptIsConversation ==
    IF format = "pi" /\ \E i \in 1..Len(log) : log[i].kind = "long"
    THEN IsSuffix(Transcript(format, log), Heard(format, Said))
    ELSE Transcript(format, log) =
           IF format = "mimo" /\ CutOff(log) THEN <<>> ELSE Heard(format, Said)

(* The list, which is made from scans of the head and the tail, a query or  *)
(* the replayed records, agrees with the transcript: the first and the last *)
(* prompt of a row are those of the transcript (OpenCode may show another   *)
(* part of a message in several parts, and the title for context; a MiMo    *)
(* row may be of a session whose transcript is an error).  A session with   *)
(* turns is left out only if it is one of a tool call, is archived or the   *)
(* copy of a Claude session that is listed, was never prompted (jcode), or  *)
(* has an oversized record before its first prompt or before the record     *)
(* that says where it belongs (Codex's meta record, the launch directory of *)
(* Claude).                                                                 *)
Settled(f, how, records) ==
    /\ \E j \in 1..Len(records) : UserRecord(records[j])
    /\ \E j \in 1..Len(records) :
          \/ Meta(records[j])
          \/ f = "claude" /\ how # "moved" /\ records[j].kind = "message"

RowShowsTranscript ==
    LET turns == Transcript(format, log)
        users == Users(turns)
        row == RowOf(format, standing, log)
    IN /\ row.listed /\ ~(format = "mimo" /\ CutOff(log)) =>
            IF format \in {"opencode", "mimo"}
            THEN \A shown \in {row.first, row.last} \ {<<>>} :
                    \E i \in 1..Len(users) :
                       \/ IsPrefix(shown, users[i].text)
                       \/ IsSuffix(shown, users[i].text)
            ELSE row = UserPreview(turns)
       /\ turns # <<>> /\ ~row.listed =>
            \/ standing \in {"child", "archived", "imported"}
            \/ format = "jcode" /\ users = <<>>
            \/ /\ format \in {"codex", "claude"}
               /\ \E i \in 1..Len(log) :
                    /\ log[i].kind = "long"
                    /\ ~Settled(format, standing, SubSeq(log, 1, i - 1))

(* The row that Convert returns, which the picker selects and resumes, is   *)
(* the one a rescan finds; only jcode leaves out a conversation that no     *)
(* prompt is in, Gemini a prompt that starts like a command, and MiMo lists *)
(* none of its sessions when one's first or last prompt is more than its    *)
(* CLI prints.                                                              *)
HandedRowIsFound ==
    handed # NoRow =>
       \/ RowOf(format, standing, log) = handed
       \/ format = "jcode" /\ handed.first = <<>>
       \/ format = "gemini" /\ \E i \in 1..Len(Said) :
                                Said[i].role = "user" /\ Said[i].text[1] = "slash"
       \/ format = "mimo" /\ (TooLarge(handed.first) \/ TooLarge(handed.last))

-----------------------------------------------------------------------------
(* The values of the variables. *)
Marks == Range(Words) \cup {"context", "slash", "open", "close", "block", "huge"}
Texts == Seq(Marks)
Speakers == {"user", "assistant"}
Parts == [text : Texts, shown : BOOLEAN]
Messages == [kind : {"message"}, id : Nat, parent : Nat, role : Speakers,
             parts : Seq(Parts), body : {<<>>}]
Records == Messages \cup
    [kind : {"tool", "long", "rewind", "snapshot", "meta", "event",
             "permission-mode", "system"},
     id : Nat, parent : Nat, role : {"none"}, parts : {<<>>},
     body : Seq(Messages)]
Sayings == [id : Nat, role : Speakers, text : Texts]

TypeOK ==
    /\ format \in Formats /\ standing \in Standings(format)
    /\ log \in Seq(Records)
    /\ told \in Seq(Seq(Sayings)) /\ Len(told) = Len(log)
    /\ handed \in [listed : BOOLEAN, first : Texts, last : Texts]
    /\ left \in 0..MaxRecords

(* A new id is newer than all others.  Where records are found by their     *)
(* ids, each has its own.                                                   *)
IdInv ==
    /\ \A i \in 1..Len(log) : log[i].id <= i + MaxRecords
    /\ \A k \in 1..Len(told) : \A i \in 1..Len(told[k]) :
          told[k][i].id <= k + MaxRecords
    /\ format \in {"pi", "mimo"} =>
          \A i, j \in 1..Len(log) : log[i].id = log[j].id => i = j
    /\ format = "mimo" => \A i \in 1..Len(log) : log[i].id # 0

(* Nothing is said but by the records that were added. *)
SizeInv == \A k \in 1..Len(told) : Len(told[k]) + left <= MaxRecords

(* A log that is read from the first record to the last one. *)
LinearInv ==
    format \in {"codex", "claude", "pi1", "jcode", "opencode", "mimo"} =>
        TurnsOf(log) = Heard(format, Said)

AntigravityInv ==
    format = "antigravity" => AntigravityTranscript(log) = Heard(format, Said)

(* What Gemini's log comes to is the conversation, message for message, and *)
(* the index has the place of each.                                         *)
Mirrors(c, said) ==
    /\ c.messages \in Seq(Messages) /\ Len(c.messages) = Len(said)
    /\ \A i \in 1..Len(said) :
          /\ c.messages[i].id = said[i].id
          /\ c.messages[i].role = said[i].role
          /\ TextFromContent(c.messages[i].parts) = said[i].text
    /\ DOMAIN c.index = {said[i].id : i \in 1..Len(said)}
    /\ \A i \in 1..Len(said) : c.index[said[i].id] = i

GeminiInv == format = "gemini" => Mirrors(LoadGeminiConversation(log), Said)

(* Every line of parents is the conversation at its end, or the end of it   *)
(* where a record over the limit was skipped.                               *)
LineFits(records, turns, conversation) ==
    IF \E i \in 1..Len(records) : records[i].kind = "long"
    THEN IsSuffix(turns, Heard("pi", conversation))
    ELSE turns = Heard("pi", conversation)

LinesFit(records, conversations) ==
    /\ \A k \in PiRead(records) :
          LineFits(records, PiTurns(records, PiParents(records)[k]), conversations[k])
    /\ \A k \in (1..Len(records)) \ PiRead(records) :
          conversations[k] = IF k = 1 THEN <<>> ELSE conversations[k - 1]

PiInv == format = "pi" => LinesFit(log, told)

(* A prompt whose last part is one is one as a whole. *)
PartsFine(r) ==
    r.role = "user" =>
        \A j \in 1..Len(r.parts) :
            r.parts[j].shown /\ UsefulUserText(r.parts[j].text) =>
                UsefulUserText(TextFromContent(r.parts))

PartsInv ==
    format \in {"opencode", "mimo"} => \A i \in 1..Len(log) : PartsFine(log[i])

IInv ==
    /\ TypeOK /\ IdInv /\ SizeInv /\ PartsInv
    /\ LinearInv /\ AntigravityInv /\ GeminiInv /\ PiInv
    /\ HandedRowIsFound
=============================================================================
