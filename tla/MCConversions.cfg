SPECIFICATION Spec
CONSTANTS
  Words <- SomeWords
  MaxRecords = 3
  LongIn = {"codex", "claude", "gemini", "pi", "pi1", "antigravity"}
  PageSize = 4
  PageCap = 2
INVARIANTS
  TranscriptIsConversation
  RowShowsTranscript
  HandedRowIsFound
CHECK_DEADLOCK FALSE
