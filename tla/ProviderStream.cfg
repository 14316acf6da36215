SPECIFICATION Spec
CONSTANTS
  Fragments = {"space", "word"}
  Names <- NamePieces
  Arguments <- ArgumentPieces
  Indexes = {0, 1}
  Windows = {0, 4096}
  Configured = {0, 8192}
  MaxLines = 3
INVARIANTS AnswerIsWhatWasStreamed CompletedIsLast
CHECK_DEADLOCK FALSE
