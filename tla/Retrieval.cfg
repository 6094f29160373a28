SPECIFICATION Spec
CONSTANTS
  Indexers = {i1, i2}
  NoOne = NoOne
  Files <- MCFiles
  Language <- MCLanguage
  Skipped <- MCSkipped
  Unreadable <- MCUnreadable
  Repositories <- MCRepositories
  Edits <- MCEdits
  MAX_CHUNK_LINES = 1
  WINDOW_LINES = 3
  WINDOW_OVERLAP = 1
CHECK_DEADLOCK FALSE
INVARIANTS
  TypeOK
  ChunksCover
  SymbolsNest
  IndexReplaced
