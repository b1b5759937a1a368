SPECIFICATION FairAllSpec
CONSTANTS
  Parts = {"archive", "classification", "reader"}
  ArchiveFiles <- MCFiles
  Deferred <- MCDeferred
  MaxLength = 2
  MaxIncarnation = 2
  BatchLines = 1
  PresenceBatch = 2
  MaxPend = 1
  MaxHeld = 2
  Scenarios <- MCScenarios
  Sessions = {1, 2, 3, 4}
  NoSession = 0
  MaxOrdinal = 2
  MaxDepth = 2
  Fanout = 2
  MaxBatch = 2
  MaxContinuations = 12
  Corpora <- Lineages
  u1 = u1
  u2 = u2
  u3 = u3
  u4 = u4
  Raw <- Lines
  ToolFeatures <- Tools
  NameHint = "none"
  HashHint = "h"
  MaxTools = 1
  Days <- AllDays
  BufferCells = 2
  MaxEvents = 2
  MaxCells = 4
  ChunkCells = 3
  AnchorCells = 1
INVARIANTS ArchiveIsHonest ClassificationIsExact ReadIsParsed
PROPERTIES   ReaderCatchesUp
