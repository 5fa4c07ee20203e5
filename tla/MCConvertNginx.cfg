CONSTANTS
  r1 = r1
  r2 = r2
  Run <- TwoRuns
  Log <- MixedLog
  TrailingNewline = TRUE
SPECIFICATION FairSpec
INVARIANTS
  TypeOK
  KeyHeldByARun
  UndisturbedKeepsItsLine
  NullsHaveACause
  LastDocumentIsEmpty
PROPERTIES
  EveryReaderEnds
  WithoutFileForever
CHECK_DEADLOCK FALSE
