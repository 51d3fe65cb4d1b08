SPECIFICATION FairSpec
CONSTANTS
  Base = 3
  BufferSize = 2
  NoFile = NoFile
  Zero = Zero
  Garbage <- MCGarbage
  Workers = {w1, w2}
  Names <- MCNames
  Lengths <- MCLengths
  CountMod = 4
  Requests <- AllRequests
  Parts <- AllParts
  MaxCalls = 2
  WritesFail = TRUE
  OpensFail = TRUE
INVARIANTS
  TypeOK
  ReadIsComplete
  BytesAreInPlace
  WriteHasLanded
  SizeIsReal
  AnsweredOnce
  NextRequestIsFound
PROPERTIES
  RequestsEnd
  OnlyAskedBytesChange
CHECK_DEADLOCK FALSE
