SPECIFICATION FairSpec
CONSTANTS
  Base = 3
  BufferSize = 2
  NoFile = NoFile
  Zero = Zero
  Garbage <- MCGarbage
  Workers = {w1}
  Names <- MCNames
  Lengths <- MCLengths
  CountMod = 4
  Requests <- LongReads
  Parts = {}
  MaxCalls = 2
  WritesFail = FALSE
  OpensFail = FALSE
PROPERTY RequestsAreProcessed
CHECK_DEADLOCK FALSE
