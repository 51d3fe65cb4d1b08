SPECIFICATION Spec
CONSTANTS
  x = x
  y = y
  Keys = {x, y}
  Values = {}
  NULL = NULL
  NoFile = NoFile
  Files = {f}
  FileContents <- MCFileContents
  WritesFail = TRUE
  MaxLog = 3
  MaxFile = 2
INVARIANTS
  TypeOK
  CrashKeepsOldOrNew
  DumpLoadsBack
PROPERTY RestartRestores
