SPECIFICATION Spec
CONSTANTS
  x = x
  y = y
  Keys = {x, y}
  Values = {}
  NULL = NULL
  NoFile = NoFile
  Files = {f}
  FileContents <- NoFiles
  WritesFail = FALSE
  MaxLog = 3
  MaxFile = 3
INVARIANT RestartRestoresTheStore
