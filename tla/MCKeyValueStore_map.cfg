SPECIFICATION Spec
CONSTANTS
  a = a
  b = b
  c = c
  Keys = {a, b, c}
  Values <- MCValues
  NULL = NULL
  Junk = Junk
  NumLists = 2
  Hash <- MCHash
  LongKeys = {}
  MaxInserts = 4
INVARIANTS
  TypeOK
  EveryNodeIsFound
  NumItemsIsLength
  NumKeysCoversNodes
PROPERTY ImplementsMap
