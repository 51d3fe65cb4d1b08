SPECIFICATION Spec
CONSTANTS
  a = a
  b = b
  c = c
  Keys = {a, b, c}
  Values <- MCValues
  NULL = NULL
  Junk = Junk
  NumLists = 2
  Hash <- MCHash
  LongKeys = {b}
  MaxInserts = 4
INVARIANT EveryNodeIsFound
