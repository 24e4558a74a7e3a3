SPECIFICATION Spec
CONSTANTS
  MaxMultiGet = 2
  NumBufMax = 3
  MaxULong = 199
  Wrap32 = 100
  Wrap16 = 8
  MultiMax = 8
  ReadMax = 12
  Scripts <- LimitScripts
  Errors <- MCErrors
INVARIANTS
  LimitRefused
