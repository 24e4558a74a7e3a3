SPECIFICATION Spec
CONSTANTS
  MaxMultiGet = 3
  NumBufMax = 3
  MaxULong = 199
  Wrap32 = 100
  Wrap16 = 8
  MultiMax = 2
  ReadMax = 12
  Scripts <- MCScripts
  Errors <- MCErrors
INVARIANTS
  RequestsFaithful
  RepliesMatch
  NoFalseError
  NothingHeldBack
