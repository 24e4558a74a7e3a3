SPECIFICATION Spec
CONSTANTS
  SizeofLen = 2
  Base = 3
  Scripts <- MCScripts
  ReadMax = 7
INVARIANTS
  AppliedInOrder
  NothingHeldBack
