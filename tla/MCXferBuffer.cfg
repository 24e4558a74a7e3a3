SPECIFICATION XferSpec
CONSTANTS
  Copies = {"up"}
  Lengths <- MCLengths
  Files = {2}
  MaxCells = 27
  MaxNumber = 4
INVARIANTS
  FreeExact
PROPERTIES
  ImplementsQueue
