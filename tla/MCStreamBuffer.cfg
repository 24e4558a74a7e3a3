SPECIFICATION Spec
CONSTANTS
  Refs = {r1, r2}
  Sizeof = 1
  InitSize = 3
  Lens = {1, 3}
  MaxChunk = 3
  MaxBytes = 5
SYMMETRY Symmetric
INVARIANTS
  CountsExact
PROPERTIES
  ImplementsStream
