SPECIFICATION Spec
CONSTANTS
  Listeners = {memtext, control}
  NFds = 4
  MaxSocks = 6
SYMMETRY Symmetry
INVARIANTS
  Unharmed
  Settled
