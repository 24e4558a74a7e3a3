SPECIFICATION FairSpec
CONSTANTS
  Calls = {c1, c2}
  NFds = 2
  Workers = {w1, w2}
INVARIANTS
  CallbackOnce
PROPERTIES
  GivenKept
  CallsBack
