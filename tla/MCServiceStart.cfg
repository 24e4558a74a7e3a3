SPECIFICATION FairStartSpec
CONSTANTS
  Signals <- MCSignals
  N = 2
  Idle = Idle
INVARIANTS
  PackAlive
  InitBeforeStart
  NeverKilled
PROPERTIES
  StartsUp
  Stops
