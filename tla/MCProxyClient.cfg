SPECIFICATION FairSpec
CONSTANTS
  Workers = {w1, w2}
  Main = main
  NoOne = noone
  MaxSets = 3
INVARIANTS
  NoUseAfterFree
  NewestFirst
  SetReachesAll
  InitialServersEverywhere
PROPERTIES
  NeverBackwards
  SetCompletes
