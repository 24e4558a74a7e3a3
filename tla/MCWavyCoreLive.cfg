SPECIFICATION FairSpec
CONSTANTS
  Workers = {w1, w2, w3}
  Conns = {c1}
  Listeners = {l1}
  Signals = {s1}
  OUT = out
  NoFd = nofd
  QueueLimit = 1
  BacklogSize = 1
  MaxTasks = 2
PROPERTIES
  QueuesServed
  LongQueueServed
  EndStopsPool
